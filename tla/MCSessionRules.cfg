SPECIFICATION RulesSpec
CONSTANTS
    c1 = c1
    c2 = c2
    r1 = r1
    pay = pay
    quote = quote
    Client = {c1, c2}
    Reporter = {r1}
    Guarded = pay
    Prior = quote
    Limit = {1, 2}
    Window = 1
    SpendCap = 1
    Amount <- MCAmount
    Cap = 1
    MaxNow = 2
    MaxCalls = 4
    MaxEvents = 2
    MaxReports = 1
SYMMETRY Symmetry
INVARIANTS
    WindowLimit
    LongRunRate
    CapBinds
    PriorRecent
    DenialEarned
CHECK_DEADLOCK FALSE
