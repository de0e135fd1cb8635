SPECIFICATION Spec
CONSTANTS
    w1 = w1
    w2 = w2
    a1 = a1
    s1 = s1
    read = read
    pay = pay
    Worker = {w1, w2}
    o1 = o1
    o2 = o2
    NoSid = NoSid
    NoAction = NoAction
    Rule <- MCLooseRule
    Agent = {a1}
    Sid = {s1}
    Action = {read}
    Console = {o1, o2}
    AdminOps = {"kill", "restore", "session"}
    MaxTokens = 3
    MaxActions = 2
    MaxRestarts = 0
SYMMETRY Symmetry
INVARIANTS
    StopBinds
    KillLeakBounded
CHECK_DEADLOCK FALSE
