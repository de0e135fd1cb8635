SPECIFICATION Spec
CONSTANTS
    w1 = w1
    w2 = w2
    a1 = a1
    s1 = s1
    read = read
    pay = pay
    Worker = {w1, w2}
    o1 = o1
    o2 = o2
    NoSid = NoSid
    NoAction = NoAction
    Rule <- MCRule
    Agent = {a1}
    Sid = {s1}
    Action = {read, pay}
    Console = {o1}
    AdminOps = {}
    MaxTokens = 3
    MaxActions = 3
    MaxRestarts = 1
SYMMETRY Symmetry
INVARIANTS
    TypeOK
    DeliveredLogged
    OvershootBounded
CHECK_DEADLOCK FALSE
