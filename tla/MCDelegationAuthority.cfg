SPECIFICATION Spec
CONSTANTS
    a1 = a1
    a2 = a2
    u1 = u1
    u2 = u2
    s1 = s1
    db = db
    Agent = {a1, a2}
    User = {u1, u2}
    Scope = {s1}
    Resource = {db, a2}
    Owner <- MCOwner
    MaxDepth = 2
    MaxTtl = 1
    DefaultTtl = 1
    Requests = {1}
    Withdrawals = {}
    MaxRoots = 1
    MaxTokens = 4
    MaxTime = 0
    MaxRestarts = 0

INVARIANTS
    TypeOK
    Attenuation
    ChainFaithful
    MintedByHolder
CHECK_DEADLOCK FALSE
