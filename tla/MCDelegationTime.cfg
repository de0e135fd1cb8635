SPECIFICATION Spec
CONSTANTS
    a1 = a1
    a2 = a2
    u1 = u1
    u2 = u2
    s1 = s1
    db = db
    Agent = {a1, a2}
    User = {u1, u2}
    Scope = {s1}
    Owner <- MCOwner
    Resource = {db}
    MaxDepth = 1
    MaxTtl = 2
    DefaultTtl = 1
    Requests = {3}
    Withdrawals = {"revoke", "kill", "grant"}
    MaxRoots = 1
    MaxTokens = 2
    MaxTime = 2
    MaxRestarts = 1
INVARIANTS
    ExpiryInherited
    MemoryImpliesRow
PROPERTIES
    RevokedStaysRejected
CHECK_DEADLOCK FALSE
