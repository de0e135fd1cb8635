SPECIFICATION Spec
CONSTANTS
    c1 = c1
    c2 = c2
    hub = hub
    slk = slk
    oth = oth
    Client = {c1, c2}
    Account = {hub, slk, oth}
    Provider <- MCProvider
    MaxRows = 3
    MaxKeys = 2
    MaxStarts = 3
SYMMETRY Symmetry
INVARIANTS
    TypeOK
    ReadsNewest
    SameLifeVends
    FirstKeyLasts
CHECK_DEADLOCK FALSE
