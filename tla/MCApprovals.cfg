SPECIFICATION Spec
CONSTANTS
    a1 = a1
    a2 = a2
    c1 = c1
    c2 = c2
    k1 = k1
    k2 = k2
    p1 = p1
    p2 = p2
    i1 = i1
    Nobody = Nobody
    Agent = {a1, a2}
    Client = {c1, c2}
    Console = {k1, k2}
    Approver = {p1, p2}
    Id = {i1}
    MaxKeys = 2
CHECK_DEADLOCK FALSE
SYMMETRY Symmetry
INVARIANTS
    TypeOK
    RotationBinds
    ShownKeyWorks
PROPERTIES
    Implements
