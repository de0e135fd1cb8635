SPECIFICATION FairSpec
CONSTANTS
    ab_c = ab_c
    a_bc = a_bc
    other = other
    w1 = w1
    w2 = w2
    NoWriter = NoWriter
    Writer <- MCWriter
    Entry <- TwoEntries
    Encoding <- MCEncoding
    Encode <- MCEncode
    Forgeable <- MCForgeable
    SelectFaults = FALSE
    MaxRows = 2
    MaxEdits = 1
INVARIANTS
    ChainIntact
    VerdictExact
    NoFalseAlarm
    Anchored
    AckedDurable
PROPERTIES
    EveryCallEnds
    Implements
