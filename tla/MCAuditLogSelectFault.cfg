SPECIFICATION Spec
CONSTANTS
    ab_c = ab_c
    a_bc = a_bc
    other = other
    w1 = w1
    w2 = w2
    NoWriter = NoWriter
    Writer <- MCWriter
    Entry <- MCEntry
    Encoding <- MCEncoding
    Encode <- MCEncode
    Forgeable <- MCForgeable
    SelectFaults = TRUE
    MaxRows = 3
    MaxEdits = 0
SYMMETRY Symmetry
INVARIANT
    NoFalseAlarm
