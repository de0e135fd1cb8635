SPECIFICATION Spec
CONSTANTS
    h1 = h1
    h2 = h2
    deny = deny
    good = good
    bad = bad
    NoHandler = NoHandler
    Handler = {h1, h2}
    Policy = {deny, good}
    Default = deny
    Parses = {deny, good}
    Pooled = FALSE
    Faults = FALSE
    Drops = FALSE
    MaxRows = 4
    MaxStarts = 1
SYMMETRY Symmetry
INVARIANT
    EngineCurrent
CHECK_DEADLOCK FALSE
