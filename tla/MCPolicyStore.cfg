SPECIFICATION Spec
CONSTANTS
    h1 = h1
    h2 = h2
    deny = deny
    good = good
    bad = bad
    NoHandler = NoHandler
    Handler = {h1, h2}
    Policy = {deny, good, bad}
    Default = deny
    Parses = {deny, good}
    Pooled = TRUE
    Faults = TRUE
    Drops = TRUE
    MaxRows = 5
    MaxStarts = 3
SYMMETRY Symmetry
INVARIANTS
    NewestActive
    ReadsOwnWrite
PROPERTY
    AloneTakesEffect
CHECK_DEADLOCK FALSE
