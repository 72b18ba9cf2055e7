SPECIFICATION Spec
CONSTANTS
    Mice = {0, 3, 4}
    Slow = {1, 2}
    Drops = {TRUE, FALSE}
    Keys <- MCKeys
    MaxKeys = 1
CHECK_DEADLOCK FALSE
INVARIANTS
    InputOn
    ModeSafe
    NothingLeft
PROPERTIES
    SetupEnds
