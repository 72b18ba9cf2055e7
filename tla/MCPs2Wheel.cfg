SPECIFICATION Spec
CONSTANTS
    Mice = {0, 3, 4}
    Slow = {}
    Drops = {FALSE}
    Keys <- MCKeys
    MaxKeys = 0
CHECK_DEADLOCK FALSE
INVARIANTS
    WheelRecognised
