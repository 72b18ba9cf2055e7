SPECIFICATION Spec
CONSTANTS
    BufSize = 3
    Keys <- MCKeys
    F2 = 2
    Layouts = {"first"}
PROPERTY
    LostOnlyWhenFull
