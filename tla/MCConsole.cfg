SPECIFICATION Spec
CONSTANTS
    Columns = 4
    Rows = 2
    TabStop = 2
    Base = 4
    Wide = 16
INVARIANTS
    InTextMemory
    CursorBounded
    HardwareCursor
