SPECIFICATION Spec
CONSTANTS
    MaxBlocks = 8
    U32 = 64
    Byte = 5
    Sizes <- MCSizes
INVARIANTS
    Disjoint
    InHeap
    NothingWasted
    NoFreeByteMarked
