SPECIFICATION Spec
CONSTANTS
    HexDigits = 2
    U32 = 256
    U64 = 65536
    Byte = 16
    Word = 4
    Nibble = 4
    TssSize = 20
    Entries = 4
    Page = 16
    Dividends <- MCDividends
    Divisors <- MCDivisors
    Longs <- MCLongs
    BinaryPlaces <- MCPlaces
    MemSize = 16
    Reach <- MCReach
    Faults = 3
    ByteXor <- MCXor
INVARIANTS
    PrintingExact
    MemoryExact
    CardExact
    DrawingExact
    TablesExact
CHECK_DEADLOCK FALSE
