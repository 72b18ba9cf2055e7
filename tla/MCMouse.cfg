SPECIFICATION Spec
CONSTANTS
    Moves <- MCMoves
    Modes <- MCModes
    MaxX = 6
    MaxY = 4
    Slots = 2
INVARIANTS
    TypeOK
    StaysFramed
    Resynchronises
PROPERTIES
    WholePackets
