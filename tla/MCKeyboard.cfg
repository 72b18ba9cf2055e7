SPECIFICATION Spec
CONSTANTS
    BufSize = 3
    Keys <- MCKeys
    F2 = 2
    Layouts = {"first", "pad"}
INVARIANTS
    TypeOK
    KeysInOrder
    TakenIsIntact
    PromptAfterDrain
PROPERTIES
    KeyEndsWait
    ImplementsQueue
