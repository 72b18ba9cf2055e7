SPECIFICATION Spec
CONSTANTS
    Wrap = 16
    hz = 2
    Second = 4
    Delays <- MCDelays
    Words = 2
    Patience = 2
    Starts <- MCStarts
    MaxUpdates = 2
    Count = 4
    StackWords = 24
    FrameWords = 3
    Missed = 1
INVARIANTS
    DelayLasts
    RtcConsistent
    ReadBack
    Resumes
PROPERTIES
    BootProceeds
    ImplementsRoundRobin
