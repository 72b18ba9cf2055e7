SPECIFICATION Spec
CONSTANTS
    Lines <- MCLines
    NoisyLines <- MCNoisyLines
    Masks <- MCMasks
    CountMod = 2
CHECK_DEADLOCK FALSE
INVARIANTS
    OneFrame
    InServiceExact
    CountsExact
    SpuriousExact
    TicksExact
    HandlersBeforeDelivery
PROPERTIES
    RequestServed
    InterruptReturns
