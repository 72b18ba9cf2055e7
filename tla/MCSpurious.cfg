SPECIFICATION Spec
CONSTANTS
    Lines <- MCLines
    NoisyLines <- MCNoisyLines
    Masks <- MCMasks
    CountMod = 2
CHECK_DEADLOCK FALSE
INVARIANT
    SpuriousNotAcked
