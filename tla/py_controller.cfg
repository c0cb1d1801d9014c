CONSTANTS
    N = 3
    Threshold <- MCThreshold
    SpectralEff <- MCSpectralEff
    Margin = 1
    Hysteresis = 1
    UseAi = TRUE
    InitialModcod = 1
    Levels <- MCLevels
    ForceTargets <- MCForceTargets
    MaxMessages = 3
    MaxCalls = 1
    MaxCrashes = 1
SPECIFICATION FairSpec
CHECK_DEADLOCK FALSE
INVARIANTS
    TypeOK
    DriftOnlyByForce
    ReplyIsFresh
    CcmSticks
PROPERTIES
    ImplementsDecision
    HandlerReturns
