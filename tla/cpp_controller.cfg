CONSTANTS
    N = 4
    Threshold <- MCThreshold
    SpectralEff <- MCSpectralEff
    Margin = 1
    Hysteresis = 1
    InitialModcod = 1
    HistoryLen = 2
    SnrLevels <- MCSnrLevels
    ForceTargets = {0, 2}
    MaxMessages = 3
    MaxCalls = 2
SPECIFICATION FairSpec
CHECK_DEADLOCK FALSE
INVARIANTS
    TypeOK
    OverrideSticks
    PublishedLatest
PROPERTIES
    ImplementsDecision
    AverageNoPingPong
    DestructorReturns
    AiSettles
