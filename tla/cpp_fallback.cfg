CONSTANTS
    N = 4
    Threshold <- MCThreshold
    SpectralEff <- MCSpectralEff
    Margin = 1
    Hysteresis = 1
    InitialModcod = 3
    HistoryLen = 2
    SnrLevels <- MCSnrLevels
    ForceTargets = {}
    MaxMessages = 2
    MaxCalls = 0
SPECIFICATION Spec
CHECK_DEADLOCK FALSE
INVARIANTS
    TransmitterFollows

