CONSTANTS
    N = 4
    Threshold <- MCThreshold
    SpectralEff <- MCSpectralEff
    Margin = 1
    Hysteresis = 1
    InitialModcod = 1
    HistoryLen = 2
    SnrLevels <- MCSnrLevels
    ForceTargets = {0, 2}
    MaxMessages = 3
    MaxCalls = 1
SPECIFICATION Spec
CHECK_DEADLOCK FALSE
INVARIANTS
    AiHonoursOverride

