SPECIFICATION Spec
CONSTANTS
    Capacity = 3
    BatchSize = 2
    Priorities = {1, 4}
    One = 2
    Alpha <- MCAlpha
    MaxPushes = 5
    Modcods = {4}
    InitialModcod = 4
    NStep = 2
    Passes = 3
    PassSteps = 2
    TrainIters = 1
    SaveEvery = 2
    SeqLen = 1
    PredSteps = 1
    TrainEvery = 1
    MaxRequests = 3
    MaxTrainSteps = 2
    MaxKills = 1
INVARIANTS
    SumsMatch
    DrawsFindEntries
    SampledInProportion
    ErrorsGoHome
    NStepIsConsecutive
    CheckpointLag
CHECK_DEADLOCK FALSE
