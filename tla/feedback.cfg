SPECIFICATION FairSpec
CONSTANTS
    Estimators <- MCEstimators
    Sizes = {20, 50, 100, 200}
    ReportPeriod = 2
    MaxSnrBox = 1
    Modcods = {1, 2}
    Nldpc = 2
    Kbch <- MCKbch
    FirstModcod = 1
    MaxCall = 3
    MaxBacklog = 2
    MaxBerBox = 2
    Period = 2
INVARIANTS
    ReportsInTime
    KeepsUp
    DecoderFollows
PROPERTIES
    LossIsReported
CHECK_DEADLOCK FALSE
