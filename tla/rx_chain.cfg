SPECIFICATION Spec
CONSTANTS
    Modcods <- MCModcods
    BitsPerSymbol <- MCBitsPerSymbol
    Nldpc = 12
    Sof = 2
    Header = 6
    Slot = 1
    PilotPeriod = 2
    PilotLen = 1
    Pilots = TRUE
    SearchSpan = 16
    InitialModcod = 4
    ChunkSizes = {5, 10, 14}
    Batches = {4}
    Decoys = {1}
    Noise <- MCNoise
    MaxFrames = 3
INVARIANTS
    NoSofLost
    AveragesPilots
    HeaderSurvives
    
CHECK_DEADLOCK FALSE
