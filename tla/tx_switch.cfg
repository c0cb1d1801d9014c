SPECIFICATION Spec
CONSTANTS
    Modcods <- MCModcods
    InitialModcod = "a"
    BbFrame <- MCBbFrame
    Kbch <- MCKbch
    Nldpc = 6
    BitsPerSymbol <- MCBitsPerSymbol
    MaxSymbols = 3
    MaxPlFrame = 4
    MaxRequests = 3
    MaxBbFrames = 14
INVARIANTS
    MappedAsEncoded
CHECK_DEADLOCK FALSE
