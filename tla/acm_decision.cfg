CONSTANTS
    N = 28
    Threshold <- Dvbs2Threshold
    SpectralEff <- Dvbs2SpectralEff
    Margin <- MCMargin
    Hysteresis <- MCHysteresis
    Levels <- MCLevels
    Rules = {"cpp", "engine", "python", "simulation"}
SPECIFICATION Spec
INVARIANTS
    DecisionSettles
    KeepsLinkClosed
    NeverDominated
    TakesClearUpgrade
PROPERTIES
    NoPingPong
    TakeoverKeepsUpgrades
