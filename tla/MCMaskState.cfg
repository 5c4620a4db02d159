CONSTANTS
    Noise <- NoNoise
    WireCap = 1
    Listed = 2
    Levels = {0, 1, 3}
    Stored <- PrefixOr
    MaxFaults = 2
    MaxPairs = 2
    LevelBits = 2
    MaxSsid = 3
SPECIFICATION MaskSpec
INVARIANTS VerifiedIsRestored ChangedIsSaved HealthyRunRestores
