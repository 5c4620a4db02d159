CONSTANTS
    Payload = {1, 2, 3, 4, 5, 6, 7}
    SeqMod = 16
    GapFloor = 7
    SeenWindow = 16
    Windows = {0, 2, 4}
    MaxFed = 100
    MaxBad = 0
    StartSeq = 14
    RestartSeqs = {8}
    MaxRespawns = 1
    MaxSent = 7
    MaxCopies = 1
    CopyWindows = {0}
    MaxLost = 2
    MaxOvertake = 3
    RestartIntact = TRUE
SPECIFICATION StreamSpec
INVARIANTS ReportAddsUp OnlyLostAreSkipped HeldBriefly
PROPERTY DeliversLossyStream
