CONSTANTS
    Payload = {1, 2, 3, 4, 5}
    SeqMod = 16
    GapFloor = 7
    SeenWindow = 16
    Windows = {2}
    MaxFed = 100
    MaxBad = 0
    StartSeq = 14
    RestartSeqs = {8}
    MaxRespawns = 0
    MaxSent = 5
    MaxCopies = 1
    CopyWindows = {2}
    MaxLost = 2
    MaxOvertake = 2
    RestartIntact = TRUE
SPECIFICATION StreamSpec
PROPERTY DeliversLossyStream
