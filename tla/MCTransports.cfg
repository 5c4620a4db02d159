CONSTANTS
    Chosen = {"tcp", "broadcast", "libusb"}
    Roles = {"server", "client", "broker"}
    LineMax = 2
    MaxFrames = 3
    MaxBreaks = 2
    Cuts <- SevenDatagrams
    RecordEnds = {1, 4, 5, 7}
    LogFrames = {1, 2, 4, 5, 6, 7}
    Lookalikes = {4, 6}
    Chunk = 4
    NumMod = 16
    GapMax = 2
    FirstSeq = 13
    Headers = {TRUE, FALSE}
    Overtaking = 2
    MaxLost = 3
    ChunkSizes = {1, 2, 3}
    PipeCap = 2
    MaxSent = 8
    Wedged = FALSE
SPECIFICATION TransportSpec
CHECK_DEADLOCK FALSE
INVARIANTS OneMangledPerBreak NothingLostInClient DropsCoverLoss DamageStaysInRecord StreamIntact OnlyOwnFiles
PROPERTIES HandshakeEnds RecvComesBack CloseEndsBoth ErrorBecomesEof
