CONSTANTS
    Flag = 0
    Esc = 1
    EscFlag = 2
    EscEsc = 3
    Log = 4
    Wrap = 5
    CodeOff = 1
    WrapOff = 1
    PeekWindow = 6
    Trailer = 1
    Crc <- FirstByte
    LogCodes = {0, 1}
    Opcodes = {0}
    Extra = {2}
    AllLogs = FALSE
    VerifyCrc = TRUE
    Streams <- SomeStreams
    ChunkSizes = {1, 3, 5}
    MaxResets = 1
SPECIFICATION FilterSpec
INVARIANTS YieldsTheWanted PeekIsExact CountsAddUp
