CONSTANTS
    Payload = {"part", "frame", "junk", "bare", "none"}
    SeqMod = 10
    GapFloor = 4
    SeenWindow = 3
    Windows = {0, 2}
    MaxFed = 4
    MaxBad = 1
    SockCap = 2
    Arrivals <- EveryKind
SPECIFICATION ListenSpec
CHECK_DEADLOCK FALSE
INVARIANTS ListenTypeOK ReceivedReachesCaller
PROPERTY LimitsHonouredOutsideRead
