CONSTANTS
    Payload = {p}
    SeqMod = 10
    GapFloor = 4
    SeenWindow = 2
    Windows = {0, 2}
    MaxFed = 5
    MaxBad = 1
SPECIFICATION Spec
INVARIANTS TypeOK SeenInStep Conservation BufferBounded SwitchIffHugeGap
PROPERTIES ReceivedIsDelivered LossTotalFollowsBase
