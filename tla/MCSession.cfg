CONSTANTS
    Noise <- RecvNoise
    WireCap = 2
    Groups = {1, 2}
    Wanted = {1}
    SpcTries = 1
    Leftover <- OldRequests
    Spontaneous = TRUE
SPECIFICATION SessionSpec
INVARIANTS ArmedWhenCapturing ClearedAtExit
PROPERTY SendRecvTerminates
