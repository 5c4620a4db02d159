CONSTANTS
    Noise <- LogNoise
    WireCap = 2
    Groups = {1}
    Wanted = {1}
    SpcTries = 0
    Leftover <- NoRequests
    Spontaneous = FALSE
SPECIFICATION SessionSpec
PROPERTY NoRecordLeftBehind
