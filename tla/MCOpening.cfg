CONSTANTS
    Desc <- Gadget
    ArgChoices <- SomeArgs
    Noise <- LogNoise
    WireCap = 1
    MaxDrain = 2
    MaxCalls = 3
SPECIFICATION OpeningSpec
INVARIANTS HoldsOnlyTheChosen AckIsOwn HintNamesCause
PROPERTY DrainsEnd
