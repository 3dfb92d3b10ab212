CONSTANTS
    Messages = {m1, m2}
    Users = {s, g}
    Sharer = s
    Images = {x1}
    GuestTTL = 1
    ChannelTTL = 1
    CardTTL = 1
    MaxEvents = 1
    MaxAgain = 1
    MaxVersion = 2
    MaxTime = 2
    None = None
SYMMETRY Symmetry
CONSTRAINT Bounds
SPECIFICATION UnfurlSpec
INVARIANTS ContentByRight QuotesSound
PROPERTIES GuestsAsked RefusedBacksOff
