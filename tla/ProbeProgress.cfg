SPECIFICATION FairSpec
CONSTANTS
    Runs = {m}
    Masked = {m}
    NoRun = NoRun
    Empty = Empty
    Fallback = Fallback
    MaxFaults = 1
    MaxTroubles = 2
PROPERTIES
    LeaseEnds
    MaskedProbeEnds
CHECK_DEADLOCK FALSE
