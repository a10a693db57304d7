SPECIFICATION Spec
CONSTANTS
    Runs = {b}
    Masked = {}
    NoRun = NoRun
    Empty = Empty
    Fallback = Fallback
    MaxFaults = 3
    MaxTroubles = 0
PROPERTIES
    UnpersistedQuarantineHoldsLock
CHECK_DEADLOCK FALSE
