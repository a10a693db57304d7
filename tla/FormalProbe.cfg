SPECIFICATION Spec
CONSTANTS
    Runs = {m, b}
    Masked = {m}
    NoRun = NoRun
    Empty = Empty
    Fallback = Fallback
    MaxFaults = 2
    MaxTroubles = 2
INVARIANTS
    ProbeTypeOK
    ExposedIsRefused
    ReapedMeansGone
    PassedMeansProved
PROPERTIES
    ImplementsCustody
    RecordedQuarantineHolds
    InterruptedIsDistrusted
    
CHECK_DEADLOCK FALSE
