SPECIFICATION Spec
CONSTANTS
    NTenants = 2
    NRequests = 3
    Weight <- MCWeight
    Owner <- MCOwner
    Steps <- MCSteps
    CumCost <- MCCumCost
    MaximumCredit = 1
    Scale = 6
    MaxTime = 2
    MaxQuantum = 2
INVARIANTS
    TypeOK
    ActiveIsBacklog
    LifecycleAgrees
    ClocksAgree
    ServiceIsCompletedWork
    ChargesAreKept
PROPERTIES
    QuantumIsZeroSum
    WakeCreditIsBounded
CHECK_DEADLOCK FALSE
