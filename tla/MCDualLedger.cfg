SPECIFICATION DualSpec
CONSTANTS
    NTenants = 2
    NRequests = 3
    Weight <- MCWeight
    Owner <- MCOwner
    Steps <- MCSteps
    CumCost <- MCCumCost
    MaximumCredit = 1
    Scale = 4
    MaxTime = 5
    MaxQuantum = 1
    Components = {1}
    Usages = {0, 11}
    TickNs = 2
    FactorNum = 2
    FactorDen = 3
    Grain = 3
INVARIANTS
    DualTypeOK
    NoDecayTimeLost
    RoundingNeverForgives
CONSTRAINT MCFocus
CHECK_DEADLOCK FALSE
