SPECIFICATION PairingSpec
CONSTANTS
    Tenants <- MCTenants
    Requests <- MCRequests
    Owner <- MCOwner
    Arrival <- MCArrival
    Deadline <- MCDeadline
    Discipline = "fcfs"
    Units = 4
    Widths <- MCWidths
    Steps <- MCSteps
    Model <- Mixed
    StepCost <- MCStepCost
    PairCost <- MCPairCost
    Believed <- MCWidths
    Reports <- MCReports
    Skew = 100
    Currency = "quota-seconds"
    RequestsPerTenant = 1
    MaxSteps = 1
    DriftTolerance = 15
    Backoff = 1
    MaxBackoff = 4
    MaxGap = 1
    MaxNow = 8
    Sticky = FALSE
    Tolerance = 160
    SlowReading = 161
    BaseBackoff = 1
    MaxPairingBackoff = 4
INVARIANT
    LagIsBounded
