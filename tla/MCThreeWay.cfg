SPECIFICATION ServiceSpec
CONSTANTS
    Tenants <- MCTenants
    Requests <- MCRequests
    Owner <- MCOwner
    Arrival <- MCArrival
    Deadline <- MCDeadline
    Discipline = "fcfs"
    Units = 4
    Widths <- MCWidths
    Steps <- MCSteps
    Model <- MCModel
    StepCost <- MCStepCost
    PairCost <- MCPairCost
    Believed <- MCBelieved
    Reports <- MCReports
    Skew = 100
    Currency = "quota-seconds"
    RequestsPerTenant = 2
    MaxSteps = 3
    DriftTolerance = 15
    Backoff = 2
    MaxBackoff = 3
    MaxGap = 1
    MaxNow = 3
INVARIANT
    NoInventedFactor
