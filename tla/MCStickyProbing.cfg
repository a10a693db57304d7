SPECIFICATION PairingSpec
CONSTANTS
    Tenants <- MCTenants
    Requests <- TwoRequests
    Owner <- TwoOwners
    Arrival <- LateArrival
    Deadline <- MCDeadline
    Discipline = "fcfs"
    Units = 4
    Widths <- MCWidths
    Steps <- SixSteps
    Model <- AllImages
    StepCost <- MCStepCost
    PairCost <- MCPairCost
    Believed <- MCWidths
    Reports <- MCReports
    Skew = 100
    Currency = "quota-seconds"
    RequestsPerTenant = 1
    MaxSteps = 1
    DriftTolerance = 15
    Backoff = 3
    MaxBackoff = 12
    MaxGap = 1
    MaxNow = 12
    Sticky = TRUE
    Tolerance = 160
    SlowReading = 161
    BaseBackoff = 3
    MaxPairingBackoff = 12
PROPERTY
    VerdictsAreProbed
