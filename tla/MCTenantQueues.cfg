SPECIFICATION QueueSpec
CONSTANTS
    Tenants <- MCTenants
    Requests <- MCRequests
    Owner <- MCOwner
    Arrival <- MCArrival
    Deadline <- MCDeadline
    Discipline = "fcfs"
INVARIANTS
    QueueTypeOK
    RequestsAccounted
    BackloggedAreOffered
