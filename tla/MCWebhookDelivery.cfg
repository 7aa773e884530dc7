SPECIFICATION Spec
CONSTANTS
    v1 = v1
    v2 = v2
    n1 = n1
    n2 = n2
    Deliveries = {v1, v2}
    Endpoints = {n1, n2}
    EndpointOf <- MCEndpointOf
    Dispatchers = {d1, d2}
    BatchSize = 2
    MaxAttempts = 2
    DisableAfter = 1
    CallsPerLease = 1
    MaxEdits = 1
    RlsEnforced = FALSE
    MaxLosses = 1
    NoCall = NoCall
SYMMETRY MCSymmetry
INVARIANTS
    ReceiptsAccountedFor
    UsesAllAttempts
    LeaseExcludes
    EachOverrunTakesBackOnce
CHECK_DEADLOCK FALSE
