SPECIFICATION FairSpec
CONSTANTS
    v1 = v1
    v2 = v2
    n1 = n1
    n2 = n2
    Deliveries = {v1}
    Endpoints = {n1}
    EndpointOf <- MCEndpointOf
    Dispatchers = {d1, d2}
    BatchSize = 2
    MaxAttempts = 2
    DisableAfter = 2
    CallsPerLease = 0
    MaxEdits = 1
    RlsEnforced = FALSE
    MaxLosses = 1
    NoCall = NoCall
PROPERTIES
    DeliveriesAreDecided
CHECK_DEADLOCK FALSE
