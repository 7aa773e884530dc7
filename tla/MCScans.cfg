SPECIFICATION FairSpec
CONSTANTS
    Scans = {s1}
    Requests = {c1, c2}
    Runs = {r1, r2}
    Attempts = 2
    MaxFaults = 2
    NoScan = NoScan
INVARIANTS
    ExtraContactsAreExplained
    RemovalStopsWhereItWasCut
PROPERTIES
    ScansEnd
CHECK_DEADLOCK FALSE
