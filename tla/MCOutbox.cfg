SPECIFICATION FairSpec
CONSTANTS
    Events = {e1, e2}
    Dispatchers = {d1, d2}
    Keys = {k1}
    Key <- MCKey
    BatchSize = 2
    MaxAttempts = 2
    EmailAttempts = 2
    MaxStalls = 1
    MaxLosses = 1
    NoEvent = NoEvent
INVARIANTS
    ClaimedByOne
    AStopStrandsOneBatch
    ExtraMailsAreReruns
PROPERTIES
    EventsResolve
    ImplementsDispatch
CHECK_DEADLOCK FALSE
