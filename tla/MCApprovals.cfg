SPECIFICATION ReviewSpec
CONSTANTS
    c1 = c1
    c2 = c2
    u1 = u1
    u2 = u2
    Calls = {c1, c2}
    Approvers = {c1, c2}
    Texts = {t0, t1}
    Blank = t0
    Avatars = {f1}
    Locked = {}
    RequireApproval = TRUE
    MaxRevision = 3
    Requests = {q1, q2}
    Users = {u1, u2}
    UserOf <- MCUserOf
    MaxStops = 1
    NoRequest = NoRequest
SYMMETRY MCSymmetry
INVARIANTS
    OutcomeMatchesCard
PROPERTIES
    NoLostUpdate
    AppliedWhereProposed
CHECK_DEADLOCK FALSE
