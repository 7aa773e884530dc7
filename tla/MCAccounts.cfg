SPECIFICATION Spec
CONSTANTS
    Users = {u1, u2}
    Identities = {s1, s2}
    Files = {f1}
    Requests = {c1, c2}
    Deletions = {d1, d2}
    Attempts = 2
    RlsEnforced = FALSE
    MaxFaults = 1
    NoIdentity = NoIdentity
    NoUser = NoUser
    NoDeletion = NoDeletion
SYMMETRY MCSymmetry
INVARIANTS
    RowsGoLast
    CompletedMeansGone
    EmptyWerePassedBy
    NoDeletionIsForgotten
    LetInOnlyWhenGone
PROPERTIES
    OthersKeepTheirOrganization
CHECK_DEADLOCK FALSE
