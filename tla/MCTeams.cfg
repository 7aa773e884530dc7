SPECIFICATION Spec
CONSTANTS
    a = a
    j1 = j1
    People = {o, a, b}
    Owner = o
    Invitations = {i1, i2}
    Requests = {c1, c2}
    Imports = {j1}
    Workers = {w1, w2}
    RowsOf <- MCRowsOf
    Limit = 2
    Attempts = 2
    MaxOffs = 1
    MaxStops = 1
    Nobody = Nobody
    NoInvitation = NoInvitation
    NoImport = NoImport
SYMMETRY MCSymmetry
INVARIANTS
    MembersWithinLimit
    ExtraLinksWereBlind
PROPERTIES
    LinkDiesWithInvitation
CHECK_DEADLOCK FALSE
