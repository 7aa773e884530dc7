SPECIFICATION Spec
CONSTANTS
    Calls = {c1, c2}
    Approvers = {c1}
    Texts = {t0, t1}
    Blank = t0
    Avatars = {f1, f2}
    Locked = {"avatar"}
    RequireApproval = FALSE
    MaxRevision = 3
    NoPublication = NoPublication
    MaxOps = 4
    MaxFaults = 1
INVARIANTS
    VisitorsSeeARevision
    PublicPictureExists
PROPERTIES
    PublicationsMoveForward
CHECK_DEADLOCK FALSE
