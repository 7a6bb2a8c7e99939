SPECIFICATION RealmSpec
CONSTANTS
    r1 = r1  r2 = r2
    Reqs = {r1, r2}
    Ops = {"invite", "password", "rename", "disable", "resend", "delete", "list"}
    Ids = {0, 1, 2}
    Old = 1
    PageSize = 1
    HardCap = 3
    MaxRevocations = 1
    MaxTroubles = 2
SYMMETRY Slots
INVARIANTS
    AppliedAtMostOnce
    RetryEscapesOneRevocation
    FailedInvitationLeavesNoUser
    AnsweredMeansProvisioned
    ListingIsComplete
PROPERTIES
    PatchIsExact
CHECK_DEADLOCK FALSE
