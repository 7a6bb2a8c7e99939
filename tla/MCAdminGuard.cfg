SPECIFICATION GuardSpec
CONSTANTS
    u1 = u1
    u2 = u2
    r1 = r1
    r2 = r2
    None = None
    Users = {u1, u2}
    Reqs = {r1, r2}
    Ops <- OneMutates
    OutOfBand = TRUE
    TTL = 1
    Latency = 1
SYMMETRY RealmSymmetry
PROPERTIES
    StalenessBounded
    RevokedIsRefused
    LastAdminIsKept
