CONSTANTS
    w1 = w1
    w2 = w2
    c1 = c1
    c2 = c2
    c3 = c3
    k1 = k1
    s1 = s1
    s2 = s2
    t1 = t1
    t2 = t2
    q1 = q1
    q2 = q2
    None = None
    Workspaces = {w1, w2}
    Conns = {c1, c2, c3}
    Coords = {k1}
    Secrets = {s1, s2}
    Owner <- TwoTenants
    Calls = {q1, q2}
    Stamps = {t1, t2}
    CacheSize = 2
SYMMETRY RuntimeSymmetry
SPECIFICATION RuntimeSpec
INVARIANTS
    ServedProviderIsCurrent
    RetiredNeverServes
    OneGenerationPerConnection
    CacheIsBounded
PROPERTIES
    FrozenOnceActive
