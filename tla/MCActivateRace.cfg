CONSTANTS
    w1 = w1
    w2 = w2
    c1 = c1
    c2 = c2
    c3 = c3
    r1 = r1
    r2 = r2
    k1 = k1
    k2 = k2
    s1 = s1
    s2 = s2
    None = None
    Workspaces = {w1}
    Conns = {c1}
    Coords = {k1, k2}
    Secrets = {s1}
    Owner <- OneWorkspace
    Reqs = {r1, r2}
SPECIFICATION Spec
PROPERTIES
    PromotionIsVerified
