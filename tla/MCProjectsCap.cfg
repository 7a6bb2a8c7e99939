CONSTANTS
    p1 = p1
    p2 = p2
    c1 = c1
    c2 = c2
    n1 = n1
    n2 = n2
    o1 = o1
    o2 = o2
    r1 = r1
    r2 = r2
    None = None
    Projects = {p1}
    Creds = {c1, c2}
    ProjectOf <- FirstProject
    Names = {n1}
    Operators = {o1}
    Reqs = {r1, r2}
    MaxActive = 1
    MaxTime = 0
    Throttle = 1
SPECIFICATION ProjectsSpec
INVARIANTS
    CapHolds
