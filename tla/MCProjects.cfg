CONSTANTS
    p1 = p1
    p2 = p2
    c1 = c1
    c2 = c2
    n1 = n1
    n2 = n2
    o1 = o1
    o2 = o2
    r1 = r1
    r2 = r2
    None = None
    Projects = {p1, p2}
    Creds = {c1}
    ProjectOf <- FirstProject
    Names = {n1, n2}
    Operators = {o1, o2}
    Reqs = {r1, r2}
    MaxActive = 2
    MaxTime = 3
    Throttle = 1
SYMMETRY ProjectsSymmetry
SPECIFICATION ProjectsSpec
INVARIANTS
    NamesAreUnique
    AcceptedAtOneInstant
PROPERTIES
    RevocationIsFinal
