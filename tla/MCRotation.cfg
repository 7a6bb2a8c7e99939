CONSTANTS
    c1 = c1
    c2 = c2
    s1 = s1
    s2 = s2
    p1 = p1
    p2 = p2
    q1 = q1
    q2 = q2
    None = None
    Conns = {c1, c2}
    Secrets = {s1, s2}
    Servers = {p1, p2}
    Rotators = {q1, q2}
SYMMETRY RotationSymmetry
SPECIFICATION RotationSpec
INVARIANTS
    CredentialSurvives
    NoRowStranded
PROPERTIES
    CompleteOnceRestarted
