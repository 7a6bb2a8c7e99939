SPECIFICATION InstallSpec
CONSTANTS
    Keyrings = {"k1", "k2"}
INVARIANTS
    OperatorValuesSurvive
    RegenAgrees
