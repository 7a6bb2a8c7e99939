----------------------------- MODULE MCProjects -----------------------------
(* Instances of Projects for TLC.                                           *)
EXTENDS Projects, TLC

CONSTANTS p1, p2, c1, c2, n1, n2, o1, o2, r1, r2

\* Every credential belongs to the first project.
FirstProject == [c \in Creds |-> p1]

ProjectsSymmetry ==
    Permutations(Reqs) \cup Permutations(Creds) \cup Permutations(Operators) \cup Permutations(Names)
=============================================================================
