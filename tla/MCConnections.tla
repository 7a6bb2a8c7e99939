--------------------------- MODULE MCConnections ---------------------------
(* Instances of Connections for TLC.                                        *)
EXTENDS Connections, TLC

CONSTANTS w1, w2, c1, c2, c3, r1, r2, k1, k2, s1, s2

\* Every connection in one workspace: the contended case.
OneWorkspace == [c \in Conns |-> w1]

=============================================================================
