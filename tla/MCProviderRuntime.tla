------------------------- MODULE MCProviderRuntime -------------------------
(* Instances of ProviderRuntime for TLC.                                    *)
EXTENDS ProviderRuntime, TLC

CONSTANTS w1, w2, c1, c2, c3, k1, s1, s2, t1, t2, q1, q2

\* Two connections of one tenant and one of its neighbour.
TwoTenants == [c \in Conns |-> IF c = c3 THEN w2 ELSE w1]

\* updated_at is only ever compared for equality, so its values are interchangeable.
RuntimeSymmetry ==
    Permutations(Calls) \cup Permutations(Secrets) \cup Permutations(Stamps)
        \cup Permutations({c1, c2})
=============================================================================
