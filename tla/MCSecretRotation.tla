-------------------------- MODULE MCSecretRotation --------------------------
(* Instances of SecretRotation for TLC.                                     *)
EXTENDS SecretRotation, TLC

CONSTANTS c1, c2, s1, s2, p1, p2, q1, q2

RotationSymmetry ==
    Permutations(Conns) \cup Permutations(Secrets)
        \cup Permutations(Servers) \cup Permutations(Rotators)
=============================================================================
