---------------------------- MODULE MCAdminGuard ----------------------------
(***************************************************************************)
(* AdminGuard for TLC.                                                     *)
(***************************************************************************)
EXTENDS AdminGuard, TLC

CONSTANTS u1, u2, r1, r2

\* One request calls any verb while the others are being admitted; what a second
\* verb would change of the realm, an operator changes out of band.
OneMutates == [r \in Reqs |-> IF r = r1 THEN Verbs ELSE {"read"}]

RealmSymmetry == Permutations(Users)
=============================================================================
