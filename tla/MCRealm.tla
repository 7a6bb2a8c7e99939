------------------------------- MODULE MCRealm -------------------------------
EXTENDS Realm, TLC

CONSTANTS r1, r2

Slots == Permutations(Reqs)

=============================================================================
