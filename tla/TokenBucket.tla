----------------------------- MODULE TokenBucket -----------------------------
(***************************************************************************)
(* What a rate limit promises, free of how it is kept: one full bucket per *)
(* key, refilled for every key at every tick, emptied one token per        *)
(* admitted request, and credited one token by a refund.                   *)
(*                                                                         *)
(* A bucket holds Burst tokens for certain, and up to Slack more that it   *)
(* may spill when it is used.  With no slack it is the plain bucket.       *)
(*                                                                         *)
(* RateLimiter implements it with a map of lazily refilled buckets that a  *)
(* background sweep forgets.                                               *)
(***************************************************************************)
EXTENDS Integers

CONSTANTS
    Keys,           \* client addresses, or project credentials
    Rate,           \* tokens added in a tick
    Burst,          \* what a bucket holds
    Slack           \* what it may hold beyond

VARIABLE level

AtMostFull(n) == IF n > Burst + Slack THEN Burst + Slack ELSE n

\* What may be left of n tokens: only what is beyond the burst spills.
Left(n) == {m \in 0 .. n : m = n \/ m >= Burst}

BucketInit == level = [k \in Keys |-> Burst + Slack]

Admit(k) == \E m \in Left(level[k]) : m >= 1 /\ level' = [level EXCEPT ![k] = m - 1]

Credit(k) == \E m \in Left(AtMostFull(level[k] + 1)) : level' = [level EXCEPT ![k] = m]

Refill == level' = [k \in Keys |-> AtMostFull(level[k] + Rate)]

BucketNext == Refill \/ \E k \in Keys : Admit(k) \/ Credit(k)

BucketSpec == BucketInit /\ [][BucketNext]_level

=============================================================================
