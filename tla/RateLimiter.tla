----------------------------- MODULE RateLimiter -----------------------------
(***************************************************************************)
(* The token buckets of server/ratelimit.go: one map of buckets under one  *)
(* mutex, each refilled only when a request touches it, and a background   *)
(* sweep that forgets the idle ones.  Time is counted in ticks; a bucket   *)
(* carries its age, the ticks since the instant its last touch read the    *)
(* clock (last and lastSeen are always written together), which stops      *)
(* counting once it is past every bound that reads it.                     *)
(*                                                                         *)
(* allow and sweepLoop read the clock before they take the mutex, so the   *)
(* instant they act on may be past by the time they hold it, and older     *)
(* than one the bucket was already touched at: the time elapsed is then    *)
(* negative, takes tokens out and sets the bucket's clock back.            *)
(***************************************************************************)
EXTENDS Integers

CONSTANTS
    Keys,           \* client addresses, or project credentials
    Rate,           \* tokens added in a tick
    Burst,          \* what a bucket holds
    StaleAfter,     \* rateLimitStaleAfter, in ticks
    MaxWait         \* bound: the longest wait for the mutex, in ticks

\* What the settings must satisfy for the bucket to keep its promise: the
\* defaults refill a bucket in 2 s, call it stale after 10 minutes and hold the
\* mutex for microseconds.
RateAssumption ==
    /\ Rate \in Nat \ {0}
    /\ Burst \in Nat \ {0}
    /\ StaleAfter \in Nat
    /\ MaxWait \in Nat
    /\ Rate * StaleAfter >= Burst + 2 * (Rate * MaxWait)

VARIABLE bucket     \* rateLimiter.buckets

\* The age at which every clock finds a bucket stale.
Forgotten == StaleAfter + MaxWait + 1

\* What a bucket comes to at this instant, before it is capped.
Earned(b) == b.tokens + Rate * b.age

\* A late clock may leave a bucket in debt, never by more than it has earned since.
Buckets == {b \in [here : BOOLEAN, tokens : -(Rate * MaxWait) .. Burst, age : 0 .. Forgotten] :
              Earned(b) >= 0}

Missing == [here |-> FALSE, tokens |-> 0, age |-> 0]

LimiterTypeOK == bucket \in [Keys -> Buckets]

LimiterInit == bucket = [k \in Keys |-> Missing]

AtMostBurst(n) == IF n > Burst THEN Burst ELSE n

\* What a bucket holds for a request that read the clock late ticks ago: a missing
\* one is made full on its first use.
Tokens(b, late) == IF b.here THEN AtMostBurst(b.tokens + Rate * (b.age - late)) ELSE Burst

\* allow: the decision and the touched bucket, under the mutex.
Allowed(k, late) == Tokens(bucket[k], late) >= 1

Allow(k, late) ==
    bucket' = [bucket EXCEPT ![k] = [here |-> TRUE, age |-> late, tokens |->
                 IF Allowed(k, late) THEN Tokens(bucket[k], late) - 1
                                     ELSE Tokens(bucket[k], late)]]

\* refund: one token back, never above the burst, and never a bucket of its own.
Refund(k) ==
    IF bucket[k].here THEN bucket' = [bucket EXCEPT ![k].tokens = AtMostBurst(@ + 1)]
                      ELSE UNCHANGED bucket

\* Mutant: the sweep takes a bucket that was touched in this very tick.
SweepAny(late) ==
    /\ \E k \in Keys : bucket[k].here
    /\ bucket' = [k \in Keys |-> Missing]

\* sweepLoop: every bucket idle for longer than StaleAfter is forgotten.
Sweep(late) ==
    /\ \E k \in Keys : bucket[k].here /\ bucket[k].age - late > StaleAfter
    /\ bucket' = [k \in Keys |-> IF bucket[k].age - late > StaleAfter THEN Missing
                                                                    ELSE bucket[k]]

LimiterTick ==
    bucket' = [k \in Keys |-> IF bucket[k].here /\ bucket[k].age < Forgotten
                              THEN [bucket[k] EXCEPT !.age = @ + 1] ELSE bucket[k]]

LimiterNext ==
    \/ LimiterTick
    \/ \E late \in 0 .. MaxWait : Sweep(late) \/ \E k \in Keys : Allow(k, late)
    \/ \E k \in Keys : Refund(k)

LimiterSpec == LimiterInit /\ [][LimiterNext]_bucket

-----------------------------------------------------------------------------
\* What a bucket is good for: with the refill a late clock may still claim, it can
\* give more than a burst, by what is refilled in the longest wait.
Full == Burst + Rate * MaxWait

Worth(b) == IF b.here /\ Earned(b) < Full THEN Earned(b) ELSE Full

Metered == INSTANCE TokenBucket WITH
               level <- [k \in Keys |-> Worth(bucket[k])], Slack <- Rate * MaxWait

\* The map with its lazy refills, its late clocks and its sweep is the bucket the
\* limit is described by: forgetting a bucket gives nobody a token, a client that is
\* being throttled stays throttled, and a clock that is late may give a client what
\* is refilled in one wait beyond its burst and no more (server/ratelimit.go:111,
\* 151 and 165).
MeteredSpec == Metered!BucketSpec

=============================================================================
