-------------------------- MODULE RateLimiterProofs --------------------------
(***************************************************************************)
(* Proofs about RateLimiter, for every set of keys and every rate, burst   *)
(* and staleness that RateAssumption allows: its type invariant, and that  *)
(* the lazily refilled, swept map implements TokenBucket.                  *)
(***************************************************************************)
EXTENDS RateLimiter, TLAPS

\* The products the settings and the buckets are compared by, as numbers.
LEMMA Amounts ==
    ASSUME RateAssumption, NEW b \in Buckets, NEW late \in 0 .. MaxWait
    PROVE  /\ Rate \in Nat /\ Burst \in Nat /\ Burst >= 1 /\ MaxWait \in Nat /\ StaleAfter \in Nat
           /\ Rate * MaxWait \in Nat /\ Full \in Nat /\ Full = Burst + Rate * MaxWait
           /\ Rate * late \in Nat /\ Rate * late <= Rate * MaxWait
           /\ b.here \in BOOLEAN /\ b.tokens \in Int /\ b.age \in Nat
           /\ Rate * b.age \in Nat /\ Earned(b) = b.tokens + Rate * b.age /\ Earned(b) \in Nat
           /\ Rate * (b.age - late) = Rate * b.age - Rate * late
<1>1. /\ Rate \in Nat /\ Burst \in Nat /\ Burst >= 1 /\ MaxWait \in Nat /\ StaleAfter \in Nat
  BY DEF RateAssumption
<1>2. b.here \in BOOLEAN /\ b.tokens \in -(Rate * MaxWait) .. Burst /\ b.age \in 0 .. Forgotten
      /\ Earned(b) >= 0
  BY DEF Buckets
<1>3. b.age \in Nat /\ late \in Nat /\ late <= MaxWait
  BY <1>1, <1>2 DEF Forgotten
<1>4. \A x, y \in Nat : x * y \in Nat
  OBVIOUS
<1>5. Rate * MaxWait \in Nat /\ Rate * late \in Nat /\ Rate * b.age \in Nat
  BY <1>1, <1>3, <1>4
<1>6. b.tokens \in Int
  BY <1>1, <1>2, <1>5
<1>7. Earned(b) \in Nat
  BY <1>2, <1>5, <1>6 DEF Earned
<1>8. Rate * late <= Rate * MaxWait
  <2>1. \A r, x, y \in Nat : x <= y => r * x <= r * y
    OBVIOUS
  <2> QED BY <1>1, <1>3, <2>1
<1>9. Rate * (b.age - late) = Rate * b.age - Rate * late
  <2>1. \A r, x, y \in Nat : r * (x - y) = r * x - r * y
    OBVIOUS
  <2> QED BY <1>1, <1>3, <2>1
<1> QED BY <1>1, <1>2, <1>3, <1>5, <1>6, <1>7, <1>8, <1>9 DEF Earned, Full

\* A bucket every sweep could take is worth all it can be: forgetting it gives nothing.
LEMMA StaleIsFull ==
    ASSUME RateAssumption, NEW b \in Buckets, b.age >= StaleAfter + 1
    PROVE  Worth(b) = Full /\ Earned(b) >= Full
<1>1. b.tokens >= -(Rate * MaxWait) /\ b.age \in Nat /\ b.tokens \in Int
  BY Amounts DEF Buckets, RateAssumption
<1>2. /\ Rate \in Nat /\ StaleAfter \in Nat /\ Rate * MaxWait \in Nat /\ Burst \in Nat
      /\ Full = Burst + Rate * MaxWait /\ Rate * b.age \in Nat
      /\ Earned(b) = b.tokens + Rate * b.age
  BY Amounts DEF RateAssumption
<1>3. Rate * b.age >= Rate * StaleAfter /\ Rate * StaleAfter \in Nat
  <2>1. \A r, x, y \in Nat : x >= y => r * x >= r * y /\ r * y \in Nat
    OBVIOUS
  <2> QED BY <1>1, <1>2, <2>1
<1>4. Rate * StaleAfter >= Burst + 2 * (Rate * MaxWait)
  BY DEF RateAssumption
<1>5. Earned(b) >= Full /\ Earned(b) \in Nat /\ Full \in Nat
  <2> DEFINE wait == Rate * MaxWait
             stale == Rate * StaleAfter
             grown == Rate * b.age
  <2>1. wait \in Nat /\ stale \in Nat /\ grown \in Nat /\ grown >= stale
        /\ stale >= Burst + 2 * wait /\ b.tokens >= -wait
    BY <1>1, <1>2, <1>3, <1>4
  <2>2. Full = Burst + wait /\ Earned(b) = b.tokens + grown
    BY <1>2
  <2> HIDE DEF wait, stale, grown
  <2> QED BY <1>1, <1>2, <2>1, <2>2
<1> QED BY <1>5 DEF Worth

LEMMA MissingIsFull ==
    ASSUME RateAssumption
    PROVE  Missing \in Buckets /\ ~Missing.here /\ Worth(Missing) = Full
<1>1. \A x, y \in Nat : x * y \in Nat
  OBVIOUS
<1>2. Rate * MaxWait \in Nat /\ Rate * 0 = 0 /\ Burst \in Nat /\ Forgotten \in Nat
  BY <1>1 DEF RateAssumption, Forgotten
<1>3. ~Missing.here /\ Missing.tokens = 0 /\ Missing.age = 0
      /\ Missing \in [here : BOOLEAN, tokens : {0}, age : {0}]
  BY DEF Missing
<1>4. 0 \in -(Rate * MaxWait) .. Burst /\ 0 \in 0 .. Forgotten
  BY <1>2
<1>5. Missing \in Buckets
  BY <1>2, <1>3, <1>4 DEF Buckets, Earned, Missing
<1> QED BY <1>3, <1>5 DEF Worth

-----------------------------------------------------------------------------
(* What an account of the admitted requests may count on: a bucket gives   *)
(* what it has earned, and one that is not there what it is made with.     *)

\* late never is more than since, the time this map has been in use.
Due(b, since) ==
    IF b.here THEN Earned(b)
    ELSE Burst + Rate * (IF since < MaxWait THEN since ELSE MaxWait)

LEMMA DueIsNat ==
    ASSUME RateAssumption, NEW b \in Buckets, NEW since \in Nat
    PROVE  Due(b, since) \in Nat
<1>1. \A x, y \in Nat : x * y \in Nat
  OBVIOUS
<1>2. (IF since < MaxWait THEN since ELSE MaxWait) \in Nat
  BY DEF RateAssumption
<1>3. Earned(b) \in Nat /\ Rate \in Nat /\ Burst \in Nat
  BY Amounts DEF RateAssumption
<1> QED BY <1>1, <1>2, <1>3 DEF Due

\* One bucket touched by a request.
LEMMA TouchOne ==
    ASSUME RateAssumption, NEW b \in Buckets, NEW late \in 0 .. MaxWait, NEW c,
           NEW ok \in BOOLEAN, ok <=> Tokens(b, late) >= 1,
           c = [here |-> TRUE, age |-> late,
                tokens |-> IF ok THEN Tokens(b, late) - 1 ELSE Tokens(b, late)]
    PROVE  /\ c \in Buckets
           /\ ok => \E m \in Metered!Left(Worth(b)) : m >= 1 /\ Worth(c) = m - 1
           /\ ~ok => Worth(c) = Worth(b)
           /\ \A since \in Nat : late <= since =>
                Due(c, since) <= Due(b, since) - (IF ok THEN 1 ELSE 0)
<1>1. /\ Rate \in Nat /\ Burst \in Nat /\ Burst >= 1 /\ MaxWait \in Nat /\ StaleAfter \in Nat
      /\ Rate * MaxWait \in Nat /\ Full \in Nat /\ Full = Burst + Rate * MaxWait
      /\ Rate * late \in Nat /\ Rate * late <= Rate * MaxWait
      /\ b.here \in BOOLEAN /\ b.tokens \in Int /\ b.age \in Nat
      /\ Rate * b.age \in Nat /\ Earned(b) = b.tokens + Rate * b.age /\ Earned(b) \in Nat
      /\ Rate * (b.age - late) = Rate * b.age - Rate * late
  BY Amounts
<1> DEFINE x == b.tokens
           grown == Rate * b.age
           back == Rate * late
           wait == Rate * MaxWait
           t == Tokens(b, late)
           u == Earned(b)
           left == IF ok THEN t - 1 ELSE t
<1>2. b.tokens + Rate * (b.age - late) = u - back /\ u \in Nat /\ back \in Nat /\ wait \in Nat
      /\ back <= wait /\ Full = Burst + wait
  BY <1>1
<1>3. t = IF b.here THEN (IF u - back > Burst THEN Burst ELSE u - back) ELSE Burst
  BY <1>2 DEF Tokens, AtMostBurst
<1>4. c.here /\ c.age = late /\ c.tokens = left
  OBVIOUS
<1>5. t \in Int /\ left \in Int /\ (ok <=> t >= 1) /\ t <= Burst
  <2>1. ok <=> t >= 1
    OBVIOUS
  <2> HIDE DEF u, back, wait
  <2>2. t \in Int /\ t <= Burst
    BY <1>1, <1>2, <1>3
  <2> HIDE DEF t
  <2> QED BY <2>1, <2>2
<1>6. Earned(c) = left + back
  BY <1>4 DEF Earned
<1>7. -back <= left /\ left <= Burst /\ left + back >= 0
  <2> HIDE DEF u, back, wait, t
  <2> QED BY <1>1, <1>2, <1>3, <1>5
<1>8. c \in Buckets
  <2>1. left \in -(Rate * MaxWait) .. Burst
    <3> HIDE DEF left, back
    <3> QED BY <1>1, <1>2, <1>5, <1>7
  <2>2. late \in 0 .. Forgotten
    BY <1>1 DEF Forgotten
  <2>3. Earned(c) >= 0
    BY <1>6, <1>7
  <2>4. c = [here |-> TRUE, age |-> late, tokens |-> left]
    OBVIOUS
  <2> HIDE DEF left
  <2>5. c \in [here : BOOLEAN, tokens : -(Rate * MaxWait) .. Burst, age : 0 .. Forgotten]
    BY <2>1, <2>2, <2>4
  <2> QED BY <2>3, <2>5 DEF Buckets
<1>9. Worth(c) = IF left + back < Full THEN left + back ELSE Full
  BY <1>4, <1>6 DEF Worth
<1>10. Worth(b) = IF b.here /\ u < Full THEN u ELSE Full
  BY DEF Worth
<1>11. ASSUME ok PROVE \E m \in Metered!Left(Worth(b)) : m >= 1 /\ Worth(c) = m - 1
  <2> DEFINE m == t + back
  <2>1. /\ m \in Nat /\ m >= 1 /\ m <= Worth(b) /\ Worth(b) \in Nat
        /\ m = Worth(b) \/ m >= Burst
        /\ Worth(c) = m - 1
    <3> HIDE DEF u, back, wait, t
    <3> QED BY <1>1, <1>2, <1>3, <1>5, <1>9, <1>10, <1>11
  <2> HIDE DEF m
  <2>2. m \in Metered!Left(Worth(b))
    BY <2>1 DEF Metered!Left
  <2> QED BY <2>1, <2>2
<1>12. ASSUME ~ok PROVE Worth(c) = Worth(b)
  <2> HIDE DEF u, back, wait, t
  <2> QED BY <1>1, <1>2, <1>3, <1>5, <1>9, <1>10, <1>12
<1>13. ASSUME NEW since \in Nat, late <= since
       PROVE  Due(c, since) <= Due(b, since) - (IF ok THEN 1 ELSE 0)
  <2> DEFINE used == IF since < MaxWait THEN since ELSE MaxWait
  <2>1. used \in Nat /\ late <= used
    BY <1>1, <1>13
  <2>2. Rate * used \in Nat /\ back <= Rate * used
    <3>1. \A r, y, z \in Nat : y <= z => r * y <= r * z /\ r * z \in Nat
      OBVIOUS
    <3> HIDE DEF used
    <3> QED BY <1>1, <2>1, <3>1
  <2>3. Due(c, since) = left + back
    BY <1>4, <1>6 DEF Due
  <2>4. Due(b, since) = IF b.here THEN u ELSE Burst + Rate * used
    BY DEF Due
  <2> DEFINE grace == Rate * used
  <2> HIDE DEF used, u, back, wait, t, grace
  <2>5. grace \in Nat /\ back <= grace /\ Due(b, since) = IF b.here THEN u ELSE Burst + grace
    BY <2>2, <2>4 DEF grace
  <2> QED BY <1>1, <1>2, <1>3, <1>5, <2>3, <2>5
<1> QED BY <1>8, <1>11, <1>12, <1>13

\* One bucket that is there, credited with a token.
LEMMA CreditOne ==
    ASSUME RateAssumption, NEW b \in Buckets, b.here, NEW c,
           c = [b EXCEPT !.tokens = AtMostBurst(@ + 1)]
    PROVE  /\ c \in Buckets
           /\ Worth(c) \in Metered!Left(Metered!AtMostFull(Worth(b) + 1))
           /\ \A since \in Nat : Due(c, since) <= Due(b, since) + 1
<1>1. /\ Burst \in Nat /\ MaxWait \in Nat /\ Rate * MaxWait \in Nat
      /\ Full \in Nat /\ Full = Burst + Rate * MaxWait
      /\ b.tokens \in Int /\ b.age \in Nat
      /\ Rate * b.age \in Nat /\ Earned(b) = b.tokens + Rate * b.age /\ Earned(b) \in Nat
  BY Amounts DEF RateAssumption
<1>2. b \in [here : BOOLEAN, tokens : -(Rate * MaxWait) .. Burst, age : 0 .. Forgotten]
  BY DEF Buckets
<1> DEFINE n == AtMostBurst(b.tokens + 1)
           grown == Rate * b.age
           wait == Rate * MaxWait
<1>3. c.here /\ c.age = b.age /\ c.tokens = n /\ c = [b EXCEPT !.tokens = n]
  BY <1>2
<1>4. n \in Int /\ b.tokens <= n /\ n <= b.tokens + 1 /\ n <= Burst
      /\ (n = b.tokens + 1 \/ n = Burst)
  BY <1>1, <1>2 DEF AtMostBurst
<1> HIDE DEF n
<1>5. Earned(c) = n + grown /\ grown \in Nat /\ wait \in Nat
  BY <1>1, <1>3 DEF Earned
<1>6. c \in Buckets
  <2>1. n \in -(Rate * MaxWait) .. Burst
    <3>1. b.tokens >= -wait
      BY <1>2
    <3> HIDE DEF wait
    <3>2. n \in -wait .. Burst
      BY <1>1, <1>4, <1>5, <3>1
    <3> QED BY <3>2 DEF wait
  <2>2. Earned(c) >= 0
    BY <1>1, <1>4, <1>5
  <2>3. c \in [here : BOOLEAN, tokens : -(Rate * MaxWait) .. Burst, age : 0 .. Forgotten]
    BY <1>2, <1>3, <2>1
  <2> QED BY <2>2, <2>3 DEF Buckets
<1>7. /\ Worth(c) = (IF n + grown < Full THEN n + grown ELSE Full)
      /\ Worth(b) = (IF b.tokens + grown < Full THEN b.tokens + grown ELSE Full)
  BY <1>1, <1>3, <1>5 DEF Worth
<1>8. Worth(c) \in Metered!Left(Metered!AtMostFull(Worth(b) + 1))
  <2> DEFINE up == IF Worth(b) + 1 > Full THEN Full ELSE Worth(b) + 1
  <2>1. Metered!AtMostFull(Worth(b) + 1) = up
    BY <1>1 DEF Metered!AtMostFull
  <2>2. up \in Nat /\ Worth(c) \in Nat /\ Worth(c) <= up /\ (Worth(c) = up \/ Worth(c) >= Burst)
    <3>1. b.tokens + grown \in Nat
      BY <1>1
    <3> HIDE DEF grown, wait
    <3> QED BY <1>1, <1>4, <1>5, <1>7, <3>1
  <2> HIDE DEF up
  <2> QED BY <2>1, <2>2 DEF Metered!Left
<1>9. \A since \in Nat : Due(c, since) = n + grown /\ Due(b, since) = b.tokens + grown
  BY <1>1, <1>3, <1>5 DEF Due
<1> QED BY <1>1, <1>4, <1>5, <1>6, <1>8, <1>9

\* One bucket as a tick leaves it, whether or not it still counts its age.
LEMMA TickOne ==
    ASSUME RateAssumption, NEW b \in Buckets, NEW c,
           c = IF b.here /\ b.age < Forgotten THEN [b EXCEPT !.age = @ + 1] ELSE b
    PROVE  /\ c \in Buckets
           /\ Worth(c) = Metered!AtMostFull(Worth(b) + Rate)
           /\ \A since \in Nat : Due(c, since + 1) <= Due(b, since) + Rate
<1>1. /\ Rate \in Nat /\ Burst \in Nat /\ MaxWait \in Nat /\ StaleAfter \in Nat
      /\ Rate * MaxWait \in Nat /\ Full \in Nat /\ Full = Burst + Rate * MaxWait
      /\ b.here \in BOOLEAN /\ b.tokens \in Int /\ b.age \in Nat
      /\ Rate * b.age \in Nat /\ Earned(b) = b.tokens + Rate * b.age /\ Earned(b) \in Nat
  BY Amounts DEF RateAssumption
<1>2. b \in [here : BOOLEAN, tokens : -(Rate * MaxWait) .. Burst, age : 0 .. Forgotten]
  BY DEF Buckets
<1>3. \A n \in Nat : Metered!AtMostFull(n) = IF n > Full THEN Full ELSE n
  BY <1>1 DEF Metered!AtMostFull
<1>4. CASE b.here /\ b.age < Forgotten
  <2> DEFINE grown == Rate * b.age
  <2>1. c.here /\ c.tokens = b.tokens /\ c.age = b.age + 1 /\ c = [b EXCEPT !.age = b.age + 1]
    BY <1>2, <1>4
  <2>2. Rate * (b.age + 1) = grown + Rate
    <3>1. \A x, y \in Nat : x * (y + 1) = x * y + x
      OBVIOUS
    <3> QED BY <1>1, <3>1
  <2>3. Earned(c) = Earned(b) + Rate /\ Earned(c) \in Nat
    BY <1>1, <2>1, <2>2 DEF Earned
  <2>4. b.age + 1 \in 0 .. Forgotten
    BY <1>1, <1>4 DEF Forgotten
  <2>5. c \in Buckets
    <3>1. c \in [here : BOOLEAN, tokens : -(Rate * MaxWait) .. Burst, age : 0 .. Forgotten]
      BY <1>2, <2>1, <2>4
    <3> QED BY <2>3, <3>1 DEF Buckets
  <2>6. /\ Worth(c) = (IF Earned(b) + Rate < Full THEN Earned(b) + Rate ELSE Full)
        /\ Worth(b) = (IF Earned(b) < Full THEN Earned(b) ELSE Full)
    BY <1>4, <2>1, <2>3 DEF Worth
  <2>7. Worth(c) = Metered!AtMostFull(Worth(b) + Rate)
    <3>1. Worth(b) \in Nat /\ Worth(b) + Rate \in Nat
      BY <1>1, <2>6
    <3>2. Metered!AtMostFull(Worth(b) + Rate)
            = IF Worth(b) + Rate > Full THEN Full ELSE Worth(b) + Rate
      BY <1>3, <3>1
    <3> QED BY <1>1, <2>6, <3>2
  <2>8. \A since \in Nat : Due(c, since + 1) = Earned(b) + Rate /\ Due(b, since) = Earned(b)
    BY <1>4, <2>1, <2>3 DEF Due
  <2> QED BY <1>1, <2>5, <2>7, <2>8
<1>5. CASE ~(b.here /\ b.age < Forgotten)
  <2>1. c = b
    BY <1>5
  <2>2. Worth(b) = Full
    <3>1. CASE ~b.here
      BY <3>1 DEF Worth
    <3>2. CASE b.here
      <4>1. b.age >= StaleAfter + 1
        BY <1>1, <1>5, <3>2 DEF Forgotten
      <4> QED BY <4>1, StaleIsFull
    <3> QED BY <3>1, <3>2
  <2>3. Metered!AtMostFull(Full + Rate) = Full
    BY <1>1, <1>3
  <2>4. ASSUME NEW since \in Nat
        PROVE  Due(b, since + 1) <= Due(b, since) + Rate
    <3>1. CASE b.here
      BY <1>1, <3>1 DEF Due
    <3>2. CASE ~b.here
      <4> DEFINE x == IF since < MaxWait THEN since ELSE MaxWait
                 y == IF since + 1 < MaxWait THEN since + 1 ELSE MaxWait
      <4>1. x \in Nat /\ y \in Nat /\ (y = x \/ y = x + 1)
        BY <1>1
      <4>2. Due(b, since) = Burst + Rate * x /\ Due(b, since + 1) = Burst + Rate * y
        BY <3>2 DEF Due
      <4> HIDE DEF x, y
      <4>3. \A p, q \in Nat : p * (q + 1) = p * q + p /\ p * q \in Nat
        OBVIOUS
      <4>4. Rate * (x + 1) = Rate * x + Rate /\ Rate * x \in Nat
        BY <1>1, <4>1, <4>3
      <4>5. Rate * y = Rate * x \/ Rate * y = Rate * x + Rate
        BY <4>1, <4>4
      <4> QED BY <1>1, <4>2, <4>4, <4>5
    <3> QED BY <3>1, <3>2
  <2> QED BY <2>1, <2>2, <2>3, <2>4
<1> QED BY <1>4, <1>5

-----------------------------------------------------------------------------
(* One step of the limiter: the type of the map, and what the step is to   *)
(* the bucket the limit is described by.                                   *)

\* What TokenBucket sees of the map.
Level == [k \in Keys |-> Worth(bucket[k])]

\* A level that is the old one but at one key.
LEMMA LevelStep ==
    ASSUME NEW k \in Keys, LimiterTypeOK, LimiterTypeOK',
           \A l \in Keys \ {k} : bucket'[l] = bucket[l]
    PROVE  Level' = [Level EXCEPT ![k] = Worth(bucket'[k])] /\ Level[k] = Worth(bucket[k])
  BY DEF Level

\* A touched bucket is refilled up to the instant its request read, and pays for the
\* request if it can.
LEMMA AllowStep ==
    ASSUME RateAssumption, LimiterTypeOK, NEW k \in Keys, NEW late \in 0 .. MaxWait,
           Allow(k, late)
    PROVE  /\ LimiterTypeOK'
           /\ Allowed(k, late) => Metered!Admit(k)
           /\ ~Allowed(k, late) => Level' = Level
           /\ \A l \in Keys, since \in Nat : late <= since =>
                Due(bucket'[l], since)
                  <= Due(bucket[l], since) - (IF l = k /\ Allowed(k, late) THEN 1 ELSE 0)
<1> DEFINE b == bucket[k]
<1>1. b \in Buckets
  BY DEF LimiterTypeOK
<1>2. PICK ok \in BOOLEAN : ok <=> Tokens(b, late) >= 1
  <2>1. CASE Tokens(b, late) >= 1
    <3>1. TRUE <=> Tokens(b, late) >= 1
      BY <2>1
    <3> QED BY <3>1
  <2>2. CASE ~(Tokens(b, late) >= 1)
    <3>1. FALSE <=> Tokens(b, late) >= 1
      BY <2>2
    <3> QED BY <3>1
  <2> QED BY <2>1, <2>2
<1>3. ok <=> Allowed(k, late)
  BY <1>2 DEF Allowed
<1>4. PICK c : c = [here |-> TRUE, age |-> late,
                    tokens |-> IF ok THEN Tokens(b, late) - 1 ELSE Tokens(b, late)]
  OBVIOUS
<1>5. bucket' = [bucket EXCEPT ![k] = c]
  BY <1>3, <1>4 DEF Allow
<1>6. /\ c \in Buckets
      /\ ok => \E m \in Metered!Left(Worth(b)) : m >= 1 /\ Worth(c) = m - 1
      /\ ~ok => Worth(c) = Worth(b)
      /\ \A since \in Nat : late <= since =>
           Due(c, since) <= Due(b, since) - (IF ok THEN 1 ELSE 0)
  BY <1>1, <1>2, <1>4, TouchOne
<1>7. LimiterTypeOK' /\ bucket'[k] = c /\ \A l \in Keys \ {k} : bucket'[l] = bucket[l]
  BY <1>5, <1>6 DEF LimiterTypeOK
<1>8. Level' = [Level EXCEPT ![k] = Worth(c)] /\ Level[k] = Worth(b)
  BY <1>7, LevelStep
<1>9. ok => Metered!Admit(k)
  <2>1. ASSUME ok PROVE \E m \in Metered!Left(Level[k]) :
                          m >= 1 /\ Level' = [Level EXCEPT ![k] = m - 1]
    BY <1>6, <1>8, <2>1
  <2> QED BY <2>1 DEF Metered!Admit, Level
<1>10. ~ok => Level' = Level
  BY <1>6, <1>8 DEF Level
<1>11. ASSUME NEW l \in Keys, NEW since \in Nat, late <= since
       PROVE  Due(bucket'[l], since)
                <= Due(bucket[l], since) - (IF l = k /\ ok THEN 1 ELSE 0)
  <2>1. CASE l = k
    BY <1>6, <1>7, <1>11, <2>1
  <2>2. CASE l # k
    <3>1. bucket'[l] = bucket[l] /\ bucket[l] \in Buckets
      BY <1>7, <2>2 DEF LimiterTypeOK
    <3>2. Due(bucket[l], since) \in Nat
      BY <3>1, DueIsNat
    <3> QED BY <2>2, <3>1, <3>2
  <2> QED BY <2>1, <2>2
<1> QED BY <1>3, <1>7, <1>9, <1>10, <1>11

\* A refund is a credit, or nothing when the bucket was swept: it is full then.
LEMMA RefundStep ==
    ASSUME RateAssumption, LimiterTypeOK, NEW k \in Keys, Refund(k)
    PROVE  /\ LimiterTypeOK' /\ Metered!Credit(k)
           /\ \A l \in Keys, since \in Nat :
                Due(bucket'[l], since) <= Due(bucket[l], since) + (IF l = k THEN 1 ELSE 0)
<1> DEFINE b == bucket[k]
<1>1. \A l \in Keys : bucket[l] \in Buckets
  BY DEF LimiterTypeOK
<1>2. \A l \in Keys, since \in Nat : Due(bucket[l], since) \in Nat
  BY <1>1, DueIsNat
<1>3. CASE b.here
  <2>1. PICK c : c = [b EXCEPT !.tokens = AtMostBurst(@ + 1)]
    OBVIOUS
  <2>2. bucket' = [bucket EXCEPT ![k] = c]
    BY <1>3, <2>1 DEF Refund, LimiterTypeOK
  <2>3. /\ c \in Buckets
        /\ Worth(c) \in Metered!Left(Metered!AtMostFull(Worth(b) + 1))
        /\ \A since \in Nat : Due(c, since) <= Due(b, since) + 1
    BY <1>1, <1>3, <2>1, CreditOne
  <2>4. LimiterTypeOK' /\ bucket'[k] = c /\ \A l \in Keys \ {k} : bucket'[l] = bucket[l]
    BY <2>2, <2>3 DEF LimiterTypeOK
  <2>5. Level' = [Level EXCEPT ![k] = Worth(c)] /\ Level[k] = Worth(b)
    BY <2>4, LevelStep
  <2>6. \E m \in Metered!Left(Metered!AtMostFull(Level[k] + 1)) :
           Level' = [Level EXCEPT ![k] = m]
    BY <2>3, <2>5
  <2>7. ASSUME NEW l \in Keys, NEW since \in Nat
        PROVE  Due(bucket'[l], since) <= Due(bucket[l], since) + (IF l = k THEN 1 ELSE 0)
    BY <1>2, <2>3, <2>4
  <2> QED BY <2>4, <2>6, <2>7 DEF Metered!Credit, Level
<1>4. CASE ~b.here
  <2>1. bucket' = bucket
    BY <1>4 DEF Refund, LimiterTypeOK
  <2>2. Level[k] = Full /\ Full \in Nat /\ Full = Burst + Rate * MaxWait
    BY <1>1, <1>4, Amounts DEF Level, Worth, RateAssumption
  <2>3. Metered!AtMostFull(Level[k] + 1) = Full /\ Full \in Metered!Left(Full)
    BY <2>2 DEF Metered!AtMostFull, Metered!Left
  <2>4. Level' = [Level EXCEPT ![k] = Full]
    BY <2>1, <2>2 DEF Level
  <2> QED BY <1>2, <2>1, <2>3, <2>4 DEF Metered!Credit, Level, LimiterTypeOK
<1> QED BY <1>3, <1>4

\* Forgetting the idle buckets changes no level, and nobody is owed more for it.
LEMMA SweepStep ==
    ASSUME RateAssumption, LimiterTypeOK, NEW late \in 0 .. MaxWait, Sweep(late)
    PROVE  /\ LimiterTypeOK' /\ Level' = Level
           /\ \A k \in Keys, since \in Nat : Due(bucket'[k], since) <= Due(bucket[k], since)
<1>1. \A k \in Keys : bucket'[k] = IF bucket[k].age - late > StaleAfter THEN Missing
                                                                     ELSE bucket[k]
  BY DEF Sweep
<1>2. LimiterTypeOK'
  BY MissingIsFull DEF Sweep, LimiterTypeOK
<1>3. ASSUME NEW k \in Keys
      PROVE  /\ Worth(bucket'[k]) = Worth(bucket[k])
             /\ \A since \in Nat : Due(bucket'[k], since) <= Due(bucket[k], since)
  <2>1. bucket[k] \in Buckets
    BY DEF LimiterTypeOK
  <2>2. \A since \in Nat : Due(bucket[k], since) \in Nat
    BY <2>1, DueIsNat
  <2>3. CASE bucket[k].age - late > StaleAfter
    <3>1. bucket[k].age >= StaleAfter + 1
      BY <2>1, <2>3, Amounts DEF RateAssumption
    <3>2. Worth(bucket[k]) = Full /\ Earned(bucket[k]) >= Full
      BY <2>1, <3>1, StaleIsFull
    <3>3. bucket'[k] = Missing
      BY <1>1, <2>3
    <3>4. ASSUME NEW since \in Nat
          PROVE  Due(Missing, since) <= Due(bucket[k], since)
      <4> DEFINE x == IF since < MaxWait THEN since ELSE MaxWait
      <4>1. x \in Nat /\ x <= MaxWait
        BY DEF RateAssumption
      <4>2. Due(Missing, since) = Burst + Rate * x
        BY MissingIsFull DEF Due
      <4> HIDE DEF x
      <4>3. \A p, q, r \in Nat : q <= r => p * q <= p * r /\ p * q \in Nat /\ p * r \in Nat
        OBVIOUS
      <4>4. Rate * x <= Rate * MaxWait /\ Rate * x \in Nat /\ Rate * MaxWait \in Nat
            /\ Burst \in Nat
        BY <4>1, <4>3 DEF RateAssumption
      <4>5. Due(Missing, since) <= Full /\ Due(Missing, since) \in Nat /\ Full \in Nat
        BY <4>2, <4>4 DEF Full
      <4>6. CASE bucket[k].here
        <5>1. Earned(bucket[k]) \in Nat /\ Due(bucket[k], since) = Earned(bucket[k])
          BY <2>1, <4>6, Amounts DEF Due, RateAssumption
        <5> QED BY <3>2, <4>5, <5>1
      <4>7. CASE ~bucket[k].here
        BY <4>2, <4>4, <4>7, <4>5 DEF Due, x
      <4> QED BY <4>6, <4>7
    <3> QED BY <3>2, <3>3, <3>4, MissingIsFull
  <2>4. CASE ~(bucket[k].age - late > StaleAfter)
    BY <1>1, <2>2, <2>4
  <2> QED BY <2>3, <2>4
<1> QED BY <1>2, <1>3 DEF Level

\* A tick refills every bucket, the forgotten ones included.
LEMMA TickStep ==
    ASSUME RateAssumption, LimiterTypeOK, LimiterTick
    PROVE  /\ LimiterTypeOK' /\ Metered!Refill
           /\ \A k \in Keys, since \in Nat :
                Due(bucket'[k], since + 1) <= Due(bucket[k], since) + Rate
<1>1. \A k \in Keys : bucket'[k] = IF bucket[k].here /\ bucket[k].age < Forgotten
                                   THEN [bucket[k] EXCEPT !.age = @ + 1] ELSE bucket[k]
  BY DEF LimiterTick
<1>2. \A k \in Keys : bucket[k] \in Buckets
  BY DEF LimiterTypeOK
<1>3. \A k \in Keys :
        /\ bucket'[k] \in Buckets
        /\ Worth(bucket'[k]) = Metered!AtMostFull(Worth(bucket[k]) + Rate)
        /\ \A since \in Nat : Due(bucket'[k], since + 1) <= Due(bucket[k], since) + Rate
  BY <1>1, <1>2, TickOne
<1>4. LimiterTypeOK'
  BY <1>3 DEF LimiterTypeOK, LimiterTick
<1>5. Level' = [k \in Keys |-> Metered!AtMostFull(Level[k] + Rate)]
  BY <1>3 DEF Level
<1> QED BY <1>3, <1>4, <1>5 DEF Metered!Refill, Level

-----------------------------------------------------------------------------
\* The map holds well-formed buckets, none above its burst nor deeper in debt than it
\* has earned since (ratelimit.go allow, refund and sweepLoop), for every setting
\* RateAssumption allows.
THEOREM LimiterTypeCorrect == RateAssumption => (LimiterSpec => []LimiterTypeOK)
<1> SUFFICES ASSUME RateAssumption PROVE LimiterSpec => []LimiterTypeOK
  OBVIOUS
<1>1. LimiterInit => LimiterTypeOK
  BY MissingIsFull DEF LimiterInit, LimiterTypeOK
<1>2. LimiterTypeOK /\ [LimiterNext]_bucket => LimiterTypeOK'
  <2>1. CASE UNCHANGED bucket
    BY <2>1 DEF LimiterTypeOK
  <2>2. ASSUME LimiterTypeOK, LimiterNext PROVE LimiterTypeOK'
    BY <2>2, AllowStep, RefundStep, SweepStep, TickStep DEF LimiterNext
  <2> QED BY <2>1, <2>2
<1> QED BY <1>1, <1>2, PTL DEF LimiterSpec

\* The map with its lazy refills, its late clocks and its sweep implements the bucket
\* a rate limit is described by, with what is refilled in the longest wait for slack:
\* every step of the one is a step of the other, or none (ratelimit.go allow, refund
\* and sweepLoop).
THEOREM LimiterIsABucket == RateAssumption => (LimiterSpec => MeteredSpec)
<1> SUFFICES ASSUME RateAssumption PROVE LimiterSpec => MeteredSpec
  OBVIOUS
<1>1. LimiterInit => Metered!BucketInit
  BY MissingIsFull DEF LimiterInit, Metered!BucketInit, Full
<1>2. LimiterTypeOK /\ [LimiterNext]_bucket => [Metered!BucketNext]_Level
  <2> SUFFICES ASSUME LimiterTypeOK, [LimiterNext]_bucket PROVE [Metered!BucketNext]_Level
    OBVIOUS
  <2>1. CASE UNCHANGED bucket
    BY <2>1 DEF Level
  <2>2. CASE \E late \in 0 .. MaxWait : \E k \in Keys : Allow(k, late)
    BY <2>2, AllowStep DEF Metered!BucketNext
  <2>3. CASE \E k \in Keys : Refund(k)
    BY <2>3, RefundStep DEF Metered!BucketNext
  <2>4. CASE \E late \in 0 .. MaxWait : Sweep(late)
    BY <2>4, SweepStep
  <2>5. CASE LimiterTick
    BY <2>5, TickStep DEF Metered!BucketNext
  <2> QED BY <2>1, <2>2, <2>3, <2>4, <2>5 DEF LimiterNext
<1>3. LimiterTypeOK /\ [LimiterNext]_bucket => [Metered!BucketNext]_[k \in Keys |-> Worth(bucket[k])]
  BY <1>2 DEF Level
<1> QED BY <1>1, <1>3, LimiterTypeCorrect, PTL DEF LimiterSpec, MeteredSpec, Metered!BucketSpec
=============================================================================
