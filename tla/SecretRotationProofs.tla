------------------------ MODULE SecretRotationProofs ------------------------
(***************************************************************************)
(* Proofs about SecretRotation, for any connections, credentials, API      *)
(* processes and rotation runs.  The invariant is a conjunction of what    *)
(* the row locks give (HeldRows), what a process seals under (SealedUnder),*)
(* how the three keyrings follow one another (KeyringOrder), and what the  *)
(* procedure's discipline of restarts adds (OldKeyUnneeded, Outstanding).  *)
(***************************************************************************)
EXTENDS SecretRotation, TLAPS

\* A row read under its lock is still what was read, and one run holds the lock.
HeldRows ==
    /\ \A r \in Rotators : rot[r].pc = "locked" => row[rot[r].conn] = rot[r].read
    /\ \A r, q \in Rotators :
          rot[r].pc = "locked" /\ rot[q].pc = "locked" /\ rot[r].conn = rot[q].conn => r = q

\* A sealed credential names the key its process seals under: a restart drops it.
SealedUnder == \A s \in Servers : write[s] # NoWrite => write[s].version = ring[s].current

\* The keyrings come one after the other, and nobody holds one of the future.
KeyringOrder ==
    /\ env = FirstRing => /\ \A s \in Servers : ring[s] = FirstRing
                          /\ \A r \in Rotators : rot[r].ring = FirstRing
                          /\ \A c \in Conns : row[c].version # 2
                          /\ 1 \notin safe
    /\ env = BothKeys => /\ \A s \in Servers : ring[s] # LastRing
                         /\ \A r \in Rotators : rot[r].ring # LastRing

\* A run started before the second key existed found nothing to do.
FirstRunsIdle ==
    \A r \in Rotators : rot[r].ring = FirstRing => rot[r].todo = {} /\ rot[r].pc # "locked"

\* Once the old key is safe to remove, no row has it and no process seals under it.
OldKeyUnneeded ==
    ~lax /\ (1 \in safe \/ env = LastRing) =>
        /\ \A s \in Servers : ring[s].current = 2
        /\ \A c \in Conns : row[c].version # 1

\* A run on the configured keyring: everybody was restarted before it began, and each row
\* still to be rotated is in its list or in its hands, unless it reports a failure.
Outstanding ==
    ~lax => \A r \in Rotators : rot[r].pc # "idle" /\ rot[r].ring = env =>
        /\ AllRestarted
        /\ ~rot[r].failed => \A c \in Conns :
              \/ row[c] = NoRow
              \/ row[c].version = env.current
              \/ c \in rot[r].todo
              \/ rot[r].pc = "locked" /\ rot[r].conn = c

RotationInv ==
    /\ RotationTypeOK
    /\ CredentialSurvives
    /\ HeldRows
    /\ SealedUnder
    /\ KeyringOrder
    /\ FirstRunsIdle
    /\ OldKeyUnneeded
    /\ Outstanding

-----------------------------------------------------------------------------
\* The three keyrings of the procedure, named.
LEMMA RingFacts ==
    /\ FirstRing = [held |-> {1}, current |-> 1]
    /\ BothKeys = [held |-> {1, 2}, current |-> 2]
    /\ LastRing = [held |-> {2}, current |-> 2]
    /\ Rings = {FirstRing, BothKeys, LastRing}
    /\ FirstRing # BothKeys /\ FirstRing # LastRing /\ BothKeys # LastRing
<1> DEFINE A == [held |-> {1}, current |-> 1]
           B == [held |-> {1, 2}, current |-> 2]
           C == [held |-> {2}, current |-> 2]
<1>1. Rings = {A, B, C}
  BY DEF Rings
<1>2. /\ A.current = 1 /\ B.current = 2 /\ C.current = 2
      /\ A.held = {1} /\ B.held = {1, 2} /\ C.held = {2}
  OBVIOUS
<1>3. {1} # {1, 2} /\ {1} # {2} /\ {2} # {1, 2}
  OBVIOUS
<1> HIDE DEF A, B, C
<1>4. A # B /\ A # C /\ B # C
  BY <1>2, <1>3
<1>5. FirstRing = A
  BY <1>1, <1>2 DEF FirstRing
<1>6. BothKeys = B
  BY <1>1, <1>2, <1>3 DEF BothKeys
<1>7. LastRing = C
  BY <1>1, <1>2 DEF LastRing
<1> QED
  BY <1>1, <1>4, <1>5, <1>6, <1>7 DEF A, B, C

\* A run that has not begun is well typed.
LEMMA NoRunTyped == NoRun \in Runs /\ NoRun.pc = "idle" /\ NoRun.todo = {} /\ NoRun.ring = FirstRing
<1>1. FirstRing \in Rings
  BY RingFacts
<1> QED
  BY <1>1 DEF NoRun, Runs
-----------------------------------------------------------------------------
THEOREM RotationInitial == RotationInit => RotationInv
<1> SUFFICES ASSUME RotationInit PROVE RotationInv
  OBVIOUS
<1> USE DEF RotationInit
<1>1. RotationTypeOK
  BY RingFacts, NoRunTyped DEF RotationTypeOK
<1>2. CredentialSurvives
  BY DEF CredentialSurvives, NoRow
<1>3. HeldRows /\ SealedUnder /\ FirstRunsIdle
  BY NoRunTyped DEF HeldRows, SealedUnder, FirstRunsIdle
<1>4. KeyringOrder
  BY RingFacts, NoRunTyped DEF KeyringOrder, NoRow
<1>5. OldKeyUnneeded /\ Outstanding
  BY RingFacts, NoRunTyped DEF OldKeyUnneeded, Outstanding
<1> QED
  BY <1>1, <1>2, <1>3, <1>4, <1>5 DEF RotationInv

\* What a run has left to answer for.
Accounted(q, c) ==
    row[c] = NoRow \/ row[c].version = env.current \/ c \in q.todo \/ (q.pc = "locked" /\ q.conn = c)

\* A step of one rotation run that leaves the table and the keyrings alone.
LEMMA RunStep ==
    ASSUME RotationInv, NEW r \in Rotators, NEW q \in Runs,
           rot' = [rot EXCEPT ![r] = q],
           UNCHANGED <<row, wanted, env, safe, ring, write>>,
           lax' \in BOOLEAN, lax => lax',
           q.pc = "locked" => /\ q.conn \in Conns /\ q.read \in Sealed
                              /\ row[q.conn] = q.read /\ q.ring # FirstRing
                              /\ \A t \in Rotators \ {r} :
                                    ~(rot[t].pc = "locked" /\ rot[t].conn = q.conn),
           env = FirstRing => q.ring = FirstRing,
           env = BothKeys => q.ring # LastRing,
           q.ring = FirstRing => q.todo = {},
           ~lax' /\ q.pc # "idle" /\ q.ring = env =>
               AllRestarted /\ (~q.failed => \A c \in Conns : Accounted(q, c))
    PROVE  RotationInv'
<1> USE DEF RotationInv
<1>1. rot'[r] = q /\ \A t \in Rotators \ {r} : rot'[t] = rot[t]
  BY DEF RotationTypeOK
<1>2. RotationTypeOK'
  <2>1. rot' \in [Rotators -> Runs]
    BY DEF RotationTypeOK
  <2> QED
    BY <1>1, <2>1 DEF RotationTypeOK
<1>3. CredentialSurvives' /\ SealedUnder' /\ OldKeyUnneeded'
  BY DEF CredentialSurvives, SealedUnder, OldKeyUnneeded
<1>4. HeldRows'
  BY <1>1 DEF HeldRows
<1>5. KeyringOrder' /\ FirstRunsIdle'
  BY <1>1 DEF KeyringOrder, FirstRunsIdle
<1>6. Outstanding'
  BY <1>1 DEF Outstanding, AllRestarted, Accounted
<1> QED
  BY <1>2, <1>3, <1>4, <1>5, <1>6

LEMMA RotateBeginKeeps ==
    ASSUME RotationInv, NEW r \in Rotators, RotateBegin(r)
    PROVE  RotationInv'
<1> DEFINE q == [NoRun EXCEPT !.pc = "next", !.ring = env,
                  !.todo = {c \in Conns : row[c] # NoRow /\ row[c].version # env.current}]
<1>0. RotationTypeOK
  BY DEF RotationInv
<1>1. /\ q \in Runs /\ q.pc = "next" /\ q.ring = env
      /\ q.todo = {c \in Conns : row[c] # NoRow /\ row[c].version # env.current}
  BY <1>0, NoRunTyped DEF RotationTypeOK, Runs, NoRun
<1>2. rot' = [rot EXCEPT ![r] = q] /\ lax' = (lax \/ ~AllRestarted)
      /\ UNCHANGED <<row, wanted, env, safe, ring, write>>
  BY DEF RotateBegin
<1> HIDE DEF q
<1>3. env = FirstRing => q.todo = {}
  <2> SUFFICES ASSUME env = FirstRing, NEW c \in Conns, row[c] # NoRow PROVE row[c].version = 1
    BY <1>1, RingFacts
  <2>1. row[c].version # 2
    BY DEF RotationInv, KeyringOrder
  <2>2. row[c] \in Sealed
    BY <1>0 DEF RotationTypeOK
  <2> QED
    BY <2>1, <2>2 DEF Sealed
<1>4. env = BothKeys => q.ring # LastRing
  BY <1>1, RingFacts
<1>5. \A c \in Conns : Accounted(q, c)
  BY <1>1 DEF Accounted
<1>6. lax' \in BOOLEAN
  BY <1>0, <1>2 DEF RotationTypeOK
<1> QED
  BY <1>1, <1>2, <1>3, <1>4, <1>5, <1>6, RunStep

\* What the invariant says of one run.
LEMMA RunFacts ==
    ASSUME RotationInv, NEW r \in Rotators
    PROVE  /\ rot[r] \in Runs /\ rot \in [Rotators -> Runs] /\ lax \in BOOLEAN
           /\ env = FirstRing => rot[r].ring = FirstRing
           /\ env = BothKeys => rot[r].ring # LastRing
           /\ rot[r].ring = FirstRing => rot[r].todo = {} /\ rot[r].pc # "locked"
           /\ ~lax /\ rot[r].pc # "idle" /\ rot[r].ring = env =>
                 AllRestarted /\ (~rot[r].failed => \A c \in Conns : Accounted(rot[r], c))
BY DEF RotationInv, RotationTypeOK, KeyringOrder, FirstRunsIdle, Outstanding, Accounted

LEMMA RotateReadKeeps ==
    ASSUME RotationInv, NEW r \in Rotators, NEW c \in Conns, RotateRead(r, c)
    PROVE  RotationInv'
<1> DEFINE rest == rot[r].todo \ {c}
           skip == [rot[r] EXCEPT !.todo = rest]
           fail == [rot[r] EXCEPT !.todo = rest, !.failed = TRUE]
           take == [rot[r] EXCEPT !.pc = "locked", !.todo = rest, !.conn = c, !.read = row[c]]
<1>1. /\ rot[r].pc = "next" /\ c \in rot[r].todo /\ ~RowLocked(c)
      /\ UNCHANGED <<row, wanted, env, safe, ring, write, lax>>
  BY DEF RotateRead
<1>2. rot[r] \in Runs
  BY RunFacts
<1>3. rot[r].ring # FirstRing
  BY <1>1, RunFacts
<1>4. CASE /\ row[c] = NoRow \/ row[c].version = rot[r].ring.current
           /\ rot' = [rot EXCEPT ![r].todo = rest]
  <2>1. /\ skip \in Runs /\ skip.pc = "next" /\ skip.ring = rot[r].ring
        /\ skip.todo = rest /\ skip.failed = rot[r].failed
    BY <1>1, <1>2 DEF Runs
  <2>2. rot' = [rot EXCEPT ![r] = skip]
    BY <1>4
  <2> HIDE DEF skip
  <2>3. ASSUME ~lax, rot[r].ring = env, ~rot[r].failed, NEW d \in Conns PROVE Accounted(skip, d)
    BY <1>1, <1>4, <2>1, <2>3, RunFacts DEF Accounted
  <2>4. AllRestarted \/ lax \/ rot[r].ring # env
    BY <1>1, RunFacts
  <2> QED
    BY <1>1, <1>3, <2>1, <2>2, <2>3, <2>4, RunFacts, RunStep
<1>5. CASE rot' = [rot EXCEPT ![r].todo = rest, ![r].failed = TRUE]
  <2>1. /\ fail \in Runs /\ fail.pc = "next" /\ fail.ring = rot[r].ring /\ fail.failed
    BY <1>1, <1>2 DEF Runs
  <2>2. rot' = [rot EXCEPT ![r] = fail]
    BY <1>5
  <2> HIDE DEF fail
  <2>4. AllRestarted \/ lax \/ rot[r].ring # env
    BY <1>1, RunFacts
  <2> QED
    BY <1>1, <1>3, <2>1, <2>2, <2>4, RunFacts, RunStep
<1>6. CASE /\ row[c] # NoRow
           /\ rot' = [rot EXCEPT ![r].pc = "locked", ![r].todo = rest,
                                 ![r].conn = c, ![r].read = row[c]]
  <2>0. row[c] \in Sealed
    BY <1>6 DEF RotationInv, RotationTypeOK
  <2>1. /\ take \in Runs /\ take.pc = "locked" /\ take.ring = rot[r].ring
        /\ take.todo = rest /\ take.failed = rot[r].failed /\ take.conn = c /\ take.read = row[c]
    BY <1>1, <1>2, <2>0 DEF Runs
  <2>2. rot' = [rot EXCEPT ![r] = take]
    BY <1>6
  <2> HIDE DEF take
  <2>3. ASSUME ~lax, rot[r].ring = env, ~rot[r].failed, NEW d \in Conns PROVE Accounted(take, d)
    BY <1>1, <2>1, <2>3, RunFacts DEF Accounted
  <2>4. AllRestarted \/ lax \/ rot[r].ring # env
    BY <1>1, RunFacts
  <2>5. \A t \in Rotators \ {r} : ~(rot[t].pc = "locked" /\ rot[t].conn = c)
    BY <1>1 DEF RowLocked
  <2> QED
    BY <1>1, <1>3, <2>0, <2>1, <2>2, <2>3, <2>4, <2>5, RunFacts, RunStep
<1> QED
  BY <1>4, <1>5, <1>6 DEF RotateRead

LEMMA RotateRollbackKeeps ==
    ASSUME RotationInv, NEW r \in Rotators, RotateRollback(r)
    PROVE  RotationInv'
<1> DEFINE q == [rot[r] EXCEPT !.pc = "next", !.conn = None, !.read = NoRow, !.failed = TRUE]
<1>1. /\ rot[r].pc = "locked"
      /\ UNCHANGED <<row, wanted, env, safe, ring, write, lax>>
      /\ rot' = [rot EXCEPT ![r] = q]
  BY DEF RotateRollback
<1>2. rot[r] \in Runs
  BY RunFacts
<1>3. q \in Runs /\ q.pc = "next" /\ q.ring = rot[r].ring /\ q.todo = rot[r].todo /\ q.failed
  BY <1>2 DEF Runs
<1> HIDE DEF q
<1>4. AllRestarted \/ lax \/ rot[r].ring # env
  BY <1>1, RunFacts
<1> QED
  BY <1>1, <1>3, <1>4, RunFacts, RunStep

LEMMA RotateStopKeeps ==
    ASSUME RotationInv, NEW r \in Rotators, RotateEnd(r) \/ RotateInterrupted(r)
    PROVE  RotationInv'
<1>1. rot' = [rot EXCEPT ![r] = NoRun] /\ UNCHANGED <<row, wanted, env, safe, ring, write, lax>>
  BY DEF RotateEnd, RotateInterrupted
<1>2. env = BothKeys => NoRun.ring # LastRing
  BY NoRunTyped, RingFacts
<1> QED
  BY <1>1, <1>2, NoRunTyped, RunFacts, RunStep

LEMMA RotateWriteKeeps ==
    ASSUME RotationInv, NEW r \in Rotators, RotateWrite(r)
    PROVE  RotationInv'
<1> DEFINE c == rot[r].conn
           new == [plain |-> rot[r].read.plain, version |-> rot[r].ring.current]
           q == [rot[r] EXCEPT !.pc = "next", !.conn = None, !.read = NoRow]
<1> USE DEF RotationInv
<1>0. RotationTypeOK
  OBVIOUS
<1>1. /\ rot[r] \in Runs /\ rot[r].pc = "locked" /\ c \in Conns /\ rot[r].read \in Sealed
      /\ row[c] = rot[r].read
      /\ UNCHANGED <<wanted, env, safe, ring, write, lax>>
  BY RunFacts DEF RotateWrite, RotationTypeOK, HeldRows
<1>2. row' = [row EXCEPT ![c] = new]
  BY <1>1 DEF RotateWrite
<1>3. rot' = [rot EXCEPT ![r] = q]
  <2>1. rot' = [rot EXCEPT ![r] = [rot[r] EXCEPT !.pc = "next", !.conn = None, !.read = NoRow,
                                         !.failed = rot[r].failed]]
    BY <1>1 DEF RotateWrite, Runs
  <2> QED
    BY <1>1, <2>1 DEF Runs
<1>4. rot[r].ring \in {BothKeys, LastRing} /\ rot[r].ring.current = 2 /\ env # FirstRing
      /\ env.current = 2
  <2>1. rot[r].ring \in Rings /\ env \in Rings
    BY <1>0, <1>1 DEF Runs, RotationTypeOK
  <2>2. rot[r].ring # FirstRing /\ env # FirstRing
    BY <1>1, RunFacts
  <2>3. BothKeys.current = 2 /\ LastRing.current = 2
    BY RingFacts
  <2> QED
    BY <2>1, <2>2, <2>3, RingFacts
<1>5. new \in Sealed /\ new.version = 2 /\ new.plain = row[c].plain
  BY <1>1, <1>4 DEF Sealed
<1>6. q \in Runs /\ q.pc = "next" /\ q.ring = rot[r].ring /\ q.todo = rot[r].todo
      /\ q.failed = rot[r].failed
  BY <1>1 DEF Runs
<1> HIDE DEF new, q
<1>7. /\ row'[c] = new /\ \A d \in Conns \ {c} : row'[d] = row[d]
      /\ rot'[r] = q /\ \A t \in Rotators \ {r} : rot'[t] = rot[t]
  <2>1. row \in [Conns -> Sealed \cup {NoRow}] /\ rot \in [Rotators -> Runs] /\ c \in Conns
    BY <1>0, <1>1 DEF RotationTypeOK
  <2> HIDE DEF c, RotationInv
  <2> QED
    BY <1>2, <1>3, <2>1
<1>8. RotationTypeOK'
  <2>1. rot' \in [Rotators -> Runs] /\ row' \in [Conns -> Sealed \cup {NoRow}]
    BY <1>0, <1>2, <1>3, <1>5, <1>6 DEF RotationTypeOK
  <2> QED
    BY <1>0, <1>1, <1>6, <1>7, <2>1 DEF RotationTypeOK
<1>9. CredentialSurvives'
  BY <1>1, <1>5, <1>7 DEF CredentialSurvives
<1>10. HeldRows'
  <2>1. \A t \in Rotators \ {r} : rot[t].pc = "locked" => rot[t].conn \in Conns \ {c}
    BY <1>0, <1>1 DEF HeldRows, RotationTypeOK
  <2> QED
    BY <1>6, <1>7, <2>1 DEF HeldRows
<1>11. SealedUnder' /\ FirstRunsIdle' /\ KeyringOrder'
  BY <1>1, <1>4, <1>6, <1>7, RingFacts DEF SealedUnder, FirstRunsIdle, KeyringOrder
<1>12. OldKeyUnneeded'
  BY <1>1, <1>5, <1>7 DEF OldKeyUnneeded
<1>13. Outstanding'
  <2> SUFFICES ASSUME ~lax, NEW t \in Rotators, rot'[t].pc # "idle", rot'[t].ring = env
               PROVE  AllRestarted /\ (~rot'[t].failed => \A d \in Conns : Accounted(rot[t], d)')
    BY <1>1 DEF Outstanding, Accounted, AllRestarted
  <2>1. /\ rot[t].pc # "idle" /\ rot[t].ring = env /\ rot'[t].failed = rot[t].failed
        /\ rot'[t].todo = rot[t].todo
        /\ t # r => rot'[t] = rot[t]
    BY <1>1, <1>6, <1>7
  <2>2. AllRestarted /\ (~rot[t].failed => \A d \in Conns : Accounted(rot[t], d))
    BY <2>1, RunFacts
  <2> QED
    BY <1>1, <1>4, <1>5, <1>6, <1>7, <2>1, <2>2 DEF Accounted
<1> QED
  BY <1>8, <1>9, <1>10, <1>11, <1>12, <1>13
-----------------------------------------------------------------------------
\* What the invariant says of the table and the API processes.
LEMMA TableFacts ==
    ASSUME RotationInv
    PROVE  /\ row \in [Conns -> Sealed \cup {NoRow}] /\ wanted \in [Conns -> Secrets \cup {None}]
           /\ env \in Rings /\ ring \in [Servers -> Rings]
           /\ write \in [Servers -> Writes \cup {NoWrite}] /\ rot \in [Rotators -> Runs]
           /\ \A s \in Servers : write[s] # NoWrite =>
                 write[s] \in Writes /\ write[s].version = ring[s].current
           /\ \A c \in Conns : row[c].plain = wanted[c]
BY DEF RotationInv, RotationTypeOK, SealedUnder, CredentialSurvives

LEMMA SealKeeps ==
    ASSUME RotationInv, NEW s \in Servers, NEW c \in Conns, NEW x \in Secrets,
           SealCredential(s, c, x)
    PROVE  RotationInv'
<1> DEFINE w == [conn |-> c, plain |-> x, version |-> ring[s].current, new |-> row[c] = NoRow]
<1>1. write' = [write EXCEPT ![s] = w] /\ UNCHANGED <<row, wanted, env, safe, ring, rot, lax>>
  BY DEF SealCredential
<1>2. ring[s].current \in {1, 2}
  BY TableFacts, RingFacts
<1>3. w \in Writes /\ w.version = ring[s].current
  BY <1>2 DEF Writes
<1> HIDE DEF w
<1>4. RotationTypeOK'
  BY <1>1, <1>3 DEF RotationInv, RotationTypeOK
<1>5. SealedUnder'
  BY <1>1, <1>3, TableFacts DEF SealedUnder
<1>6. /\ CredentialSurvives' /\ HeldRows' /\ KeyringOrder' /\ FirstRunsIdle' /\ OldKeyUnneeded'
      /\ Outstanding'
  BY <1>1 DEF RotationInv, CredentialSurvives, HeldRows, KeyringOrder, FirstRunsIdle,
              OldKeyUnneeded, Outstanding, AllRestarted
<1> QED
  BY <1>4, <1>5, <1>6 DEF RotationInv

\* A commit to one unlocked row, under the key of a process that may commit it.
LEMMA RowStep ==
    ASSUME RotationInv, NEW c \in Conns, NEW v \in Sealed \cup {NoRow},
           ~RowLocked(c),
           row' = [row EXCEPT ![c] = v], wanted' = [wanted EXCEPT ![c] = v.plain],
           v = NoRow \/ \E s \in Servers : v.version = ring[s].current,
           UNCHANGED <<env, safe, ring, rot, lax>>
    PROVE  /\ row' \in [Conns -> Sealed \cup {NoRow}]
           /\ wanted' \in [Conns -> Secrets \cup {None}]
           /\ CredentialSurvives' /\ HeldRows' /\ KeyringOrder' /\ FirstRunsIdle'
           /\ OldKeyUnneeded' /\ Outstanding'
<1>1. v.plain \in Secrets \cup {None} /\ v.version \in {0, 1, 2}
  BY DEF Sealed, NoRow
<1>2. /\ row'[c] = v /\ wanted'[c] = v.plain
      /\ \A d \in Conns \ {c} : row'[d] = row[d] /\ wanted'[d] = wanted[d]
  BY TableFacts
<1>3. row' \in [Conns -> Sealed \cup {NoRow}] /\ wanted' \in [Conns -> Secrets \cup {None}]
  BY <1>1, TableFacts
<1>4. CredentialSurvives'
  BY <1>2, TableFacts DEF CredentialSurvives
<1>5. HeldRows'
  BY <1>2 DEF RotationInv, HeldRows, RowLocked, RotationTypeOK
<1>6. KeyringOrder'
  <2>1. ASSUME env = FirstRing PROVE v.version # 2
    BY <2>1, RingFacts DEF RotationInv, KeyringOrder, NoRow
  <2> QED
    BY <1>2, <2>1 DEF RotationInv, KeyringOrder
<1>7. FirstRunsIdle'
  BY DEF RotationInv, FirstRunsIdle
<1>8. OldKeyUnneeded'
  <2>1. ASSUME ~lax, 1 \in safe \/ env = LastRing PROVE v.version # 1
    BY <2>1 DEF RotationInv, OldKeyUnneeded, NoRow
  <2> QED
    BY <1>2, <2>1 DEF RotationInv, OldKeyUnneeded
<1>9. Outstanding'
  <2>1. AllRestarted => v = NoRow \/ v.version = env.current
    BY DEF AllRestarted
  <2> QED
    BY <1>2, <2>1 DEF RotationInv, Outstanding, AllRestarted
<1> QED
  BY <1>3, <1>4, <1>5, <1>6, <1>7, <1>8, <1>9

LEMMA CommitKeeps ==
    ASSUME RotationInv, NEW s \in Servers, CommitCredential(s)
    PROVE  RotationInv'
<1> DEFINE w == write[s]
           v == [plain |-> w.plain, version |-> w.version]
<1>1. /\ w # NoWrite /\ ~RowLocked(w.conn) /\ write' = [write EXCEPT ![s] = NoWrite]
      /\ UNCHANGED <<env, safe, ring, rot, lax>>
  BY DEF CommitCredential
<1>2. /\ w \in Writes /\ w.conn \in Conns /\ w.plain \in Secrets
      /\ w.version = ring[s].current /\ v \in Sealed
  BY <1>1, TableFacts DEF Writes, Sealed
<1>3. SealedUnder'
  BY <1>1, TableFacts DEF SealedUnder
<1>4. CASE UNCHANGED <<row, wanted>>
  BY <1>1, <1>3, <1>4 DEF RotationInv, RotationTypeOK, CredentialSurvives, HeldRows, KeyringOrder,
                          FirstRunsIdle, OldKeyUnneeded, Outstanding, AllRestarted
<1>5. CASE row' = [row EXCEPT ![w.conn] = v] /\ wanted' = [wanted EXCEPT ![w.conn] = w.plain]
  <2>1. v.plain = w.plain /\ v.version = ring[s].current
    BY <1>2
  <2>2. write' \in [Servers -> Writes \cup {NoWrite}]
    BY <1>1, TableFacts
  <2>3. RotationTypeOK
    BY DEF RotationInv
  <2> HIDE DEF v, w
  <2>4. /\ row' \in [Conns -> Sealed \cup {NoRow}]
        /\ wanted' \in [Conns -> Secrets \cup {None}]
        /\ CredentialSurvives' /\ HeldRows' /\ KeyringOrder' /\ FirstRunsIdle'
        /\ OldKeyUnneeded' /\ Outstanding'
    BY <1>1, <1>2, <1>5, <2>1, RowStep
  <2> QED
    BY <1>1, <1>3, <2>2, <2>3, <2>4 DEF RotationInv, RotationTypeOK
<1> QED
  BY <1>4, <1>5 DEF CommitCredential

LEMMA DropKeeps ==
    ASSUME RotationInv, NEW c \in Conns, DropConnection(c)
    PROVE  RotationInv'
<1>1. /\ ~RowLocked(c) /\ row' = [row EXCEPT ![c] = NoRow]
      /\ wanted' = [wanted EXCEPT ![c] = NoRow.plain]
      /\ UNCHANGED <<env, safe, ring, write, rot, lax>>
  BY DEF DropConnection, NoRow
<1>2. SealedUnder'
  BY <1>1, TableFacts DEF SealedUnder
<1>3. RotationTypeOK
  BY DEF RotationInv
<1> QED
  BY <1>1, <1>2, <1>3, RowStep DEF RotationInv, RotationTypeOK

LEMMA RestartKeeps ==
    ASSUME RotationInv, NEW s \in Servers, Restart(s)
    PROVE  RotationInv'
<1>1. /\ ring' = [ring EXCEPT ![s] = env] /\ write' = [write EXCEPT ![s] = NoWrite]
      /\ UNCHANGED <<row, wanted, env, safe, rot, lax>>
  BY DEF Restart
<1>2. RotationTypeOK'
  BY <1>1 DEF RotationInv, RotationTypeOK
<1>3. SealedUnder'
  BY <1>1, TableFacts DEF SealedUnder
<1>4. CredentialSurvives' /\ HeldRows' /\ FirstRunsIdle'
  BY <1>1 DEF RotationInv, CredentialSurvives, HeldRows, FirstRunsIdle
<1>5. KeyringOrder'
  BY <1>1, TableFacts, RingFacts DEF RotationInv, KeyringOrder
<1>6. OldKeyUnneeded'
  <2>1. 1 \in safe \/ env = LastRing => env.current = 2
    BY TableFacts, RingFacts DEF RotationInv, KeyringOrder
  <2> QED
    BY <1>1, <2>1, TableFacts DEF RotationInv, OldKeyUnneeded
<1>7. Outstanding'
  BY <1>1, TableFacts DEF RotationInv, Outstanding, AllRestarted
<1> QED
  BY <1>2, <1>3, <1>4, <1>5, <1>6, <1>7 DEF RotationInv

LEMMA AddKeyKeeps ==
    ASSUME RotationInv, AddKey
    PROVE  RotationInv'
<1>1. /\ env = FirstRing /\ env' = BothKeys
      /\ UNCHANGED <<row, wanted, safe, ring, write, rot, lax>>
  BY DEF AddKey
<1>2. RotationTypeOK' /\ CredentialSurvives' /\ HeldRows' /\ SealedUnder' /\ FirstRunsIdle'
  BY <1>1, RingFacts DEF RotationInv, RotationTypeOK, CredentialSurvives, HeldRows, SealedUnder,
                         FirstRunsIdle
<1>3. /\ \A s \in Servers : ring[s] = FirstRing
      /\ \A r \in Rotators : rot[r].ring = FirstRing
      /\ 1 \notin safe
  BY <1>1 DEF RotationInv, KeyringOrder
<1>4. KeyringOrder' /\ OldKeyUnneeded' /\ Outstanding'
  BY <1>1, <1>3, RingFacts DEF KeyringOrder, OldKeyUnneeded, Outstanding
<1> QED
  BY <1>2, <1>4 DEF RotationInv

LEMMA StatusKeeps ==
    ASSUME RotationInv, Status
    PROVE  RotationInv'
<1>1. /\ safe' = SafeToRemove(env) /\ lax' = (lax \/ ~AllRestarted)
      /\ UNCHANGED <<row, wanted, env, ring, write, rot>>
  BY DEF Status
<1>2. safe' \subseteq {1, 2} /\ (1 \in safe' => env = BothKeys /\ Census(1) = {})
  BY <1>1, TableFacts, RingFacts DEF SafeToRemove
<1>3. RotationTypeOK' /\ CredentialSurvives' /\ HeldRows' /\ SealedUnder' /\ FirstRunsIdle'
  BY <1>1, <1>2 DEF RotationInv, RotationTypeOK, CredentialSurvives, HeldRows, SealedUnder,
                         FirstRunsIdle
<1>4. KeyringOrder'
  BY <1>1, <1>2, RingFacts DEF RotationInv, KeyringOrder
<1>5. OldKeyUnneeded'
  <2>1. ASSUME ~lax, AllRestarted, 1 \in safe'
        PROVE  /\ \A s \in Servers : ring[s].current = 2
               /\ \A c \in Conns : row[c].version # 1
    BY <1>2, <2>1, RingFacts DEF AllRestarted, Census, NoRow
  <2>2. ASSUME ~lax, env = LastRing
        PROVE  /\ \A s \in Servers : ring[s].current = 2
               /\ \A c \in Conns : row[c].version # 1
    BY <2>2 DEF RotationInv, OldKeyUnneeded
  <2> QED
    BY <1>1, <2>1, <2>2 DEF OldKeyUnneeded
<1>6. Outstanding'
  BY <1>1 DEF RotationInv, Outstanding, AllRestarted
<1> QED
  BY <1>3, <1>4, <1>5, <1>6 DEF RotationInv

LEMMA RemoveKeyKeeps ==
    ASSUME RotationInv, RemoveKey
    PROVE  RotationInv'
<1>1. /\ env = BothKeys /\ 1 \in safe /\ env' = LastRing
      /\ UNCHANGED <<row, wanted, safe, ring, write, rot, lax>>
  BY DEF RemoveKey
<1>2. RotationTypeOK' /\ CredentialSurvives' /\ HeldRows' /\ SealedUnder' /\ FirstRunsIdle'
  BY <1>1, RingFacts DEF RotationInv, RotationTypeOK, CredentialSurvives, HeldRows, SealedUnder,
                         FirstRunsIdle
<1>3. KeyringOrder' /\ OldKeyUnneeded'
  BY <1>1, RingFacts DEF RotationInv, KeyringOrder, OldKeyUnneeded
<1>4. Outstanding'
  BY <1>1 DEF RotationInv, KeyringOrder, Outstanding
<1> QED
  BY <1>2, <1>3, <1>4 DEF RotationInv

-----------------------------------------------------------------------------
\* No step of the commands, the processes or the operator breaks the invariant.
THEOREM RotationInductive == RotationInv /\ [RotationNext]_rotationVars => RotationInv'
<1> SUFFICES ASSUME RotationInv, [RotationNext]_rotationVars PROVE RotationInv'
  OBVIOUS
<1>1. CASE \E s \in Servers : \/ \E c \in Conns, x \in Secrets : SealCredential(s, c, x)
                              \/ CommitCredential(s) \/ Restart(s)
  BY <1>1, SealKeeps, CommitKeeps, RestartKeeps
<1>2. CASE \E c \in Conns : DropConnection(c)
  BY <1>2, DropKeeps
<1>3. CASE AddKey \/ Status \/ RemoveKey
  BY <1>3, AddKeyKeeps, StatusKeeps, RemoveKeyKeeps
<1>4. CASE \E r \in Rotators : \/ RotateBegin(r) \/ (\E c \in Conns : RotateRead(r, c))
                               \/ RotateWrite(r) \/ RotateRollback(r) \/ RotateEnd(r)
                               \/ RotateInterrupted(r)
  BY <1>4, RotateBeginKeeps, RotateReadKeeps, RotateWriteKeeps, RotateRollbackKeeps,
     RotateStopKeeps
<1>5. CASE UNCHANGED rotationVars
  BY <1>5 DEF rotationVars, RotationInv, RotationTypeOK, CredentialSurvives, HeldRows, SealedUnder,
              KeyringOrder, FirstRunsIdle, OldKeyUnneeded, Outstanding, AllRestarted
<1> QED
  BY <1>1, <1>2, <1>3, <1>4, <1>5 DEF RotationNext

LEMMA RotationInvariant == RotationSpec => []RotationInv
<1> QED
  BY RotationInitial, RotationInductive, PTL DEF RotationSpec

(* Every state of the processes, the runs and the operator is well typed. *)
THEOREM RotationTypeCorrect == RotationSpec => []RotationTypeOK
<1>1. RotationInv => RotationTypeOK
  BY DEF RotationInv
<1> QED
  BY <1>1, RotationInvariant, PTL

(* No overlap of rotations, edits and interruptions loses a credential or  *)
(* brings an old one back (rotate.go rotateOne).                           *)
THEOREM CredentialsKept == RotationSpec => []CredentialSurvives
<1>1. RotationInv => CredentialSurvives
  BY DEF RotationInv
<1> QED
  BY <1>1, RotationInvariant, PTL

(* With the restarts the procedure asks for, every stored credential opens *)
(* with the configured keyring (secretscli.go, keyring.go).                *)
THEOREM NobodyStranded == RotationSpec => []NoRowStranded
<1>1. ASSUME RotationInv PROVE NoRowStranded
  <2> SUFFICES ASSUME ~lax, NEW c \in Conns, row[c] # NoRow PROVE row[c].version \in env.held
    BY DEF NoRowStranded
  <2>1. row[c].version \in {1, 2}
    BY <1>1, TableFacts DEF Sealed
  <2>2. env = FirstRing => row[c].version # 2
    BY <1>1 DEF RotationInv, KeyringOrder
  <2>3. env = LastRing => row[c].version # 1
    BY <1>1 DEF RotationInv, OldKeyUnneeded
  <2> QED
    BY <1>1, <2>1, <2>2, <2>3, TableFacts, RingFacts
<1> QED
  BY <1>1, RotationInvariant, PTL

(* A run that reports no failure leaves no row on an old key, the rows     *)
(* created and edited behind its listing included (rotate.go Rotate).      *)
THEOREM CompleteMeansAll == RotationSpec => CompleteOnceRestarted
<1>1. ASSUME RotationInv, NEW r \in Rotators, EndsComplete(r), ~lax PROVE AllOnCurrent(env)
  <2>1. rot[r].pc = "next" /\ rot[r].todo = {} /\ ~rot[r].failed /\ rot[r].ring = env
    BY <1>1 DEF EndsComplete, RotateEnd
  <2>2. \A c \in Conns : Accounted(rot[r], c)
    BY <1>1, <2>1, RunFacts
  <2> QED
    BY <2>1, <2>2 DEF AllOnCurrent, Accounted
<1>2. RotationInv => [\A r \in Rotators : EndsComplete(r) /\ ~lax => AllOnCurrent(env)]_rotationVars
  BY <1>1
<1> QED
  BY <1>2, RotationInvariant, PTL DEF CompleteOnceRestarted
=============================================================================
