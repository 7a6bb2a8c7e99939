-------------------------- MODULE OperationsProofs ---------------------------
(***************************************************************************)
(* Proofs about what whoever operates the server relies on: that replicas  *)
(* start and stop without dropping requests (Lifecycle), that the audit trail *)
(* keeps its window and its pages are exact (AuditTrail), and that the     *)
(* programs that write the installation's files keep what is the operator's *)
(* (Installation).                                                         *)
(***************************************************************************)
EXTENDS Lifecycle, AuditTrail, Installation, FiniteSetTheorems, WellFoundedInduction, TLAPS

(***************************************************************************)
(* Lifecycle, for any number of replicas, requests and migrations and any  *)
(* timeouts.  The invariant has one part per question: how long a shutdown *)
(* has taken (Timed), who may touch the schema (Migrated), where requests  *)
(* are (Placed) and who is routed to (Routed).                             *)
(***************************************************************************)

Bound == Listening \cup {"closing", "released"}

Timed ==
    \A p \in Replicas :
        /\ pc[p] = "draining" => since[p] <= DrainDelay /\ stopping[p] <= since[p]
        /\ pc[p] = "closing" => since[p] <= ShutdownTimeout
                                /\ stopping[p] <= DrainDelay + since[p]
        /\ pc[p] = "released" => since[p] = 0 /\ stopping[p] <= DrainDelay + ShutdownTimeout
        /\ pc[p] \notin Stopping => since[p] = 0 /\ stopping[p] = 0

\* One replica at a time holds the lock, and none is past the migrations while it
\* migrates.
Migrated ==
    /\ \A p \in Replicas : pc[p] \in {"inspecting", "migrating"} => schema.lock = p
    /\ \A p \in Replicas : pc[p] = "migrating" => schema.dirty \/ schema.version < Latest
    /\ \A p \in Replicas : pc[p] \in Listening \cup {"issuer"} =>
          schema.version = Latest /\ ~schema.dirty
    /\ schema.dirty => schema.version >= 1

\* A request is on a replica that holds its connection; a released one was late.
Placed ==
    \A q \in Reqs :
        /\ req[q].at # Nobody => pc[req[q].at] \in Bound
        /\ req[q].at # Nobody /\ pc[req[q].at] = "released" => late[req[q].at]
        /\ req[q].broken => req[q].at # Nobody /\ pc[req[q].at] = "released"

\* A draining replica still routed to has not been probed since the signal.
Routed ==
    \A p \in Replicas :
        /\ pc[p] = "draining" /\ routed[p] => since[p] <= probed[p]
        /\ pc[p] \in {"closing", "released"} /\ routed[p] /\ ProbeEvery < DrainDelay => hurried[p]
        /\ refused[p] => pc[p] \in {"closing", "released"}
        /\ refused[p] /\ ProbeEvery < DrainDelay => hurried[p]

LifecycleInv == LifecycleTypeOK /\ Timed /\ Migrated /\ Placed /\ Routed

-----------------------------------------------------------------------------
LEMMA FreeTyped ==
    Free \in [at : Replicas \cup {Nobody}, broken : BOOLEAN] /\ Free.at = Nobody /\ ~Free.broken
BY DEF Free

THEOREM LifecycleInitial == LifecycleInit => LifecycleInv
<1> SUFFICES ASSUME LifecycleInit PROVE LifecycleInv
  OBVIOUS
<1> USE DEF LifecycleInit
<1>1. LifecycleTypeOK
  BY LifecycleAssumption, FreeTyped DEF LifecycleTypeOK
<1>2. Timed /\ Migrated
  BY LifecycleAssumption DEF Timed, Migrated, Stopping, Listening
<1>3. Placed /\ Routed
  BY FreeTyped DEF Placed, Routed
<1> QED
  BY <1>1, <1>2, <1>3 DEF LifecycleInv

\* A replica that exits takes its requests, its lock and its history with it.
LEMMA GoneKeeps ==
    ASSUME LifecycleInv, NEW p \in Replicas, Gone(p)
    PROVE  LifecycleInv'
<1> USE DEF LifecycleInv, Gone, Goes, worldVars
<1>1. LifecycleTypeOK'
  <2>1. req' \in [Reqs -> [at : Replicas \cup {Nobody}, broken : BOOLEAN]]
    BY FreeTyped DEF LifecycleTypeOK
  <2>2. schema' \in [version : 0 .. Latest, dirty : BOOLEAN, lock : Replicas \cup {Nobody}]
    BY DEF LifecycleTypeOK
  <2> QED
    BY <2>1, <2>2, LifecycleAssumption DEF LifecycleTypeOK
<1>2. Timed'
  BY DEF Timed, LifecycleTypeOK, Stopping
<1>3. Migrated'
  BY DEF Migrated, LifecycleTypeOK, Listening
<1>4. Placed'
  BY FreeTyped DEF Placed, LifecycleTypeOK
<1>5. Routed'
  BY DEF Routed, LifecycleTypeOK
<1> QED
  BY <1>1, <1>2, <1>3, <1>4, <1>5

\* A step of the boot.
LEMMA BootsKeeps ==
    ASSUME LifecycleInv, NEW p \in Replicas, NEW to, Boots(p, to),
           pc[p] \in {"down"} \cup Booting, to \in Booting \cup {"serving"},
           schema' \in [version : 0 .. Latest, dirty : BOOLEAN, lock : Replicas \cup {Nobody}],
           Migrated'
    PROVE  LifecycleInv'
<1> USE DEF LifecycleInv, Boots, Goes, worldVars
<1>1. LifecycleTypeOK'
  BY LifecycleAssumption DEF LifecycleTypeOK
<1>2. Timed'
  BY DEF Timed, LifecycleTypeOK, Stopping, Booting, InMigrate
<1>3. Placed'
  <2>1. \A q \in Reqs : req[q].at # Nobody => req[q].at # p
    BY DEF Placed, Bound, Booting, InMigrate, Listening
  <2> QED
    BY <2>1 DEF Placed, LifecycleTypeOK
<1>4. Routed'
  BY DEF Routed, LifecycleTypeOK, Booting, InMigrate
<1> QED
  BY <1>1, <1>2, <1>3, <1>4

\* The steps that leave the schema alone.
LEMMA QuietBootsKeep ==
    ASSUME LifecycleInv, NEW p \in Replicas,
           Start(p) \/ Dial(p) \/ EnsureVersionTable(p) \/ Serve(p)
    PROVE  LifecycleInv'
<1>1. PICK to \in {"dialing", "preparing", "locking", "serving"} :
          /\ Boots(p, to) /\ UNCHANGED schema /\ pc[p] \in {"down"} \cup Booting
          /\ to = "serving" => schema.version = Latest /\ ~schema.dirty
  BY DEF Start, Dial, EnsureVersionTable, Serve, LifecycleInv, Migrated, Listening, Booting,
         InMigrate
<1>2. pc' = [pc EXCEPT ![p] = to]
  BY <1>1 DEF Boots, Goes
<1>3. Migrated'
  BY <1>1, <1>2 DEF LifecycleInv, Migrated, LifecycleTypeOK, Listening
<1>4. schema' \in [version : 0 .. Latest, dirty : BOOLEAN, lock : Replicas \cup {Nobody}]
  BY <1>1 DEF LifecycleInv, LifecycleTypeOK
<1> QED
  BY <1>1, <1>3, <1>4, BootsKeeps DEF Booting, InMigrate

LEMMA RetryKeeps ==
    ASSUME LifecycleInv, NEW p \in Replicas, Retry(p)
    PROVE  LifecycleInv'
<1>1. CASE Gone(p)
  BY <1>1, GoneKeeps
<1>2. CASE ~Gone(p)
  <2>1. /\ tries[p] + 1 # Attempts /\ tries' = [tries EXCEPT ![p] = tries[p] + 1]
        /\ UNCHANGED <<pc, since, stopping, late, hurried, schema, worldVars, req, refused>>
    BY <1>2 DEF Retry
  <2>2. LifecycleTypeOK'
    <3>0. tries[p] \in 0 .. Attempts - 1
      BY DEF LifecycleInv, LifecycleTypeOK
    <3>1. tries[p] + 1 \in 0 .. Attempts - 1
      BY <2>1, <3>0, LifecycleAssumption
    <3>2. tries' \in [Replicas -> 0 .. Attempts - 1]
      BY <2>1, <3>1 DEF LifecycleInv, LifecycleTypeOK
    <3> QED
      BY <2>1, <3>2 DEF LifecycleInv, LifecycleTypeOK, worldVars
  <2>3. Timed' /\ Migrated' /\ Placed' /\ Routed'
    BY <2>1 DEF LifecycleInv, Timed, Migrated, Placed, Routed, worldVars
  <2> QED
    BY <2>2, <2>3 DEF LifecycleInv
<1> QED
  BY <1>1, <1>2

\* The lock is given to one replica.
LEMMA LockKeeps ==
    ASSUME LifecycleInv, NEW p \in Replicas, Lock(p)
    PROVE  LifecycleInv'
<1> USE DEF LifecycleInv
<1>1. /\ Boots(p, "inspecting") /\ schema' = [schema EXCEPT !.lock = p]
      /\ pc[p] = "locking" /\ schema.lock = Nobody
  BY DEF Lock
<1>2. pc' = [pc EXCEPT ![p] = "inspecting"]
  BY <1>1 DEF Boots, Goes
<1>3. schema' \in [version : 0 .. Latest, dirty : BOOLEAN, lock : Replicas \cup {Nobody}]
      /\ schema'.lock = p /\ schema'.version = schema.version /\ schema'.dirty = schema.dirty
  BY <1>1 DEF LifecycleTypeOK
<1>4. \A r \in Replicas : pc[r] \notin {"inspecting", "migrating"}
  BY <1>1, LifecycleAssumption DEF Migrated
<1>5. Migrated'
  BY <1>2, <1>3, <1>4 DEF Migrated, LifecycleTypeOK, Listening
<1> QED
  BY <1>1, <1>3, <1>5, BootsKeeps DEF Booting, InMigrate

\* Up goes on from a clean version, or gives the lock back.
LEMMA InspectKeeps ==
    ASSUME LifecycleInv, NEW p \in Replicas, Inspect(p)
    PROVE  LifecycleInv'
<1>0. pc[p] = "inspecting" /\ pc[p] \in Booting
  BY DEF Inspect, Booting, InMigrate
<1>1. CASE schema.dirty
  BY <1>1, GoneKeeps DEF Inspect
<1> USE DEF LifecycleInv
<1>2. \A r \in Replicas \ {p} : pc[r] \notin {"inspecting", "migrating"}
  BY <1>0, LifecycleAssumption DEF Migrated
<1>3. CASE ~schema.dirty /\ schema.version = Latest
  <2>1. Boots(p, "issuer") /\ schema' = [schema EXCEPT !.lock = Nobody]
    BY <1>3 DEF Inspect, UpFrom
  <2>2. pc' = [pc EXCEPT ![p] = "issuer"]
    BY <2>1 DEF Boots, Goes
  <2>3. schema' \in [version : 0 .. Latest, dirty : BOOLEAN, lock : Replicas \cup {Nobody}]
        /\ schema'.version = schema.version /\ schema'.dirty = schema.dirty
    BY <2>1 DEF LifecycleTypeOK
  <2>4. Migrated'
    BY <1>2, <1>3, <2>2, <2>3 DEF Migrated, LifecycleTypeOK
  <2> QED
    BY <1>0, <2>1, <2>3, <2>4, BootsKeeps DEF Booting
<1>4. CASE ~schema.dirty /\ schema.version # Latest
  <2>1. Boots(p, "migrating") /\ UNCHANGED schema
    BY <1>4 DEF Inspect, UpFrom
  <2>2. pc' = [pc EXCEPT ![p] = "migrating"]
    BY <2>1 DEF Boots, Goes
  <2>3. schema.version < Latest
    BY <1>4, LifecycleAssumption DEF LifecycleTypeOK
  <2>4. schema' \in [version : 0 .. Latest, dirty : BOOLEAN, lock : Replicas \cup {Nobody}]
    BY <2>1 DEF LifecycleTypeOK
  <2>5. Migrated'
    BY <1>0, <2>1, <2>2, <2>3 DEF Migrated, LifecycleTypeOK, Listening
  <2> QED
    BY <1>0, <2>1, <2>4, <2>5, BootsKeeps DEF Booting, InMigrate
<1> QED
  BY <1>1, <1>3, <1>4

\* A step that leaves everything but the schema alone.
LEMMA SchemaStep ==
    ASSUME LifecycleInv, UNCHANGED <<replicaVars, worldVars, req, refused>>,
           schema' \in [version : 0 .. Latest, dirty : BOOLEAN, lock : Replicas \cup {Nobody}],
           Migrated'
    PROVE  LifecycleInv'
<1> USE DEF LifecycleInv, replicaVars, worldVars
<1>1. LifecycleTypeOK'
  BY DEF LifecycleTypeOK
<1>2. Timed' /\ Placed' /\ Routed'
  BY DEF Timed, Placed, Routed
<1> QED
  BY <1>1, <1>2

LEMMA MigrationKeeps ==
    ASSUME LifecycleInv, NEW p \in Replicas, MigrationBegins(p) \/ MigrationEnds(p)
    PROVE  LifecycleInv'
<1> USE DEF LifecycleInv
<1>1. schema.version \in Nat /\ Latest \in Nat
  BY LifecycleAssumption DEF LifecycleTypeOK
<1>2. ASSUME pc[p] = "migrating"
      PROVE  /\ \A r \in Replicas \ {p} : pc[r] \notin {"inspecting", "migrating"}
             /\ \A r \in Replicas : pc[r] \notin Listening \cup {"issuer"}
  BY <1>1, <1>2, LifecycleAssumption DEF Migrated
<1>3. CASE MigrationBegins(p)
  <2>1. /\ pc[p] = "migrating" /\ ~schema.dirty
        /\ schema' = [schema EXCEPT !.version = schema.version + 1, !.dirty = TRUE]
        /\ UNCHANGED <<replicaVars, worldVars, req, refused>>
    BY <1>3 DEF MigrationBegins
  <2>2. schema.version < Latest
    BY <2>1 DEF Migrated
  <2>3. /\ schema' \in [version : 0 .. Latest, dirty : BOOLEAN, lock : Replicas \cup {Nobody}]
        /\ schema'.version = schema.version + 1 /\ schema'.dirty /\ schema'.lock = schema.lock
    <3>1. schema.version + 1 \in 0 .. Latest
      BY <1>1, <2>2
    <3> QED
      BY <2>1, <3>1 DEF LifecycleTypeOK
  <2>4. Migrated'
    BY <1>1, <1>2, <2>1, <2>3 DEF Migrated, replicaVars
  <2> QED
    BY <2>1, <2>3, <2>4, SchemaStep
<1>4. CASE MigrationEnds(p)
  <2>1. pc[p] = "migrating" /\ schema.dirty
    BY <1>4 DEF MigrationEnds
  <2>2. CASE schema.version = Latest
    <3>1. Boots(p, "issuer") /\ schema' = [schema EXCEPT !.dirty = FALSE, !.lock = Nobody]
      BY <1>4, <2>2 DEF MigrationEnds
    <3>2. /\ schema' \in [version : 0 .. Latest, dirty : BOOLEAN, lock : Replicas \cup {Nobody}]
          /\ schema'.version = schema.version /\ ~schema'.dirty
      BY <3>1 DEF LifecycleTypeOK
    <3>3. pc' = [pc EXCEPT ![p] = "issuer"]
      BY <3>1 DEF Boots, Goes
    <3>4. Migrated'
      BY <1>2, <2>1, <2>2, <3>2, <3>3 DEF Migrated, LifecycleTypeOK
    <3> QED
      BY <2>1, <3>1, <3>2, <3>4, BootsKeeps DEF Booting, InMigrate
  <2>3. CASE schema.version # Latest
    <3>1. /\ schema' = [schema EXCEPT !.dirty = FALSE]
          /\ UNCHANGED <<replicaVars, worldVars, req, refused>>
      BY <1>4, <2>3 DEF MigrationEnds
    <3>2. /\ schema' \in [version : 0 .. Latest, dirty : BOOLEAN, lock : Replicas \cup {Nobody}]
          /\ schema'.version = schema.version /\ ~schema'.dirty /\ schema'.lock = schema.lock
      BY <3>1 DEF LifecycleTypeOK
    <3>3. schema.version < Latest
      BY <1>1, <2>3 DEF LifecycleTypeOK
    <3>4. Migrated'
      BY <1>2, <2>1, <3>1, <3>2, <3>3 DEF Migrated, replicaVars
    <3> QED
      BY <3>1, <3>2, <3>4, SchemaStep
  <2> QED
    BY <2>2, <2>3
<1> QED
  BY <1>3, <1>4

LEMMA MigrateForceKeeps ==
    ASSUME LifecycleInv, MigrateForce
    PROVE  LifecycleInv'
<1> USE DEF LifecycleInv
<1>1. PICK v \in {schema.version - 1, schema.version} :
          schema' = [schema EXCEPT !.version = v, !.dirty = FALSE]
  BY DEF MigrateForce
<1>2. schema.dirty /\ schema.lock = Nobody /\ UNCHANGED <<replicaVars, worldVars, req, refused>>
  BY DEF MigrateForce
<1>3. v \in 0 .. Latest
  BY <1>1, <1>2, LifecycleAssumption DEF Migrated, LifecycleTypeOK
<1>4. /\ schema' \in [version : 0 .. Latest, dirty : BOOLEAN, lock : Replicas \cup {Nobody}]
      /\ ~schema'.dirty
  BY <1>1, <1>3 DEF LifecycleTypeOK
<1>5. \A p \in Replicas : pc[p] \notin {"inspecting", "migrating"} \cup Listening \cup {"issuer"}
  BY <1>2, LifecycleAssumption DEF Migrated
<1>6. Migrated'
  BY <1>2, <1>4, <1>5 DEF Migrated, replicaVars
<1> QED
  BY <1>2, <1>4, <1>6, SchemaStep

-----------------------------------------------------------------------------
\* SIGTERM, and the end of the drain delay.
LEMMA ShutdownStepKeeps ==
    ASSUME LifecycleInv, NEW p \in Replicas, Signal(p) \/ CloseListener(p) \/ Release(p)
    PROVE  LifecycleInv'
<1> USE DEF LifecycleInv, worldVars
<1>1. PICK to \in Stopping :
        /\ pc' = [pc EXCEPT ![p] = to] /\ since' = [since EXCEPT ![p] = 0]
        /\ UNCHANGED <<tries, stopping, schema, worldVars, req, refused>>
        /\ \/ pc[p] = "serving" /\ to = "draining" /\ hurried' = [hurried EXCEPT ![p] = FALSE]
              /\ UNCHANGED late
           \/ pc[p] = "draining" /\ to = "closing" /\ hurried' = [hurried EXCEPT ![p] = TRUE]
              /\ UNCHANGED late
           \/ pc[p] = "draining" /\ to = "closing" /\ since[p] = DrainDelay
              /\ UNCHANGED <<late, hurried>>
           \/ pc[p] = "closing" /\ to = "released" /\ late' = [late EXCEPT ![p] = At(p) # {}]
              /\ UNCHANGED hurried
  <2>1. CASE Signal(p)
    BY <2>1 DEF Signal, Goes, Stopping
  <2>2. CASE CloseListener(p)
    BY <2>2 DEF CloseListener, Goes, Stopping
  <2>3. CASE Release(p)
    BY <2>3 DEF Release, Goes, Stopping
  <2> QED
    BY <2>1, <2>2, <2>3
<1>2. LifecycleTypeOK'
  <2>1. 0 \in 0 .. DrainDelay + ShutdownTimeout
    BY LifecycleAssumption
  <2>2. since' \in [Replicas -> 0 .. DrainDelay + ShutdownTimeout]
    BY <1>1, <2>1 DEF LifecycleTypeOK
  <2>3. pc' \in [Replicas -> {"down"} \cup Booting \cup {"serving"} \cup Stopping]
    BY <1>1 DEF LifecycleTypeOK
  <2>4. late' \in [Replicas -> BOOLEAN] /\ hurried' \in [Replicas -> BOOLEAN]
    BY <1>1 DEF LifecycleTypeOK
  <2> QED
    BY <1>1, <2>2, <2>3, <2>4 DEF LifecycleTypeOK
<1>3. Timed'
  BY <1>1, LifecycleAssumption DEF Timed, LifecycleTypeOK, Stopping
<1>4. Migrated'
  BY <1>1 DEF Migrated, LifecycleTypeOK, Stopping, Listening
<1>5. Placed'
  <2>1. \A q \in Reqs : req[q].at = p => q \in At(p)
    BY DEF At
  <2> QED
    BY <1>1, <2>1 DEF Placed, Bound, Listening, LifecycleTypeOK, Stopping
<1>6. Routed'
  BY <1>1, LifecycleAssumption DEF Routed, LifecycleTypeOK, Stopping
<1> QED
  BY <1>2, <1>3, <1>4, <1>5, <1>6

LEMMA ProbeKeeps ==
    ASSUME LifecycleInv, NEW p \in Replicas, Probe(p)
    PROVE  LifecycleInv'
<1> USE DEF LifecycleInv, Probe, replicaVars
<1>1. LifecycleTypeOK'
  BY LifecycleAssumption DEF LifecycleTypeOK, Ready
<1>2. Timed' /\ Migrated' /\ Placed'
  BY DEF Timed, Migrated, Placed
<1>3. Routed'
  BY DEF Routed, LifecycleTypeOK, Ready
<1> QED
  BY <1>1, <1>2, <1>3

\* A step of one request.
LEMMA RequestStep ==
    ASSUME LifecycleInv, NEW q \in Reqs, NEW x \in [at : Replicas \cup {Nobody}, broken : BOOLEAN],
           req' = [req EXCEPT ![q] = x], UNCHANGED <<replicaVars, schema, worldVars, refused>>,
           x.at # Nobody => pc[x.at] \in Bound,
           x.at # Nobody /\ pc[x.at] = "released" => late[x.at],
           x.broken => x.at # Nobody /\ pc[x.at] = "released"
    PROVE  LifecycleInv'
<1> USE DEF LifecycleInv, replicaVars, worldVars
<1>1. LifecycleTypeOK'
  BY DEF LifecycleTypeOK
<1>2. Timed' /\ Migrated' /\ Routed'
  BY DEF Timed, Migrated, Routed
<1>3. Placed'
  BY DEF Placed, LifecycleTypeOK
<1> QED
  BY <1>1, <1>2, <1>3

LEMMA ArriveKeeps ==
    ASSUME LifecycleInv, NEW q \in Reqs, Arrive(q)
    PROVE  LifecycleInv'
<1>1. PICK p \in Replicas :
        /\ routed[p] /\ pc[p] \in Listening \cup {"closing", "released"}
        /\ IF pc[p] \in Listening
           THEN req' = [req EXCEPT ![q] = [at |-> p, broken |-> FALSE]] /\ UNCHANGED refused
           ELSE refused' = [refused EXCEPT ![p] = TRUE] /\ UNCHANGED req
        /\ UNCHANGED <<replicaVars, schema, worldVars>>
  BY DEF Arrive
<1>2. CASE pc[p] \in Listening
  <2> DEFINE x == [at |-> p, broken |-> FALSE]
  <2>1. /\ x \in [at : Replicas \cup {Nobody}, broken : BOOLEAN] /\ x.at = p /\ ~x.broken
        /\ pc[p] \in Bound /\ pc[p] # "released"
    BY <1>2 DEF Bound, Listening
  <2>2. req' = [req EXCEPT ![q] = x] /\ UNCHANGED <<replicaVars, schema, worldVars, refused>>
    BY <1>1, <1>2
  <2> HIDE DEF x
  <2> QED
    BY <2>1, <2>2, RequestStep
<1>3. CASE pc[p] \notin Listening
  <2> USE DEF LifecycleInv, replicaVars, worldVars
  <2>1. refused' = [refused EXCEPT ![p] = TRUE] /\ pc[p] \in {"closing", "released"}
    BY <1>1, <1>3
  <2>2. LifecycleTypeOK'
    BY <1>1, <1>3, <2>1 DEF LifecycleTypeOK
  <2>3. Timed' /\ Migrated' /\ Placed'
    BY <1>1, <1>3 DEF Timed, Migrated, Placed
  <2>4. Routed'
    BY <1>1, <1>3, <2>1 DEF Routed, LifecycleTypeOK
  <2> QED
    BY <2>2, <2>3, <2>4
<1> QED
  BY <1>2, <1>3

LEMMA QueryKeeps ==
    ASSUME LifecycleInv, NEW q \in Reqs, Query(q) \/ Respond(q)
    PROVE  LifecycleInv'
<1>1. CASE Respond(q)
  BY <1>1, FreeTyped, RequestStep DEF Respond
<1>2. CASE Query(q)
  <2> DEFINE x == [req[q] EXCEPT !.broken = TRUE]
  <2>1. req[q] \in [at : Replicas \cup {Nobody}, broken : BOOLEAN]
    BY DEF LifecycleInv, LifecycleTypeOK
  <2>2. x \in [at : Replicas \cup {Nobody}, broken : BOOLEAN] /\ x.at = req[q].at
    BY <2>1
  <2>3. req' = [req EXCEPT ![q] = x] /\ UNCHANGED <<replicaVars, schema, worldVars, refused>>
        /\ req[q].at # Nobody /\ pc[req[q].at] = "released"
    BY <1>2 DEF Query
  <2>4. late[req[q].at]
    BY <2>3 DEF LifecycleInv, Placed
  <2> HIDE DEF x
  <2> QED
    BY <2>2, <2>3, <2>4, RequestStep DEF Bound
<1> QED
  BY <1>1, <1>2

LEMMA OutageKeeps ==
    ASSUME LifecycleInv, NEW d \in {"database", "issuer"}, Outage(d)
    PROVE  LifecycleInv'
<1> USE DEF LifecycleInv, Outage, replicaVars
<1>1. LifecycleTypeOK'
  BY LifecycleAssumption DEF LifecycleTypeOK
<1>2. Timed' /\ Migrated' /\ Placed' /\ Routed'
  BY DEF Timed, Migrated, Placed, Routed
<1> QED
  BY <1>1, <1>2

LEMMA TickKeeps ==
    ASSUME LifecycleInv, Tick
    PROVE  LifecycleInv'
<1> USE DEF LifecycleInv, Tick
<1>1. /\ since \in [Replicas -> Nat] /\ stopping \in [Replicas -> Nat]
      /\ probed \in [Replicas -> Nat]
      /\ DrainDelay \in Nat /\ ShutdownTimeout \in Nat /\ ProbeEvery \in Nat
  BY LifecycleAssumption DEF LifecycleTypeOK
<1>2. \A p \in Replicas : pc[p] \in Stopping =>
          \/ pc[p] = "draining" /\ since[p] < DrainDelay
          \/ pc[p] = "closing" /\ since[p] < ShutdownTimeout
  BY DEF Stopping
<1>3. LifecycleTypeOK'
  <2>1. since' \in [Replicas -> 0 .. DrainDelay + ShutdownTimeout]
    <3>1. \A p \in Replicas : since[p] \in 0 .. DrainDelay + ShutdownTimeout
      BY DEF LifecycleTypeOK
    <3> QED
      BY <1>1, <1>2, <3>1
  <2>2. probed' \in [Replicas -> 0 .. ProbeEvery]
    <3>1. \A p \in Replicas : probed[p] \in 0 .. ProbeEvery
      BY DEF LifecycleTypeOK
    <3> QED
      BY <1>1, <3>1
  <2>3. stopping' \in [Replicas -> Nat]
    BY <1>1
  <2> QED
    BY <2>1, <2>2, <2>3 DEF LifecycleTypeOK
<1>4. Timed'
  BY <1>1, <1>2 DEF Timed
<1>5. Migrated' /\ Placed'
  BY DEF Migrated, Placed
<1>6. Routed'
  <2>1. \A p \in Replicas : pc[p] = "draining" =>
            since'[p] = since[p] + 1 /\ probed'[p] = probed[p] + 1
    BY DEF Stopping, Listening
  <2> QED
    BY <1>1, <2>1 DEF Routed
<1> QED
  BY <1>3, <1>4, <1>5, <1>6

THEOREM LifecycleInductive ==
    LifecycleInv /\ [LifecycleNext]_lifecycleVars => LifecycleInv'
<1> SUFFICES ASSUME LifecycleInv, [LifecycleNext]_lifecycleVars PROVE LifecycleInv'
  OBVIOUS
<1>1. ASSUME NEW p \in Replicas, Start(p) \/ Advance(p) \/ Retry(p)
      PROVE  LifecycleInv'
  <2>1. CASE Start(p) \/ Dial(p) \/ EnsureVersionTable(p) \/ Serve(p)
    BY <2>1, QuietBootsKeep
  <2>2. CASE Retry(p)
    BY <2>2, RetryKeeps
  <2>3. CASE LockTimesOut(p) \/ Exit(p)
    BY <2>3, GoneKeeps DEF LockTimesOut, Exit
  <2>4. CASE Lock(p) \/ Inspect(p)
    BY <2>4, LockKeeps, InspectKeeps
  <2>5. CASE CloseListener(p) \/ Release(p)
    BY <2>5, ShutdownStepKeeps
  <2> QED
    BY <1>1, <2>1, <2>2, <2>3, <2>4, <2>5 DEF Advance
<1>2. ASSUME NEW p \in Replicas,
             MigrationBegins(p) \/ MigrationEnds(p) \/ MigrateFails(p) \/ ServeFails(p) \/ Kill(p)
      PROVE  LifecycleInv'
  BY <1>2, MigrationKeeps, GoneKeeps DEF MigrateFails, ServeFails, Kill
<1>3. ASSUME NEW p \in Replicas, Signal(p) \/ Probe(p) PROVE LifecycleInv'
  BY <1>3, ShutdownStepKeeps, ProbeKeeps
<1>4. ASSUME NEW q \in Reqs, Arrive(q) \/ Query(q) \/ Respond(q) PROVE LifecycleInv'
  BY <1>4, ArriveKeeps, QueryKeeps
<1>5. ASSUME NEW d \in {"database", "issuer"}, Outage(d) PROVE LifecycleInv'
  BY <1>5, OutageKeeps
<1>6. CASE MigrateForce \/ Tick
  BY <1>6, MigrateForceKeeps, TickKeeps
<1>7. CASE UNCHANGED lifecycleVars
  BY <1>7 DEF LifecycleInv, lifecycleVars, replicaVars, worldVars, LifecycleTypeOK, Timed,
              Migrated, Placed, Routed
<1> QED
  BY <1>1, <1>2, <1>3, <1>4, <1>5, <1>6, <1>7 DEF LifecycleNext

THEOREM LifecycleInvariant == LifecycleSpec => []LifecycleInv
BY LifecycleInitial, LifecycleInductive, PTL DEF LifecycleSpec

-----------------------------------------------------------------------------
(* The state of replicas, schema, load balancer and requests keeps its     *)
(* shape: no timer of a shutdown outruns its bound (cmd/api/main.go,       *)
(* internal/server/lifecycle.go).                                          *)
THEOREM LifecycleTypeCorrect == LifecycleSpec => []LifecycleTypeOK
<1>1. LifecycleInv => LifecycleTypeOK
  BY DEF LifecycleInv
<1> QED
  BY <1>1, LifecycleInvariant, PTL

(* However many replicas boot at once, fail in a migration or are          *)
(* repaired, none serves from a schema that is dirty or older than its     *)
(* build (database.go Migrate under the advisory lock).                    *)
THEOREM SchemaIsCurrent == LifecycleSpec => []ServedFromCurrentSchema
<1>1. LifecycleInv => ServedFromCurrentSchema
  BY DEF LifecycleInv, Migrated, ServedFromCurrentSchema
<1> QED
  BY <1>1, LifecycleInvariant, PTL

(* With probes more frequent than the drain delay is long, a single signal *)
(* refuses nobody, for any number of replicas and any such delay           *)
(* (lifecycle.go drainDelay).                                              *)
THEOREM SignalIsClean == LifecycleSpec => []HandOffIsClean
<1>1. LifecycleInv => HandOffIsClean
  BY DEF LifecycleInv, Routed, HandOffIsClean
<1> QED
  BY <1>1, LifecycleInvariant, PTL

(* Only a request that outlived the deadline of the shutdown meets a       *)
(* closed pool (lifecycle.go closeResources after Shutdown).               *)
THEOREM PoolClosesLast == LifecycleSpec => []PoolOutlivesRequests
<1>1. LifecycleInv => PoolOutlivesRequests
  BY DEF LifecycleInv, Placed, PoolOutlivesRequests
<1> QED
  BY <1>1, LifecycleInvariant, PTL

(* A shutdown takes at most the drain delay and the timeout together, for  *)
(* any value of both (lifecycle.go ShutdownTimeout).                       *)
THEOREM ShutdownIsTimed == LifecycleSpec => []ShutdownIsBounded
<1>1. LifecycleInv => ShutdownIsBounded
  <2> SUFFICES ASSUME LifecycleInv, NEW p \in Replicas
               PROVE  stopping[p] <= DrainDelay + ShutdownTimeout
    BY DEF ShutdownIsBounded
  <2>1. /\ since[p] \in Nat /\ stopping[p] \in Nat
        /\ DrainDelay \in Nat /\ ShutdownTimeout \in Nat
    BY LifecycleAssumption DEF LifecycleInv, LifecycleTypeOK
  <2>2. CASE pc[p] \in Stopping
    BY <2>1, <2>2 DEF LifecycleInv, Timed, Stopping
  <2>3. CASE pc[p] \notin Stopping
    BY <2>1, <2>3 DEF LifecycleInv, Timed
  <2> QED
    BY <2>2, <2>3
<1> QED
  BY <1>1, LifecycleInvariant, PTL

-----------------------------------------------------------------------------
(***************************************************************************)
(* AuditTrail, for any events, page size, retention, period, startup delay *)
(* and lag.                                                                *)
(*                                                                         *)
(* The window: a process has yet to sweep, and its uptime says so, or a    *)
(* row's age is bounded by the retention and by the sweeps that failed     *)
(* since it was due (WindowClock); an event reaches the trail within MaxLag*)
(* of its timestamp (RowsAreDone).  The pages: the cursor    *)
(* splits the events into those returned and those to come (CursorSplits), *)
(* and Newest, the rows a page takes, leaves only older ones behind.       *)
(***************************************************************************)

Walks == [on : BOOLEAN, over : BOOLEAN, after : Ids \cup {None}, got : [Ids -> Nat], began : SUBSET Ids]

TrailTypeOK ==
    /\ now \in Nat /\ stage \in [Ids -> Stages] /\ at \in [Ids -> Nat]
    /\ rows \subseteq Ids /\ IsFiniteSet(rows) /\ kept \subseteq Ids
    /\ alive \in BOOLEAN /\ due \in Nat /\ uptime \in Nat /\ failed \in Nat
    /\ walk \in Walks

\* A row is that of an event whose emission is over, and one under way is a recent one.
RowsAreDone ==
    /\ rows \subseteq kept /\ \A i \in kept : stage[i] = "done"
    /\ \A i \in Ids : at[i] <= now /\ (stage[i] \in {"stamped", "open"} => now - at[i] <= MaxLag)

\* No sweep of this process has succeeded: the next one is as near as it has been up.
YetToSweep == uptime = Delay + failed * Period - due

\* One has: the age of a row, with what is left until the next sweep.
AgesBounded ==
    due <= Period /\ \A i \in rows : now - at[i] <= Retention + (failed + 1) * Period - due

\* The window with the clock of the sweep.
WindowClock ==
    /\ \A i \in kept : now - at[i] <= Retention => i \in rows
    /\ alive => YetToSweep \/ AgesBounded
    /\ ~alive => uptime = 0 /\ failed = 0

\* The cursor splits the events in those that were returned, or need not be, and
\* those to come.
CursorSplits ==
    /\ walk.began \subseteq kept \cap Ours /\ walk.after \in kept \cup {None}
    /\ \A i \in Ids : walk.got[i] <= 1
    /\ \A i \in Ids : walk.got[i] = 1 =>
          /\ i \in Ours \cap kept
          /\ ~walk.over => walk.after # None /\ (i = walk.after \/ Newer(i, walk.after))
    /\ \A i \in walk.began \cap rows :
          \/ walk.got[i] = 1
          \/ ~walk.over /\ (walk.after = None \/ Newer(walk.after, i))

TrailInv == TrailTypeOK /\ RowsAreDone /\ WindowClock /\ CursorSplits

-----------------------------------------------------------------------------
(* A finite set that is not empty has a least element in a strict order.   *)
LEMMA HasLeast ==
    ASSUME NEW S, IsFiniteSet(S), S # {}, NEW R,
           \A x \in S : <<x, x>> \notin R,
           \A x, y, z \in S : <<x, y>> \in R /\ <<y, z>> \in R => <<x, z>> \in R
    PROVE  \E x \in S : \A y \in S : <<y, x>> \notin R
<1> DEFINE Before(x) == {y \in S : <<y, x>> \in R}
           T == {Before(x) : x \in S}
<1>1. IsWellFoundedOn(StrictSubsetOrdering(S), FiniteSubsetsOf(S))
  BY FS_StrictSubsetOrderingWellFounded
<1>2. T \subseteq FiniteSubsetsOf(S) /\ T # {}
  <2>1. \A x \in S : Before(x) \in SUBSET S /\ IsFiniteSet(Before(x))
    BY FS_Subset
  <2>2. \A x \in S : Before(x) \in FiniteSubsetsOf(S)
    BY <2>1 DEF FiniteSubsetsOf
  <2> HIDE DEF Before
  <2> QED BY <2>2
<1>3. PICK t \in T : \A u \in T : <<u, t>> \notin StrictSubsetOrdering(S)
  <2> HIDE DEF T
  <2> QED BY <1>1, <1>2, WFMin
<1>4. PICK x \in S : t = Before(x)
  OBVIOUS
<1>5. SUFFICES ASSUME NEW y \in S, <<y, x>> \in R PROVE FALSE
  OBVIOUS
<1>6. Before(y) \subseteq Before(x) /\ Before(y) # Before(x)
  BY <1>5
<1>7. Before(y) \in T /\ Before(y) \in SUBSET S /\ Before(x) \in SUBSET S
  BY <1>5
<1> HIDE DEF Before, T
<1>8. <<Before(y), Before(x)>> \in StrictSubsetOrdering(S)
  BY <1>6, <1>7 DEF StrictSubsetOrdering
<1> QED BY <1>3, <1>4, <1>7, <1>8

(* The order of the pages is a strict total order of the events.           *)
LEMMA NewerOrder ==
    ASSUME at \in [Ids -> Nat]
    PROVE  /\ \A i \in Ids : ~Newer(i, i)
           /\ \A i, j, k \in Ids : Newer(i, j) /\ Newer(j, k) => Newer(i, k)
           /\ \A i, j \in Ids : i = j \/ Newer(i, j) \/ Newer(j, i)
<1> USE TrailAssumption DEF Newer
<1>1. \A i \in Ids : i \in Int /\ at[i] \in Int
  OBVIOUS
<1> QED BY <1>1

(* Some rows have a newest and an oldest one.                              *)
LEMMA Ends ==
    ASSUME at \in [Ids -> Nat], NEW S \in SUBSET Ids, IsFiniteSet(S), S # {}
    PROVE  /\ \E x \in S : \A y \in S : ~Newer(y, x)
           /\ \E x \in S : \A y \in S : x = y \/ Newer(y, x)
<1>1. /\ \A i \in S : ~Newer(i, i)
      /\ \A i, j, k \in S : Newer(i, j) /\ Newer(j, k) => Newer(i, k)
      /\ \A i, j \in S : i = j \/ Newer(i, j) \/ Newer(j, i)
  BY NewerOrder
<1> DEFINE R == {p \in S \X S : Newer(p[1], p[2])}
           Q == {p \in S \X S : Newer(p[2], p[1])}
<1>2. \A x, y \in S : (<<x, y>> \in R <=> Newer(x, y)) /\ (<<x, y>> \in Q <=> Newer(y, x))
  OBVIOUS
<1> HIDE DEF R, Q
<1>3. /\ \A x \in S : <<x, x>> \notin R
      /\ \A x, y, z \in S : <<x, y>> \in R /\ <<y, z>> \in R => <<x, z>> \in R
  BY <1>1, <1>2
<1>4. /\ \A x \in S : <<x, x>> \notin Q
      /\ \A x, y, z \in S : <<x, y>> \in Q /\ <<y, z>> \in Q => <<x, z>> \in Q
  BY <1>1, <1>2
<1>5. \E x \in S : \A y \in S : <<y, x>> \notin R
  BY <1>3, HasLeast
<1>6. \E x \in S : \A y \in S : <<y, x>> \notin Q
  BY <1>4, HasLeast
<1>7. \A x, y \in S : <<y, x>> \notin R <=> ~Newer(y, x)
  BY <1>2
<1>8. \A x, y \in S : <<y, x>> \notin Q => x = y \/ Newer(y, x)
  BY <1>1, <1>2
<1> QED BY <1>5, <1>6, <1>7, <1>8

(* A page is the newer part of what was found: whatever is not on it is    *)
(* older than all that is.                                                 *)
LEMMA PageIsPrefix ==
    ASSUME at \in [Ids -> Nat], NEW S \in SUBSET Ids, IsFiniteSet(S), NEW n \in Nat,
           NEW i \in S, i \notin Newest(S, n), NEW j \in Newest(S, n)
    PROVE  Newer(j, i)
<1> DEFINE Above(k) == {x \in S : Newer(x, k)}
<1>1. j \in S /\ Cardinality(Above(j)) < n /\ ~(Cardinality(Above(i)) < n)
  BY DEF Newest
<1>2. \A k \in S : IsFiniteSet(Above(k)) /\ Cardinality(Above(k)) \in Nat
  BY FS_Subset, FS_CardinalityType
<1>3. ASSUME Newer(i, j) PROVE FALSE
  <2>1. Above(i) \in SUBSET Above(j)
    BY <1>1, <1>3, NewerOrder
  <2>2. Cardinality(Above(i)) <= Cardinality(Above(j))
    BY <1>1, <1>2, <2>1, FS_Subset
  <2> QED BY <1>1, <1>2, <2>2
<1> QED BY <1>1, <1>3, NewerOrder

(* When there is no extra row the page holds all that was found, and when  *)
(* there is one the page is not empty and has a last row.                  *)
LEMMA PageIsWhole ==
    ASSUME at \in [Ids -> Nat], NEW S \in SUBSET Ids, IsFiniteSet(S)
    PROVE  /\ ~HasMore(S) => Newest(S, Limit) = S
           /\ HasMore(S) => LET c == NextCursor(Newest(S, Limit)) IN
                 /\ c \in Newest(S, Limit)
                 /\ \A j \in Newest(S, Limit) : c = j \/ Newer(j, c)
<1> DEFINE Above(k) == {x \in S : Newer(x, k)}
           N == Newest(S, Limit + 1)
           P == Newest(S, Limit)
<1>0. Limit \in Nat \ {0}
  BY TrailAssumption
<1>1. \A k \in S : IsFiniteSet(Above(k)) /\ Cardinality(Above(k)) \in Nat
  BY FS_Subset, FS_CardinalityType
<1>2. /\ N \in SUBSET S /\ IsFiniteSet(N) /\ Cardinality(N) \in Nat
      /\ P \in SUBSET S /\ IsFiniteSet(P)
  BY FS_Subset, FS_CardinalityType DEF Newest
<1>3. ASSUME ~HasMore(S) PROVE P = S
  <2>0. Cardinality(N) <= Limit
    BY <1>0, <1>2, <1>3 DEF HasMore
  <2>1. N = S
    <3> SUFFICES ASSUME S \ N # {} PROVE FALSE
      BY <1>2
    <3>1. S \ N \in SUBSET Ids /\ IsFiniteSet(S \ N)
      BY FS_Subset
    <3>2. PICK x \in S \ N : \A y \in S \ N : ~Newer(y, x)
      BY <3>1, Ends
    <3>3. Above(x) \in SUBSET N
      BY <3>2
    <3>4. Cardinality(Above(x)) <= Cardinality(N)
      BY <1>2, <3>3, FS_Subset
    <3>5. Cardinality(Above(x)) < Limit + 1
      <4>1. Cardinality(Above(x)) \in Nat
        BY <1>1, <3>2
      <4> HIDE DEF Above, N
      <4> QED BY <1>0, <1>2, <2>0, <3>4, <4>1
    <3> QED BY <3>2, <3>5 DEF Newest
  <2>2. ASSUME NEW i \in S PROVE Cardinality(Above(i)) < Limit
    <3>1. Above(i) \in SUBSET (S \ {i})
      BY NewerOrder
    <3>2. IsFiniteSet(S \ {i}) /\ Cardinality(S \ {i}) = Cardinality(S) - 1
      BY FS_RemoveElement
    <3>3. Cardinality(Above(i)) <= Cardinality(S \ {i})
      BY <3>1, <3>2, FS_Subset
    <3>4. Cardinality(Above(i)) \in Nat
      BY <1>1
    <3> HIDE DEF Above, N
    <3> QED BY <1>0, <1>2, <2>0, <2>1, <3>2, <3>3, <3>4
  <2> QED BY <2>2 DEF Newest
<1>4. ASSUME HasMore(S) PROVE P # {}
  <2>1. S # {}
    BY <1>0, <1>2, <1>4, FS_EmptySet DEF HasMore
  <2>2. PICK x \in S : \A y \in S : ~Newer(y, x)
    BY <2>1, Ends
  <2>3. Above(x) = {}
    BY <2>2
  <2>4. Cardinality(Above(x)) = 0
    BY <2>3, FS_EmptySet
  <2> QED BY <1>0, <2>2, <2>4 DEF Newest
<1>5. ASSUME HasMore(S)
      PROVE  /\ NextCursor(P) \in P
             /\ \A j \in P : NextCursor(P) = j \/ Newer(j, NextCursor(P))
  <2>1. \E i \in P : \A j \in P : i = j \/ Newer(j, i)
    BY <1>2, <1>4, <1>5, Ends
  <2> QED BY <2>1 DEF NextCursor
<1> QED BY <1>3, <1>5

(* The cursor of a page is a lower bound of what it returned, and the rows *)
(* below it are those older than it.                                       *)
LEMMA BelowIsOlder ==
    ASSUME TrailTypeOK, NEW c \in Ids \cup {None}
    PROVE  Below(c) = {i \in rows \cap Ours : c = None \/ Newer(c, i)}
<1> USE TrailAssumption DEF TrailTypeOK
<1>1. ASSUME NEW i \in rows, c # None
      PROVE  (at[i] <= at[c] /\ (at[i] < at[c] \/ i < c)) <=> Newer(c, i)
  <2>1. i \in Nat /\ c \in Nat /\ at[i] \in Nat /\ at[c] \in Nat
    BY <1>1
  <2> QED BY <2>1 DEF Newer
<1> QED BY <1>1 DEF Below

LEMMA TrailInitInd == TrailInit => TrailInv
<1> SUFFICES ASSUME TrailInit PROVE TrailInv
  OBVIOUS
<1> USE TrailAssumption DEF TrailInit, NoWalk
<1>1. TrailTypeOK
  BY FS_EmptySet DEF TrailTypeOK, Stages, Walks
<1>2. RowsAreDone /\ WindowClock
  BY DEF RowsAreDone, WindowClock, YetToSweep
<1>3. CursorSplits
  BY DEF CursorSplits
<1> QED BY <1>1, <1>2, <1>3 DEF TrailInv

(* An event gets its timestamp, and its emission ends: what is committed   *)
(* then is a recent event the walk has not seen.                           *)
LEMMA EmitInd ==
    ASSUME TrailInv, NEW i \in Ids, Stamp(i) \/ Persist(i) \/ Commit(i) \/ Rollback(i)
    PROVE  TrailInv'
<1> USE TrailAssumption
<1>1. /\ UNCHANGED <<now, walk, process>>
      /\ \E s \in Stages \ {"none"} : stage' = [stage EXCEPT ![i] = s]
      /\ stage[i] # "done"
      /\ \/ stage[i] = "none" /\ at' = [at EXCEPT ![i] = now] /\ UNCHANGED <<rows, kept>>
         \/ /\ stage[i] \in {"stamped", "open"} /\ UNCHANGED at /\ stage'[i] = "done"
            /\ \/ UNCHANGED <<rows, kept>>
               \/ rows' = rows \cup {i} /\ kept' = kept \cup {i}
  BY DEF TrailInv, TrailTypeOK, Stamp, Persist, Commit, Rollback, Reaches, Stages
<1>2. i \notin kept /\ i \notin rows /\ i \notin walk.began
  BY <1>1 DEF TrailInv, RowsAreDone, CursorSplits
<1>3. TrailTypeOK'
  <2>1. stage' \in [Ids -> Stages] /\ at' \in [Ids -> Nat]
    BY <1>1 DEF TrailInv, TrailTypeOK
  <2>2. rows' \subseteq Ids /\ kept' \subseteq Ids
    BY <1>1 DEF TrailInv, TrailTypeOK
  <2>3. IsFiniteSet(rows')
    BY <1>1, FS_AddElement DEF TrailInv, TrailTypeOK
  <2> QED BY <1>1, <2>1, <2>2, <2>3 DEF TrailInv, TrailTypeOK, process
<1>4. \A j \in Ids \ {i} : at'[j] = at[j] /\ stage'[j] = stage[j]
  BY <1>1 DEF TrailInv, TrailTypeOK
<1>5. RowsAreDone'
  <2>1. rows' \subseteq kept' /\ \A j \in kept' : stage'[j] = "done"
    <3>0. kept \subseteq Ids \ {i}
      BY <1>2 DEF TrailInv, TrailTypeOK
    <3>1. kept' = kept \/ (kept' = kept \cup {i} /\ stage'[i] = "done")
      BY <1>1
    <3>2. rows' \subseteq kept'
      BY <1>1 DEF TrailInv, RowsAreDone
    <3> QED BY <1>4, <3>0, <3>1, <3>2 DEF TrailInv, RowsAreDone
  <2>2. at'[i] <= now /\ (stage'[i] \in {"stamped", "open"} => now - at'[i] <= MaxLag)
    BY <1>1 DEF TrailInv, TrailTypeOK, RowsAreDone
  <2> QED BY <1>1, <1>4, <2>1, <2>2 DEF TrailInv, RowsAreDone
<1>6. WindowClock'
  <2>1. ASSUME kept' = kept, rows' = rows PROVE WindowClock'
    BY <1>1, <1>2, <1>4, <2>1
       DEF TrailInv, TrailTypeOK, WindowClock, YetToSweep, AgesBounded, process
  <2>2. ASSUME stage[i] \in {"stamped", "open"}, at' = at, rows' = rows \cup {i}, kept' = kept \cup {i}
        PROVE  WindowClock'
    <3>1. due <= Period => now - at[i] <= Retention + (failed + 1) * Period - due
      <4>1. /\ now - at[i] <= MaxLag /\ MaxLag <= Retention
            /\ due \in Nat /\ failed \in Nat /\ now \in Nat /\ at[i] \in Nat
        BY <2>2 DEF TrailInv, TrailTypeOK, RowsAreDone
      <4>2. (failed + 1) * Period = failed * Period + Period /\ failed * Period >= 0
        BY <4>1
      <4> QED BY <4>1, <4>2
    <3>2. UNCHANGED <<now, alive, due, uptime, failed>>
      BY <1>1 DEF process
    <3> QED BY <2>2, <3>1, <3>2
            DEF TrailInv, TrailTypeOK, WindowClock, YetToSweep, AgesBounded
  <2> QED BY <1>1, <2>1, <2>2
<1>7. CursorSplits'
  <2>1. \A j, k \in Ids \ {i} : Newer(j, k)' <=> Newer(j, k)
    BY <1>4 DEF Newer
  <2>2. kept \subseteq kept' /\ rows' \subseteq rows \cup {i}
    BY <1>1
  <2>3. /\ walk.began \subseteq Ids \ {i} /\ walk.after \in (Ids \ {i}) \cup {None}
        /\ \A j \in Ids : walk.got[j] = 1 => j # i
    BY <1>2 DEF TrailInv, TrailTypeOK, CursorSplits
  <2>4. walk.began \cap rows' \subseteq walk.began \cap rows
    BY <1>2, <2>2
  <2> HIDE DEF Newer
  <2> QED BY <1>1, <2>1, <2>2, <2>3, <2>4 DEF TrailInv, CursorSplits
<1> QED BY <1>3, <1>5, <1>6, <1>7 DEF TrailInv

(* A page returns rows below the cursor only, so none twice, and moves the *)
(* cursor to its last row, so that what it left out is still to come.      *)
LEMMA PageInd ==
    ASSUME TrailInv, Page
    PROVE  TrailInv'
<1> DEFINE found == Below(walk.after)
           page == Newest(found, Limit)
           c == walk.after
<1> HIDE DEF Newer
<1>0. /\ TrailTypeOK /\ at \in [Ids -> Nat] /\ walk \in Walks /\ Limit \in Nat
      /\ c \in Ids \cup {None} /\ None \notin Ids
  BY TrailAssumption DEF TrailInv, TrailTypeOK, Walks, None
<1>1. found = {i \in rows \cap Ours : c = None \/ Newer(c, i)}
  BY <1>0, BelowIsOlder
<1>2. /\ found \in SUBSET Ids /\ found \subseteq rows \cap Ours /\ IsFiniteSet(found)
      /\ page \subseteq found
  BY <1>0, <1>1, FS_Subset DEF TrailTypeOK, Newest
<1>3. /\ ~walk.over
      /\ walk' = [walk EXCEPT !.over = ~HasMore(found),
                              !.after = IF HasMore(found) THEN NextCursor(page) ELSE walk.after,
                              !.got = [i \in Ids |-> IF i \in page THEN walk.got[i] + 1 ELSE walk.got[i]]]
      /\ UNCHANGED <<now, stage, at, rows, kept, process>>
  BY DEF Page
<1> HIDE DEF found
<1>4. HasMore(found) => /\ NextCursor(page) \in page
                        /\ \A j \in page : NextCursor(page) = j \/ Newer(j, NextCursor(page))
  BY <1>0, <1>2, PageIsWhole
<1>5. ~HasMore(found) => page = found
  BY <1>0, <1>2, PageIsWhole
<1>6. \A i \in found \ page, j \in page : Newer(j, i)
  BY <1>0, <1>2, PageIsPrefix
<1> HIDE DEF page
<1>7. /\ walk'.on = walk.on /\ walk'.began = walk.began
      /\ walk'.over = ~HasMore(found)
      /\ walk'.after = IF HasMore(found) THEN NextCursor(page) ELSE walk.after
      /\ walk'.got = [i \in Ids |-> IF i \in page THEN walk.got[i] + 1 ELSE walk.got[i]]
  BY <1>0, <1>3 DEF Walks
<1>8. TrailTypeOK'
  <2>1. walk'.after \in Ids \cup {None} /\ walk'.got \in [Ids -> Nat]
    BY <1>0, <1>2, <1>4, <1>7 DEF Walks
  <2>2. walk'.over \in BOOLEAN
    BY <1>7 DEF HasMore
  <2>3. walk' = [walk EXCEPT !.over = walk'.over, !.after = walk'.after, !.got = walk'.got]
    BY <1>3, <1>7
  <2>4. walk' \in Walks
    BY <1>0, <2>1, <2>2, <2>3 DEF Walks
  <2> QED BY <1>0, <1>3, <2>4 DEF TrailTypeOK, process
<1>9. RowsAreDone' /\ WindowClock'
  BY <1>3 DEF TrailInv, RowsAreDone, WindowClock, YetToSweep, AgesBounded, process
<1>10. CursorSplits'
  <2>1. ASSUME NEW i \in page PROVE walk.got[i] = 0 /\ i \in Ours \cap kept
    BY <1>0, <1>1, <1>2, <1>3, <2>1, NewerOrder DEF TrailInv, RowsAreDone, CursorSplits, Walks
  <2>2. ASSUME NEW i \in Ids PROVE walk'.got[i] = IF i \in page THEN 1 ELSE walk.got[i]
    BY <1>7, <2>1
  <2>3. /\ walk'.began \subseteq kept' \cap Ours
        /\ walk'.after \in kept' \cup {None}
        /\ \A i \in Ids : walk'.got[i] <= 1
    BY <1>2, <1>3, <1>4, <1>7, <2>2 DEF TrailInv, RowsAreDone, CursorSplits
  <2>4. ASSUME NEW i \in Ids, walk'.got[i] = 1
        PROVE  /\ i \in Ours \cap kept'
               /\ ~walk'.over => walk'.after # None /\ (i = walk'.after \/ Newer(i, walk.after)')
    <3>1. i \in Ours \cap kept'
      BY <1>3, <2>1, <2>2, <2>4 DEF TrailInv, CursorSplits
    <3>2. ASSUME HasMore(found)
          PROVE  walk'.after # None /\ (i = walk'.after \/ Newer(i, walk'.after))
      <4>1. walk'.after \in page /\ walk'.after \in Ids
        BY <1>2, <1>4, <1>7, <3>2
      <4>2. CASE i \in page
        BY <1>0, <1>4, <1>7, <3>2, <4>1, <4>2
      <4>3. CASE i \notin page
        <5>1. c # None /\ (i = c \/ Newer(i, c))
          BY <1>3, <2>2, <2>4, <4>3 DEF TrailInv, CursorSplits
        <5>2. Newer(c, walk'.after)
          BY <1>1, <1>2, <4>1, <5>1
        <5> QED BY <1>0, <4>1, <5>1, <5>2, NewerOrder
      <4> QED BY <4>2, <4>3
    <3>3. Newer(i, walk.after)' <=> Newer(i, walk'.after)
      BY <1>3 DEF Newer
    <3> QED BY <1>7, <3>1, <3>2, <3>3
  <2>5. ASSUME NEW i \in walk.began \cap rows, walk'.got[i] # 1
        PROVE  HasMore(found) /\ Newer(walk'.after, i)
    <3>1. i \in Ids /\ i \in Ours /\ i \notin page
      BY <1>0, <2>2, <2>5 DEF TrailTypeOK, TrailInv, CursorSplits
    <3>2. i \in found
      BY <1>1, <1>3, <2>2, <2>5, <3>1 DEF TrailInv, CursorSplits
    <3> QED BY <1>4, <1>5, <1>6, <1>7, <3>1, <3>2
  <2>6. ASSUME NEW i \in walk'.began \cap rows', walk'.got[i] # 1
        PROVE  ~walk'.over /\ Newer(walk.after, i)'
    <3>1. HasMore(found) /\ Newer(walk'.after, i)
      BY <1>3, <1>7, <2>5, <2>6
    <3>2. Newer(walk.after, i)' <=> Newer(walk'.after, i)
      BY <1>3 DEF Newer
    <3> QED BY <1>7, <3>1, <3>2
  <2> QED BY <2>3, <2>4, <2>6 DEF CursorSplits
<1> QED BY <1>8, <1>9, <1>10 DEF TrailInv

(* A new walk starts above all rows.                                       *)
LEMMA WalkInd ==
    ASSUME TrailInv, StartWalk \/ EndWalk
    PROVE  TrailInv'
<1>1. UNCHANGED <<now, stage, at, rows, kept, process>>
  BY DEF StartWalk, EndWalk
<1>2. PICK on \in BOOLEAN, began \in SUBSET (rows \cap Ours) :
        walk' = [on |-> on, over |-> FALSE, after |-> None, got |-> [i \in Ids |-> 0], began |-> began]
  BY DEF StartWalk, EndWalk, NoWalk
<1>3. /\ walk'.on = on /\ ~walk'.over /\ walk'.after = None /\ walk'.began = began
      /\ \A i \in Ids : walk'.got[i] = 0
  BY <1>2
<1>4. TrailTypeOK'
  <2>1. walk' \in Walks
    BY <1>2 DEF Walks, TrailInv, TrailTypeOK
  <2> QED BY <1>1, <2>1 DEF TrailInv, TrailTypeOK, process
<1>5. RowsAreDone' /\ WindowClock'
  BY <1>1 DEF TrailInv, RowsAreDone, WindowClock, YetToSweep, AgesBounded, process
<1>6. CursorSplits'
  BY <1>1, <1>3 DEF TrailInv, RowsAreDone, CursorSplits
<1> QED BY <1>4, <1>5, <1>6 DEF TrailInv

(* A sweep deletes what is past the window and nothing else; one that      *)
(* fails leaves its rows for the next.                                     *)
LEMMA PurgeInd ==
    ASSUME TrailInv, Purge
    PROVE  TrailInv'
<1> USE TrailAssumption
<1>1. /\ UNCHANGED <<now, stage, at, walk, kept, alive, uptime>>
      /\ alive /\ due = 0 /\ due' = Period
      /\ \/ rows' = {i \in rows : ~Expired(i)} /\ failed' = 0
         \/ UNCHANGED rows /\ failed' = failed + 1
  BY DEF Purge
<1>2. rows' \subseteq rows
  BY <1>1
<1>3. TrailTypeOK'
  BY <1>1, <1>2, FS_Subset DEF TrailInv, TrailTypeOK
<1>4. RowsAreDone'
  BY <1>1, <1>2 DEF TrailInv, RowsAreDone
<1>5. WindowClock'
  <2>1. /\ now \in Nat /\ Retention \in Nat /\ Period \in Nat /\ Delay \in Nat /\ failed \in Nat
        /\ \A i \in Ids : at[i] \in Nat
        /\ rows \subseteq Ids /\ kept \subseteq Ids
    BY DEF TrailInv, TrailTypeOK
  <2>2. CASE rows' = {i \in rows : ~Expired(i)} /\ failed' = 0
    <3>1. (failed' + 1) * Period = Period
      BY <2>1, <2>2
    <3>2. \A i \in Ids : Expired(i) <=> ~(now - at[i] <= Retention)
      BY <2>1 DEF Expired
    <3>3. AgesBounded'
      BY <1>1, <2>1, <2>2, <3>1, <3>2 DEF AgesBounded
    <3> QED BY <1>1, <2>1, <2>2, <3>2, <3>3 DEF TrailInv, WindowClock
  <2>3. CASE UNCHANGED rows /\ failed' = failed + 1
    <3>1. /\ (failed' + 1) * Period = (failed + 1) * Period + Period
          /\ failed' * Period = failed * Period + Period
      BY <2>1, <2>3
    <3>2. YetToSweep => YetToSweep'
      BY <1>1, <2>1, <3>1 DEF YetToSweep
    <3>3. AgesBounded => AgesBounded'
      BY <1>1, <2>1, <2>3, <3>1 DEF AgesBounded
    <3> QED BY <1>1, <2>1, <2>3, <3>2, <3>3 DEF TrailInv, WindowClock
  <2> QED BY <1>1, <2>2, <2>3
<1>6. CursorSplits'
  BY <1>1, <1>2 DEF TrailInv, CursorSplits, Newer
<1> QED BY <1>3, <1>4, <1>5, <1>6 DEF TrailInv

(* A process that dies ends every emission, and one that comes back is a   *)
(* whole delay away from its first sweep.                                  *)
LEMMA ProcessInd ==
    ASSUME TrailInv, Crash \/ Boot
    PROVE  TrailInv'
<1> USE TrailAssumption
<1>1. /\ UNCHANGED <<now, at, rows, walk, kept>>
      /\ \/ /\ alive' = FALSE /\ due' = 0 /\ uptime' = 0 /\ failed' = 0
            /\ stage' = [i \in Ids |-> IF stage[i] = "none" THEN "none" ELSE "done"]
         \/ /\ alive' = TRUE /\ due' = Delay /\ UNCHANGED <<stage, uptime, failed>>
            /\ ~alive
  BY DEF Crash, Boot, Comes
<1>2. TrailTypeOK'
  <2>1. stage' \in [Ids -> Stages]
    BY <1>1 DEF TrailInv, TrailTypeOK, Stages
  <2>2. alive' \in BOOLEAN
    BY <1>1, Zenon
  <2>3. due' \in Nat /\ uptime' \in Nat /\ failed' \in Nat
    BY <1>1 DEF TrailInv, TrailTypeOK
  <2> QED BY <1>1, <2>1, <2>2, <2>3 DEF TrailInv, TrailTypeOK
<1>3. RowsAreDone'
  BY <1>1 DEF TrailInv, TrailTypeOK, RowsAreDone
<1>4. WindowClock'
  <2>1. /\ UNCHANGED <<now, at, rows, kept>>
        /\ \/ alive' = FALSE /\ uptime' = 0 /\ failed' = 0
           \/ alive' = TRUE /\ due' = Delay /\ uptime' = 0 /\ failed' = 0
    BY <1>1 DEF TrailInv, WindowClock
  <2> QED BY <2>1 DEF TrailInv, WindowClock, YetToSweep
<1>5. CursorSplits'
  BY <1>1 DEF TrailInv, CursorSplits, Newer
<1> QED BY <1>2, <1>3, <1>4, <1>5 DEF TrailInv

(* A tick brings the next sweep as much nearer as it makes every row, and  *)
(* the process, older; while the process is down the rows only age.        *)
LEMMA ClockInd ==
    ASSUME TrailInv, Elapse
    PROVE  TrailInv'
<1> USE TrailAssumption
<1>1. /\ UNCHANGED <<stage, at, rows, walk, kept, alive, failed>> /\ now' = now + 1
      /\ \A i \in Ids : stage[i] \in {"stamped", "open"} => now - at[i] < MaxLag
      /\ \/ alive /\ due > 0 /\ due' = due - 1 /\ uptime' = uptime + 1
         \/ ~alive /\ UNCHANGED <<due, uptime>>
  BY DEF Elapse
<1>2. TrailTypeOK'
  BY <1>1 DEF TrailInv, TrailTypeOK
<1>3. RowsAreDone'
  BY <1>1 DEF TrailInv, TrailTypeOK, RowsAreDone
<1>4. WindowClock'
  <2>1. /\ now \in Nat /\ failed \in Nat /\ due \in Nat /\ uptime \in Nat /\ Delay \in Nat
        /\ (failed + 1) * Period \in Nat /\ failed * Period \in Nat
        /\ \A i \in Ids : at[i] \in Nat
        /\ rows \subseteq Ids /\ kept \subseteq Ids
    BY DEF TrailInv, TrailTypeOK
  <2>2. alive /\ YetToSweep => YetToSweep'
    BY <1>1, <2>1 DEF YetToSweep
  <2>3. alive /\ AgesBounded => AgesBounded'
    BY <1>1, <2>1 DEF AgesBounded
  <2> QED BY <1>1, <2>1, <2>2, <2>3 DEF TrailInv, WindowClock
<1>5. CursorSplits'
  BY <1>1 DEF TrailInv, CursorSplits, Newer
<1> QED BY <1>2, <1>3, <1>4, <1>5 DEF TrailInv

LEMMA TrailNextInd == TrailInv /\ [TrailNext]_trailVars => TrailInv'
<1> SUFFICES ASSUME TrailInv, [TrailNext]_trailVars PROVE TrailInv'
  OBVIOUS
<1>1. CASE UNCHANGED trailVars
  BY <1>1 DEF TrailInv, TrailTypeOK, RowsAreDone, WindowClock, YetToSweep, AgesBounded, CursorSplits, Newer,
             trailVars, process
<1>2. CASE TrailNext
  BY <1>2, EmitInd, PageInd, WalkInd, PurgeInd, ProcessInd, ClockInd DEF TrailNext
<1> QED BY <1>1, <1>2

LEMMA TrailInvariance == TrailSpec => []TrailInv
<1> QED BY TrailInitInd, TrailNextInd, PTL DEF TrailSpec

(* Whatever is committed late, purged or written at the same instant, a    *)
(* walk returns nothing twice, nothing of another workspace, and all that  *)
(* was there throughout (auditlog Repository.List).                        *)
THEOREM PagesExact == TrailSpec => []PagesAreExact
<1>1. TrailInv => PagesAreExact
  BY DEF TrailInv, CursorSplits, PagesAreExact
<1> QED BY <1>1, TrailInvariance, PTL

(* For every retention, interval and startup delay, and however long the   *)
(* installation was down: a committed event stays for the whole window,    *)
(* and once the process is past its first sweep no row outlives it by more *)
(* than the sweeps that failed and one interval (auditlog Service.Purge,   *)
(* server StartAuditRetention).                                            *)
THEOREM WindowKept == TrailSpec => []WindowIsKept
<1>1. TrailInv => WindowIsKept
  <2> SUFFICES ASSUME TrailInv, alive, uptime > Delay + failed * Period, NEW i \in rows
               PROVE  now - at[i] <= Retention + (failed + 1) * Period
    BY DEF TrailInv, WindowClock, WindowIsKept
  <2>1. /\ now \in Nat /\ at[i] \in Nat /\ due \in Nat /\ (failed + 1) * Period \in Nat
        /\ uptime \in Nat /\ Delay \in Nat /\ failed * Period \in Nat /\ Retention \in Nat
    BY TrailAssumption DEF TrailInv, TrailTypeOK
  <2>2. AgesBounded
    BY <2>1 DEF TrailInv, WindowClock, YetToSweep
  <2> QED BY <2>1, <2>2 DEF AgesBounded
<1> QED BY <1>1, TrailInvariance, PTL

-----------------------------------------------------------------------------
(***************************************************************************)
(* Installation, for any keyrings an operator configures.                  *)
(*                                                                         *)
(* A run holds what it has read of .env until it writes it back: the       *)
(* operator's values are in the file or in the hand of the run             *)
(* (ReadBeforeEmptied), and the files a regen has written so far agree with *)
(* each other as long as nobody edits them under it (EnvAsWritten).        *)
(***************************************************************************)

Secrets == {"", DefaultSecret, "own"}

Files == [file : {"absent", "torn", "whole"}, owned : Owned, dburl : {"", "postgres", "own"},
          adminId : BOOLEAN, secret : Secrets]

Runs == [by : {"none", "init", "regen", "sh"},
         pc : {"idle", "prompt", "generate", "truncate", "env", "example", "export", "setKeyring",
               "setPassword", "setUrl", "setAdminId", "setAdminSecret"},
         managed : BOOLEAN, secret : Secrets, kept : Owned, alone : BOOLEAN]

InstallTypeOK ==
    /\ managed \in BOOLEAN /\ env \in Files /\ example \in Files
    /\ export \in [managed : BOOLEAN, secret : Secrets]
    /\ run \in Runs /\ mine \in Owned
    /\ lost \in BOOLEAN /\ settled \in BOOLEAN

\* Without a file there is nothing an operator has configured.
NothingInNoFile == env.file = "absent" => mine = NoOwned

\* What a run has read is what it is about to truncate, unless it was edited meanwhile.
ReadBeforeEmptied == run.pc = "truncate" /\ ~lost => run.kept = env.owned

\* A regen has a secret to write: only the prompts of init leave it empty.
RegenHasSecret ==
    /\ run.pc = "prompt" => run.by = "init"
    /\ run.by = "regen" => run.secret # ""

\* Between the two files it generates, a run nobody disturbed finds .env as it wrote it.
EnvAsWritten ==
    run.by = "regen" /\ run.pc \in {"example", "export"} /\ run.alone
        => env = Generated(run.managed, run.secret, run.kept)

InstallInv ==
    /\ InstallTypeOK /\ NothingInNoFile /\ ReadBeforeEmptied /\ RegenHasSecret /\ EnvAsWritten
    /\ OperatorValuesSurvive /\ RegenAgrees

-----------------------------------------------------------------------------
LEMMA MembershipIsBoolean == ASSUME NEW x, NEW S PROVE (x \in S) \in BOOLEAN
OBVIOUS

(* Preserved.keep never drops a value that .env holds.                     *)
LEMMA KeepOwned ==
    ASSUME NEW found \in Owned
    PROVE  /\ Keep(found) \in Owned
           /\ found.keyring # "" => Keep(found).keyring = found.keyring
           /\ found.password # "" => Keep(found).password = found.password
<1>1. Keep(found) \in Owned
  BY DEF Keep, Owned, Defaults
<1> QED BY <1>1 DEF Keep

(* What the programs write is a file, and what a process is that is not    *)
(* running.                                                                *)
LEMMA WrittenFiles ==
    /\ \A m \in BOOLEAN, secret \in Secrets, found \in Owned : Generated(m, secret, found) \in Files
    /\ \A m \in BOOLEAN, secret \in Secrets :
          Exported(m, secret) \in [managed : BOOLEAN, secret : Secrets]
    /\ NoFile("torn") \in Files /\ NoFile("absent") \in Files
    /\ NoOwned \in Owned /\ Idle \in Runs
<1>1. NoOwned \in Owned
  BY DEF NoOwned, Owned
<1>2. NoFile("torn") \in Files /\ NoFile("absent") \in Files
  BY <1>1 DEF NoFile, Files, Secrets
<1>3. Idle \in Runs
  BY <1>1 DEF Idle, Runs, Secrets
<1>4. ASSUME NEW m \in BOOLEAN, NEW secret \in Secrets, NEW found \in Owned
      PROVE  Generated(m, secret, found) \in Files
  <2>1. Keep(found) \in Owned /\ Keep(found).password \in {"", "postgres", "own"}
    BY KeepOwned DEF Owned
  <2> QED BY <2>1 DEF Generated, Files, Secrets
<1>5. \A m \in BOOLEAN, secret \in Secrets :
        Exported(m, secret) \in [managed : BOOLEAN, secret : Secrets]
  BY DEF Exported, Secrets
<1> QED BY <1>1, <1>2, <1>3, <1>4, <1>5

LEMMA InstallInitInd == InstallInit => InstallInv
<1> SUFFICES ASSUME InstallInit PROVE InstallInv
  OBVIOUS
<1>1. InstallTypeOK
  BY WrittenFiles DEF InstallInit, InstallTypeOK, Secrets
<1>2. NothingInNoFile /\ ReadBeforeEmptied /\ RegenHasSecret /\ EnvAsWritten
  BY DEF InstallInit, NothingInNoFile, ReadBeforeEmptied, RegenHasSecret, EnvAsWritten, Idle
<1>3. OperatorValuesSurvive /\ RegenAgrees
  BY DEF InstallInit, OperatorValuesSurvive, RegenAgrees, NoOwned
<1> QED BY <1>1, <1>2, <1>3 DEF InstallInv

(* cmd/bootstrap has read the secrets and nothing else.                    *)
LEMMA StartKeeps ==
    ASSUME InstallInv, NEW by \in {"init", "regen"}, StartRun(by)
    PROVE  InstallInv'
<1> USE DEF StartRun, Unsettled
<1>1. InstallTypeOK'
  <2>1. run' \in Runs
    <3>1. LoadSecret(env) \in Secrets
      BY DEF InstallInv, InstallTypeOK, LoadSecret, Files, Secrets
    <3> QED BY <3>1, WrittenFiles DEF InstallInv, InstallTypeOK, Runs, Idle
  <2>2. env' \in Files
    BY WrittenFiles DEF InstallInv, InstallTypeOK, Files
  <2>3. mine' \in Owned
    BY DEF InstallInv, InstallTypeOK
  <2> QED BY <2>1, <2>2, <2>3 DEF InstallInv, InstallTypeOK
<1>2. NothingInNoFile' /\ ReadBeforeEmptied'
  BY DEF InstallInv, InstallTypeOK, NothingInNoFile, ReadBeforeEmptied, Idle, NoFile, Generated, Runs, Files
<1>3. RegenHasSecret' /\ EnvAsWritten'
  BY DEF InstallInv, InstallTypeOK, RegenHasSecret, EnvAsWritten, Idle, LoadSecret, DefaultSecret
<1>4. OperatorValuesSurvive'
  BY DEF InstallInv, InstallTypeOK, OperatorValuesSurvive, InHand, Idle, Runs, Files, Owned
<1>5. RegenAgrees'
  BY DEF RegenAgrees
<1> QED BY <1>1, <1>2, <1>3, <1>4, <1>5 DEF InstallInv

(* The prompts leave one secret empty, in an init only.                    *)
LEMMA PromptKeeps ==
    ASSUME InstallInv, Prompt
    PROVE  InstallInv'
<1> USE DEF Prompt, Unsettled
<1>1. InstallTypeOK'
  <2>1. run' \in Runs
    BY DEF InstallInv, InstallTypeOK, Runs, Secrets
  <2>2. env' \in Files
    BY WrittenFiles DEF InstallInv, InstallTypeOK, Files
  <2>3. mine' \in Owned
    BY DEF InstallInv, InstallTypeOK
  <2> QED BY <2>1, <2>2, <2>3 DEF InstallInv, InstallTypeOK, Runs
<1>2. NothingInNoFile' /\ ReadBeforeEmptied'
  BY DEF InstallInv, InstallTypeOK, NothingInNoFile, ReadBeforeEmptied, Idle, NoFile, Generated, Runs, Files
<1>3. RegenHasSecret' /\ EnvAsWritten'
  BY DEF InstallInv, InstallTypeOK, RegenHasSecret, EnvAsWritten, Idle, Runs
<1>4. OperatorValuesSurvive'
  BY DEF InstallInv, InstallTypeOK, OperatorValuesSurvive, InHand, Idle, Runs, Files, Owned
<1>5. RegenAgrees'
  BY DEF RegenAgrees
<1> QED BY <1>1, <1>2, <1>3, <1>4, <1>5 DEF InstallInv

(* What is read is what is there.                                          *)
LEMMA LoadPreservedKeeps ==
    ASSUME InstallInv, LoadPreserved
    PROVE  InstallInv'
<1> USE DEF LoadPreserved, Unsettled
<1>1. InstallTypeOK'
  <2>1. run' \in Runs
    BY DEF InstallInv, InstallTypeOK, Runs, Files
  <2>2. env' \in Files
    BY WrittenFiles DEF InstallInv, InstallTypeOK, Files
  <2>3. mine' \in Owned
    BY DEF InstallInv, InstallTypeOK
  <2> QED BY <2>1, <2>2, <2>3 DEF InstallInv, InstallTypeOK
<1>2. NothingInNoFile' /\ ReadBeforeEmptied'
  BY DEF InstallInv, InstallTypeOK, NothingInNoFile, ReadBeforeEmptied, Idle, NoFile, Generated, Runs, Files
<1>3. RegenHasSecret' /\ EnvAsWritten'
  BY DEF InstallInv, InstallTypeOK, RegenHasSecret, EnvAsWritten, Idle, Runs
<1>4. OperatorValuesSurvive'
  BY DEF InstallInv, InstallTypeOK, OperatorValuesSurvive, InHand, Idle, Runs, Files, Owned
<1>5. RegenAgrees'
  BY DEF RegenAgrees
<1> QED BY <1>1, <1>2, <1>3, <1>4, <1>5 DEF InstallInv

(* The emptied file is in the hands of the run that emptied it.            *)
LEMMA TruncateEnvKeeps ==
    ASSUME InstallInv, TruncateEnv
    PROVE  InstallInv'
<1> USE DEF TruncateEnv, Unsettled
<1>1. InstallTypeOK'
  <2>1. run' \in Runs
    BY WrittenFiles DEF InstallInv, InstallTypeOK, Runs
  <2>2. env' \in Files
    BY WrittenFiles DEF InstallInv, InstallTypeOK, Files
  <2>3. mine' \in Owned
    BY DEF InstallInv, InstallTypeOK
  <2> QED BY <2>1, <2>2, <2>3 DEF InstallInv, InstallTypeOK
<1>2. NothingInNoFile' /\ ReadBeforeEmptied'
  BY DEF InstallInv, InstallTypeOK, NothingInNoFile, ReadBeforeEmptied, Idle, NoFile, Generated, Runs, Files
<1>3. RegenHasSecret' /\ EnvAsWritten'
  BY DEF InstallInv, InstallTypeOK, RegenHasSecret, EnvAsWritten, Idle, Runs
<1>4. OperatorValuesSurvive'
  BY DEF InstallInv, InstallTypeOK, ReadBeforeEmptied, OperatorValuesSurvive, InHand, Runs, Files
<1>5. RegenAgrees'
  BY DEF RegenAgrees
<1> QED BY <1>1, <1>2, <1>3, <1>4, <1>5 DEF InstallInv

(* What the run kept comes back.                                           *)
LEMMA WriteEnvKeeps ==
    ASSUME InstallInv, WriteEnv
    PROVE  InstallInv'
<1> USE DEF WriteEnv, Unsettled
<1>1. InstallTypeOK'
  <2>1. run' \in Runs
    BY WrittenFiles DEF InstallInv, InstallTypeOK, Runs
  <2>2. env' \in Files
    BY WrittenFiles DEF InstallInv, InstallTypeOK, Runs
  <2>3. mine' \in Owned
    BY DEF InstallInv, InstallTypeOK
  <2> QED BY <2>1, <2>2, <2>3 DEF InstallInv, InstallTypeOK
<1>2. NothingInNoFile' /\ ReadBeforeEmptied'
  BY DEF InstallInv, InstallTypeOK, NothingInNoFile, ReadBeforeEmptied, Idle, NoFile, Generated, Runs, Files
<1>3. RegenHasSecret' /\ EnvAsWritten'
  BY DEF InstallInv, InstallTypeOK, RegenHasSecret, EnvAsWritten, Idle, Runs
<1>4. OperatorValuesSurvive'
  <2>1. /\ env'.owned = Keep(run.kept) /\ run.kept \in Owned /\ run'.pc = "example"
    BY DEF InstallInv, InstallTypeOK, Generated, Runs
  <2> QED BY <2>1, KeepOwned DEF InstallInv, OperatorValuesSurvive, InHand
<1>5. RegenAgrees'
  BY DEF RegenAgrees
<1> QED BY <1>1, <1>2, <1>3, <1>4, <1>5 DEF InstallInv

(* Only the example changes.                                               *)
LEMMA WriteExampleKeeps ==
    ASSUME InstallInv, WriteExample
    PROVE  InstallInv'
<1> USE DEF WriteExample, Unsettled
<1>1. InstallTypeOK'
  <2>1. run' \in Runs
    BY WrittenFiles DEF InstallInv, InstallTypeOK, Runs
  <2>2. env' \in Files
    BY WrittenFiles DEF InstallInv, InstallTypeOK, Files
  <2>3. mine' \in Owned
    BY DEF InstallInv, InstallTypeOK
  <2>4. example' \in Files
    BY WrittenFiles DEF InstallInv, InstallTypeOK, Runs, Secrets
  <2> QED BY <2>1, <2>2, <2>3, <2>4 DEF InstallInv, InstallTypeOK
<1>2. NothingInNoFile' /\ ReadBeforeEmptied'
  BY DEF InstallInv, InstallTypeOK, NothingInNoFile, ReadBeforeEmptied, Idle, NoFile, Generated, Runs, Files
<1>3. RegenHasSecret' /\ EnvAsWritten'
  BY DEF InstallInv, InstallTypeOK, RegenHasSecret, EnvAsWritten, Idle, Runs
<1>4. OperatorValuesSurvive'
  BY DEF InstallInv, InstallTypeOK, OperatorValuesSurvive, InHand, Idle, Runs, Files, Owned
<1>5. RegenAgrees'
  BY DEF RegenAgrees
<1> QED BY <1>1, <1>2, <1>3, <1>4, <1>5 DEF InstallInv

(* The last file closes the set: it is made of what .env was made of.      *)
LEMMA WriteRealmExportKeeps ==
    ASSUME InstallInv, WriteRealmExport
    PROVE  InstallInv'
<1> USE DEF WriteRealmExport, Unsettled
<1>1. InstallTypeOK'
  <2>1. run' \in Runs
    BY WrittenFiles DEF InstallInv, InstallTypeOK, Runs
  <2>2. env' \in Files
    BY WrittenFiles DEF InstallInv, InstallTypeOK, Files
  <2>3. mine' \in Owned
    BY DEF InstallInv, InstallTypeOK
  <2>4. export' \in [managed : BOOLEAN, secret : Secrets] /\ settled' \in BOOLEAN
    BY WrittenFiles DEF InstallInv, InstallTypeOK, Runs
  <2> QED BY <2>1, <2>2, <2>3, <2>4 DEF InstallInv, InstallTypeOK
<1>2. NothingInNoFile' /\ ReadBeforeEmptied'
  BY DEF InstallInv, InstallTypeOK, NothingInNoFile, ReadBeforeEmptied, Idle, NoFile, Generated, Runs, Files
<1>3. RegenHasSecret' /\ EnvAsWritten'
  BY DEF InstallInv, InstallTypeOK, RegenHasSecret, EnvAsWritten, Idle, Runs
<1>4. OperatorValuesSurvive'
  BY DEF InstallInv, InstallTypeOK, OperatorValuesSurvive, InHand, Idle, Runs, Files, Owned
<1>5. RegenAgrees'
  <2> SUFFICES ASSUME run.by = "regen", run.alone
               PROVE  /\ Paired(env)' /\ export' = [managed |-> env.adminId, secret |-> env.secret]
                      /\ env.dburl = env.owned.password
    BY DEF RegenAgrees
  <2>1. env = Generated(run.managed, run.secret, run.kept) /\ run.secret # ""
    BY DEF InstallInv, EnvAsWritten, RegenHasSecret
  <2>2. run.managed \in BOOLEAN
    BY DEF InstallInv, InstallTypeOK, Runs
  <2> QED BY <2>1, <2>2 DEF Generated, Paired, Exported
<1> QED BY <1>1, <1>2, <1>3, <1>4, <1>5 DEF InstallInv

(* init.sh copies over nothing.                                            *)
LEMMA CopyExampleKeeps ==
    ASSUME InstallInv, CopyExample
    PROVE  InstallInv'
<1> USE DEF CopyExample, Unsettled
<1>1. InstallTypeOK'
  <2>1. run' \in Runs
    BY WrittenFiles DEF InstallInv, InstallTypeOK, Runs, Idle
  <2>2. env' \in Files
    BY DEF InstallInv, InstallTypeOK
  <2>3. mine' \in Owned
    BY DEF InstallInv, InstallTypeOK
  <2> QED BY <2>1, <2>2, <2>3 DEF InstallInv, InstallTypeOK
<1>2. NothingInNoFile' /\ ReadBeforeEmptied'
  BY DEF InstallInv, InstallTypeOK, NothingInNoFile, ReadBeforeEmptied, Idle, NoFile, Generated, Runs, Files
<1>3. RegenHasSecret' /\ EnvAsWritten'
  BY DEF InstallInv, InstallTypeOK, RegenHasSecret, EnvAsWritten, Idle, Runs
<1>4. OperatorValuesSurvive'
  <2>1. mine'.keyring = "" /\ mine'.password = ""
    <3>1. mine = NoOwned /\ mine' = mine
      BY DEF InstallInv, NothingInNoFile
    <3>2. NoOwned.keyring = "" /\ NoOwned.password = ""
      BY DEF NoOwned
    <3> QED BY <3>1, <3>2
  <2> QED BY <2>1 DEF OperatorValuesSurvive
<1>5. RegenAgrees'
  BY DEF RegenAgrees
<1> QED BY <1>1, <1>2, <1>3, <1>4, <1>5 DEF InstallInv

(* The keyring and the password init.sh draws are the operator's from then *)
(* on, if the file has a line for them.                                    *)
LEMMA SetOwnedKeeps ==
    ASSUME InstallInv, SetKeyring \/ SetPassword
    PROVE  InstallInv'
<1>1. PICK next \in {"setPassword", "setUrl"} : run' = [run EXCEPT !.pc = next]
  BY DEF SetKeyring, SetPassword, SetVar
<1>2. /\ env.file # "absent" /\ env'.file = env.file
      /\ UNCHANGED <<managed, example, export, lost>> /\ settled' = FALSE
      /\ run.pc \in {"setKeyring", "setPassword"}
  BY DEF SetKeyring, SetPassword, SetVar, Unsettled, InstallInv, InstallTypeOK, Files
<1>3. /\ env' \in Files /\ mine' \in Owned
      /\ (mine'.keyring = mine.keyring /\ env'.owned.keyring = env.owned.keyring)
            \/ mine'.keyring = env'.owned.keyring
      /\ (mine'.password = mine.password /\ env'.owned.password = env.owned.password)
            \/ mine'.password = env'.owned.password
  <2>0. /\ env \in Files /\ env.owned \in Owned /\ mine \in Owned
        /\ env.owned = [keyring |-> env.owned.keyring, password |-> env.owned.password]
    BY DEF InstallInv, InstallTypeOK, Files, Owned
  <2>1. CASE SetKeyring
    <3>1. PICK k \in Keyrings :
            /\ env' = IF env.file = "whole" THEN [env EXCEPT !.owned.keyring = k] ELSE env
            /\ mine' = [mine EXCEPT !.keyring = env'.owned.keyring]
      BY <2>1 DEF SetKeyring, SetVar
    <3>2. /\ env'.owned \in Owned /\ env' = [env EXCEPT !.owned = env'.owned]
          /\ env'.owned.password = env.owned.password
      BY <2>0, <3>1 DEF Files, Owned
    <3>3. mine' \in Owned /\ mine'.keyring = env'.owned.keyring /\ mine'.password = mine.password
      BY <2>0, <3>1, <3>2 DEF Owned
    <3> QED BY <2>0, <3>2, <3>3 DEF Files
  <2>2. CASE SetPassword
    <3>1. /\ env' = IF env.file = "whole" THEN [env EXCEPT !.owned.password = "own"] ELSE env
          /\ mine' = [mine EXCEPT !.password = env'.owned.password]
      BY <2>2 DEF SetPassword, SetVar
    <3>2. /\ env'.owned \in Owned /\ env' = [env EXCEPT !.owned = env'.owned]
          /\ env'.owned.keyring = env.owned.keyring
      BY <2>0, <3>1 DEF Files, Owned
    <3>3. mine' \in Owned /\ mine'.password = env'.owned.password /\ mine'.keyring = mine.keyring
      BY <2>0, <3>1, <3>2 DEF Owned
    <3> QED BY <2>0, <3>2, <3>3 DEF Files
  <2> QED BY <2>1, <2>2
<1>4. InstallTypeOK'
  <2>1. run' \in Runs
    BY <1>1 DEF InstallInv, InstallTypeOK, Runs
  <2> QED BY <1>2, <1>3, <2>1 DEF InstallInv, InstallTypeOK
<1>5. run'.pc \in {"setPassword", "setUrl"} /\ run'.by = run.by /\ run'.secret = run.secret
  BY <1>1 DEF InstallInv, InstallTypeOK, Runs
<1>6. NothingInNoFile' /\ ReadBeforeEmptied' /\ RegenHasSecret' /\ EnvAsWritten' /\ RegenAgrees'
  BY <1>2, <1>5 DEF InstallInv, NothingInNoFile, ReadBeforeEmptied, RegenHasSecret, EnvAsWritten,
       RegenAgrees
<1>7. OperatorValuesSurvive'
  BY <1>2, <1>3, <1>5 DEF InstallInv, OperatorValuesSurvive, InHand
<1> QED BY <1>4, <1>6, <1>7 DEF InstallInv

(* The other lines init.sh sets are not the operator's.                    *)
LEMMA SetRestKeeps ==
    ASSUME InstallInv, SetDbUrl \/ SetAdminId \/ SetAdminSecret
    PROVE  InstallInv'
<1>1. run' = Idle \/ \E next \in {"setAdminId", "setAdminSecret"} : run' = [run EXCEPT !.pc = next]
  BY DEF SetDbUrl, SetAdminId, SetAdminSecret, SetVar
<1>2. /\ env.file # "absent"
      /\ UNCHANGED <<managed, example, export, lost, mine>> /\ settled' = FALSE
      /\ run.pc \in {"setUrl", "setAdminId", "setAdminSecret"}
  BY DEF SetDbUrl, SetAdminId, SetAdminSecret, SetVar, Unsettled
<1>3. env' \in Files /\ env'.owned = env.owned /\ env'.file = env.file
  BY DEF SetDbUrl, SetAdminId, SetAdminSecret, SetVar, InstallInv, InstallTypeOK, Files, Secrets
<1>4. InstallTypeOK'
  <2>1. run' \in Runs
    BY <1>1, WrittenFiles DEF InstallInv, InstallTypeOK, Runs
  <2> QED BY <1>2, <1>3, <2>1 DEF InstallInv, InstallTypeOK
<1>5. /\ run'.pc \in {"idle", "setAdminId", "setAdminSecret"}
      /\ run'.by = "none" \/ (run'.by = run.by /\ run'.secret = run.secret)
  <2>1. CASE run' = Idle
    BY <2>1 DEF Idle
  <2>2. ASSUME NEW next \in {"setAdminId", "setAdminSecret"}, run' = [run EXCEPT !.pc = next]
        PROVE  run'.pc = next /\ run'.by = run.by /\ run'.secret = run.secret
    BY <2>2 DEF InstallInv, InstallTypeOK, Runs
  <2> QED BY <1>1, <2>1, <2>2
<1>6. NothingInNoFile' /\ ReadBeforeEmptied' /\ RegenHasSecret' /\ EnvAsWritten' /\ RegenAgrees'
  BY <1>2, <1>3, <1>5 DEF InstallInv, NothingInNoFile, ReadBeforeEmptied, RegenHasSecret, EnvAsWritten,
       RegenAgrees
<1>7. OperatorValuesSurvive'
  BY <1>2, <1>3, <1>5 DEF InstallInv, OperatorValuesSurvive, InHand
<1> QED BY <1>4, <1>6, <1>7 DEF InstallInv

(* A run killed with .env in its hands is what lost stands for.            *)
LEMMA KillKeeps ==
    ASSUME InstallInv, KillRun
    PROVE  InstallInv'
<1> USE DEF KillRun, Unsettled
<1>1. InstallTypeOK'
  <2>1. run' \in Runs
    BY WrittenFiles DEF InstallInv, InstallTypeOK, Runs
  <2>2. env' \in Files
    BY WrittenFiles DEF InstallInv, InstallTypeOK, Files
  <2>3. mine' \in Owned
    BY DEF InstallInv, InstallTypeOK
  <2>4. example' \in Files /\ export' \in [managed : BOOLEAN, secret : Secrets]
    <3>1. NoExport \in [managed : BOOLEAN, secret : Secrets]
      BY DEF NoExport, Secrets
    <3> QED BY <3>1, WrittenFiles DEF InstallInv, InstallTypeOK
  <2> QED BY <2>1, <2>2, <2>3, <2>4 DEF InstallInv, InstallTypeOK
<1>2. NothingInNoFile' /\ ReadBeforeEmptied'
  BY DEF InstallInv, InstallTypeOK, NothingInNoFile, ReadBeforeEmptied, Idle, NoFile, Generated, Runs, Files
<1>3. RegenHasSecret' /\ EnvAsWritten'
  BY DEF InstallInv, InstallTypeOK, RegenHasSecret, EnvAsWritten, Idle, Runs
<1>4. OperatorValuesSurvive'
  BY DEF InstallInv, InstallTypeOK, OperatorValuesSurvive, InHand, Idle, Runs, Files, Owned
<1>5. RegenAgrees'
  BY DEF RegenAgrees
<1> QED BY <1>1, <1>2, <1>3, <1>4, <1>5 DEF InstallInv

(* An edit is the operator's word, lost only to a run that has read the file. *)
LEMMA EditEnvKeeps ==
    ASSUME InstallInv, EditEnv
    PROVE  InstallInv'
<1> USE DEF EditEnv, Disturb, Unsettled
<1>1. InstallTypeOK'
  <2>1. run' \in Runs
    BY WrittenFiles DEF InstallInv, InstallTypeOK, Runs
  <2>2. env' \in Files
    <3>1. ASSUME NEW o \in Owned, NEW s \in {"", "own"}
          PROVE  [env EXCEPT !.file = "whole", !.owned = o, !.secret = s, !.adminId = (s # "")] \in Files
      BY DEF InstallInv, InstallTypeOK, Files, Secrets
    <3> QED BY <3>1, WrittenFiles
  <2>3. mine' \in Owned
    BY WrittenFiles DEF InstallInv, InstallTypeOK
  <2>4. lost' \in BOOLEAN /\ settled' \in BOOLEAN
    BY MembershipIsBoolean
  <2> QED BY <2>1, <2>2, <2>3, <2>4 DEF InstallInv, InstallTypeOK
<1>2. NothingInNoFile' /\ ReadBeforeEmptied'
  BY DEF InstallInv, InstallTypeOK, NothingInNoFile, ReadBeforeEmptied, Idle, NoFile, Generated, Runs, Files
<1>3. RegenHasSecret' /\ EnvAsWritten'
  BY DEF InstallInv, InstallTypeOK, RegenHasSecret, EnvAsWritten, Idle, Runs
<1>4. OperatorValuesSurvive'
  <2>1. run'.pc = run.pc
    BY DEF InstallInv, InstallTypeOK, Runs
  <2>2. env'.owned = mine'
    <3>1. ASSUME NEW o \in Owned, NEW s \in {"", "own"}
          PROVE  [env EXCEPT !.file = "whole", !.owned = o, !.secret = s, !.adminId = (s # "")].owned = o
      BY DEF InstallInv, InstallTypeOK, Files
    <3>2. NoFile("absent").owned = NoOwned
      BY DEF NoFile
    <3> QED BY <3>1, <3>2
  <2> QED BY <2>1, <2>2 DEF OperatorValuesSurvive, InHand
<1>5. RegenAgrees'
  BY DEF RegenAgrees
<1> QED BY <1>1, <1>2, <1>3, <1>4, <1>5 DEF InstallInv

(* project.json is no part of .env.                                        *)
LEMMA EditProjectKeeps ==
    ASSUME InstallInv, EditProject
    PROVE  InstallInv'
<1> USE DEF EditProject, Disturb, Unsettled
<1>1. InstallTypeOK'
  <2>1. run' \in Runs
    BY WrittenFiles DEF InstallInv, InstallTypeOK, Runs
  <2>2. env' \in Files
    BY WrittenFiles DEF InstallInv, InstallTypeOK, Files
  <2>3. mine' \in Owned
    BY DEF InstallInv, InstallTypeOK
  <2> QED BY <2>1, <2>2, <2>3 DEF InstallInv, InstallTypeOK
<1>2. NothingInNoFile' /\ ReadBeforeEmptied'
  BY DEF InstallInv, InstallTypeOK, NothingInNoFile, ReadBeforeEmptied, Idle, NoFile, Generated, Runs, Files
<1>3. RegenHasSecret' /\ EnvAsWritten'
  BY DEF InstallInv, InstallTypeOK, RegenHasSecret, EnvAsWritten, Idle, Runs
<1>4. OperatorValuesSurvive'
  BY DEF InstallInv, InstallTypeOK, OperatorValuesSurvive, InHand, Idle, Runs, Files, Owned
<1>5. RegenAgrees'
  BY DEF RegenAgrees
<1> QED BY <1>1, <1>2, <1>3, <1>4, <1>5 DEF InstallInv

(* Every step of the three programs, of the operator and of a kill.        *)
LEMMA InstallNextInd == InstallInv /\ [InstallNext]_installVars => InstallInv'
<1> SUFFICES ASSUME InstallInv, [InstallNext]_installVars PROVE InstallInv'
  OBVIOUS
<1>1. CASE UNCHANGED installVars
  BY <1>1 DEF InstallInv, InstallTypeOK, NothingInNoFile, ReadBeforeEmptied, RegenHasSecret, EnvAsWritten,
       OperatorValuesSurvive, InHand, RegenAgrees, Paired, installVars
<1>2. CASE InstallNext
  BY <1>2, StartKeeps, PromptKeeps, LoadPreservedKeeps, TruncateEnvKeeps, WriteEnvKeeps, WriteExampleKeeps,
     WriteRealmExportKeeps, CopyExampleKeeps, SetOwnedKeeps, SetRestKeeps, KillKeeps, EditEnvKeeps,
     EditProjectKeeps DEF InstallNext
<1> QED BY <1>1, <1>2

LEMMA InstallInvariance == InstallSpec => []InstallInv
<1> QED BY InstallInitInd, InstallNextInd, PTL DEF InstallSpec

(* No regeneration, init or re-run of init.sh, killed half-way or not,     *)
(* loses what an operator configured, but for the two windows that lost    *)
(* stands for (generate.go Preserved.keep, init.sh).                       *)
THEOREM ValuesSurvive == InstallSpec => []OperatorValuesSurvive
<1>1. InstallInv => OperatorValuesSurvive
  BY DEF InstallInv
<1> QED BY <1>1, InstallInvariance, PTL

(* The files a regen leaves agree with one another, whatever was killed    *)
(* before it (generate.go writeEnv and writeRealmExport).                  *)
THEOREM RegenLeavesAgreement == InstallSpec => []RegenAgrees
<1>1. InstallInv => RegenAgrees
  BY DEF InstallInv
<1> QED BY <1>1, InstallInvariance, PTL

=============================================================================
