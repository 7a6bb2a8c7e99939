------------------------------ MODULE Lifecycle ------------------------------
(***************************************************************************)
(* The replicas of the API from boot to exit: the wait for the database,   *)
(* the migrations, the wait for the token issuer, the serving    *)
(* and the ordered shutdown (cmd/api/main.go, internal/database,           *)
(* internal/server/lifecycle.go and health.go).                            *)
(*                                                                         *)
(* Around them, and external: a supervisor that starts and kills them, a   *)
(* load balancer that routes to the replicas whose last probe was ready,   *)
(* a database and an issuer that come and go.  Time is counted in ticks.   *)
(***************************************************************************)
EXTENDS Naturals

CONSTANTS
    Replicas, Reqs,
    Latest,             \* the newest migration the build embeds
    Attempts,           \* connectAttempts, jwksAttempts
    DrainDelay,         \* drainDelay
    ShutdownTimeout,    \* cfg.ShutdownTimeout()
    ProbeEvery,         \* the load balancer probes at least this often
    MaxOutages          \* bound: how often the database or the issuer goes away

Nobody == "nobody"

ASSUME LifecycleAssumption ==
    /\ Latest \in Nat /\ Attempts \in Nat \ {0} /\ MaxOutages \in Nat
    /\ DrainDelay \in Nat /\ ShutdownTimeout \in Nat /\ ProbeEvery \in Nat \ {0}
    /\ Nobody \notin Replicas

VARIABLES
    pc,             \* where each replica is
    tries,          \* attempts of the wait under way
    since,          \* ticks since the current phase of a shutdown began
    stopping,       \* history: ticks since the signal
    late, hurried,  \* history: the deadline cut requests; a second signal came
    schema,         \* schema_migrations, and who holds the advisory lock
    up,             \* which dependencies answer
    outages,
    routed, probed, \* the load balancer: who gets requests, ticks since the last probe
    req,            \* where each request is served
    refused         \* history: a routed request met a closed listener of this replica

replicaVars == <<pc, tries, since, stopping, late, hurried>>
worldVars == <<up, outages, routed, probed>>
lifecycleVars == <<replicaVars, schema, worldVars, req, refused>>

\* Inside Migrate: the version table, then Up.
InMigrate == {"preparing", "locking", "inspecting", "migrating"}
Booting == {"dialing", "issuer"} \cup InMigrate
Listening == {"serving", "draining"}
Stopping == {"draining", "closing", "released"}

LifecycleTypeOK ==
    /\ pc \in [Replicas -> {"down"} \cup Booting \cup {"serving"} \cup Stopping]
    /\ tries \in [Replicas -> 0 .. Attempts - 1]
    /\ since \in [Replicas -> 0 .. DrainDelay + ShutdownTimeout]
    /\ stopping \in [Replicas -> Nat]
    /\ late \in [Replicas -> BOOLEAN] /\ hurried \in [Replicas -> BOOLEAN]
    /\ schema \in [version : 0 .. Latest, dirty : BOOLEAN, lock : Replicas \cup {Nobody}]
    /\ up \in [{"database", "issuer"} -> BOOLEAN] /\ outages \in 0 .. MaxOutages
    /\ routed \in [Replicas -> BOOLEAN] /\ probed \in [Replicas -> 0 .. ProbeEvery]
    /\ req \in [Reqs -> [at : Replicas \cup {Nobody}, broken : BOOLEAN]]
    /\ refused \in [Replicas -> BOOLEAN]

Free == [at |-> Nobody, broken |-> FALSE]

LifecycleInit ==
    /\ pc = [p \in Replicas |-> "down"]
    /\ tries = [p \in Replicas |-> 0]
    /\ since = [p \in Replicas |-> 0] /\ stopping = [p \in Replicas |-> 0]
    /\ late = [p \in Replicas |-> FALSE] /\ hurried = [p \in Replicas |-> FALSE]
    /\ schema = [version |-> 0, dirty |-> FALSE, lock |-> Nobody]
    /\ up = [d \in {"database", "issuer"} |-> TRUE] /\ outages = 0
    /\ routed = [p \in Replicas |-> FALSE] /\ probed = [p \in Replicas |-> 0]
    /\ req = [q \in Reqs |-> Free]
    /\ refused = [p \in Replicas |-> FALSE]

-----------------------------------------------------------------------------
At(p) == {q \in Reqs : req[q].at = p}

Goes(p, to) == pc' = [pc EXCEPT ![p] = to] /\ since' = [since EXCEPT ![p] = 0]

\* The process is gone: its requests with it, and its database sessions.
Gone(p) ==
    /\ Goes(p, "down")
    /\ req' = [q \in Reqs |-> IF req[q].at = p THEN Free ELSE req[q]]
    /\ tries' = [tries EXCEPT ![p] = 0]
    /\ stopping' = [stopping EXCEPT ![p] = 0]
    /\ late' = [late EXCEPT ![p] = FALSE] /\ hurried' = [hurried EXCEPT ![p] = FALSE]
    /\ schema' = [schema EXCEPT !.lock = IF @ = p THEN Nobody ELSE @]
    /\ refused' = [refused EXCEPT ![p] = FALSE]
    /\ UNCHANGED worldVars

Boots(p, to) ==
    /\ Goes(p, to) /\ tries' = [tries EXCEPT ![p] = 0]
    /\ UNCHANGED <<stopping, late, hurried, worldVars, req, refused>>

Start(p) == pc[p] = "down" /\ Boots(p, "dialing") /\ UNCHANGED schema

\* Mutant: the wait for the database never gives up.
RetryForever(p) ==
    /\ pc[p] \in {"dialing", "issuer"}
    /\ ~up[IF pc[p] = "dialing" THEN "database" ELSE "issuer"]
    /\ UNCHANGED lifecycleVars

\* connectWithRetry and mustBuildAuthProvider: one more attempt, or a fatal exit.
Retry(p) ==
    /\ pc[p] \in {"dialing", "issuer"}
    /\ ~up[IF pc[p] = "dialing" THEN "database" ELSE "issuer"]
    /\ IF tries[p] + 1 = Attempts THEN Gone(p)
       ELSE /\ tries' = [tries EXCEPT ![p] = @ + 1]
            /\ UNCHANGED <<pc, since, stopping, late, hurried, schema, worldVars, req, refused>>

\* The database answers the ping; Migrate comes next.
Dial(p) ==
    /\ pc[p] = "dialing" /\ up["database"]
    /\ Boots(p, "preparing") /\ UNCHANGED schema

\* WithInstance takes the advisory lock to create the version table, and gives it back.
\* Nothing bounds this wait: pg_advisory_lock runs without a deadline.
EnsureVersionTable(p) ==
    /\ pc[p] = "preparing" /\ up["database"] /\ schema.lock = Nobody
    /\ Boots(p, "locking") /\ UNCHANGED schema

\* Up takes the lock again, for all that it does.
Lock(p) ==
    /\ pc[p] = "locking" /\ up["database"] /\ schema.lock = Nobody
    /\ Boots(p, "inspecting") /\ schema' = [schema EXCEPT !.lock = p]

\* This wait, and no other in Migrate, ends with LockTimeout, which is fatal.
LockTimesOut(p) ==
    /\ pc[p] = "locking" /\ (schema.lock # Nobody \/ ~up["database"])
    /\ Gone(p)

\* What Up does with a version that is not dirty.
UpFrom(p) ==
    IF schema.version = Latest
    THEN Boots(p, "issuer") /\ schema' = [schema EXCEPT !.lock = Nobody]
    ELSE Boots(p, "migrating") /\ UNCHANGED schema

\* Mutant: a dirty schema is migrated further.
InspectAnyway(p) == pc[p] = "inspecting" /\ up["database"] /\ UpFrom(p)

\* Up reads the version: a dirty schema is fatal, a current one is left alone.
Inspect(p) ==
    /\ pc[p] = "inspecting" /\ up["database"]
    /\ IF schema.dirty THEN Gone(p) ELSE UpFrom(p)

\* The version is recorded dirty, then the statements run.
MigrationBegins(p) ==
    /\ pc[p] = "migrating" /\ ~schema.dirty /\ up["database"]
    /\ schema' = [schema EXCEPT !.version = @ + 1, !.dirty = TRUE]
    /\ UNCHANGED <<replicaVars, worldVars, req, refused>>

MigrationEnds(p) ==
    /\ pc[p] = "migrating" /\ schema.dirty /\ up["database"]
    /\ IF schema.version = Latest
       THEN Boots(p, "issuer") /\ schema' = [schema EXCEPT !.dirty = FALSE, !.lock = Nobody]
       ELSE schema' = [schema EXCEPT !.dirty = FALSE] /\ UNCHANGED <<replicaVars, worldVars, req, refused>>

\* Migrate returns an error, fatal at once: a statement fails, with the schema left
\* dirty, or the database has gone.
MigrateFails(p) ==
    /\ \/ pc[p] = "migrating" /\ schema.dirty
       \/ pc[p] \in InMigrate /\ ~up["database"]
    /\ Gone(p)

\* The key set is fetched, the handlers are wired, the listener is bound.
Serve(p) ==
    /\ pc[p] = "issuer" /\ up["issuer"]
    /\ Boots(p, "serving") /\ UNCHANGED schema

\* The port is taken, or the listener dies: an error and a non-zero exit.
ServeFails(p) ==
    /\ (pc[p] = "issuer" /\ up["issuer"]) \/ pc[p] = "serving"
    /\ Gone(p)

-----------------------------------------------------------------------------
\* Mutant: the listener closes without readiness having said so.
SignalAndClose(p) ==
    /\ pc[p] \in {"serving", "draining"}
    /\ Goes(p, "closing")
    /\ UNCHANGED <<tries, stopping, late, hurried, schema, worldVars, req, refused>>

\* Mutant: every further signal starts the drain delay again.
SignalStartsOver(p) ==
    /\ pc[p] \in {"serving", "draining"}
    /\ Goes(p, "draining")
    /\ UNCHANGED <<tries, stopping, late, hurried, schema, worldVars, req, refused>>

\* SIGTERM: readiness answers 503 first.  A second one skips the drain delay; one
\* that comes later still changes nothing.
Signal(p) ==
    /\ pc[p] \in {"serving", "draining"}
    /\ Goes(p, IF pc[p] = "serving" THEN "draining" ELSE "closing")
    /\ hurried' = [hurried EXCEPT ![p] = pc[p] = "draining"]
    /\ UNCHANGED <<tries, stopping, late, schema, worldVars, req, refused>>

\* The drain delay is over: Shutdown closes the listener.
CloseListener(p) ==
    /\ pc[p] = "draining" /\ since[p] = DrainDelay
    /\ Goes(p, "closing")
    /\ UNCHANGED <<tries, stopping, late, hurried, schema, worldVars, req, refused>>

\* Mutant: the pool is closed as soon as the listener is.
ReleaseAtOnce(p) ==
    /\ pc[p] = "closing"
    /\ Goes(p, "released")
    /\ UNCHANGED <<tries, stopping, late, hurried, schema, worldVars, req, refused>>

\* Mutant: the wait for the requests has no deadline.
ReleaseWhenIdle(p) ==
    /\ pc[p] = "closing" /\ At(p) = {}
    /\ Goes(p, "released")
    /\ UNCHANGED <<tries, stopping, late, hurried, schema, worldVars, req, refused>>

\* Shutdown returns: every request has been answered, or the deadline has passed.
\* closeResources then closes the pool.
Release(p) ==
    /\ pc[p] = "closing" /\ (At(p) = {} \/ since[p] = ShutdownTimeout)
    /\ Goes(p, "released")
    /\ late' = [late EXCEPT ![p] = At(p) # {}]
    /\ UNCHANGED <<tries, stopping, hurried, schema, worldVars, req, refused>>

Exit(p) == pc[p] = "released" /\ Gone(p)

\* SIGKILL, an out-of-memory kill, a lost node.
Kill(p) == pc[p] # "down" /\ Gone(p)

-----------------------------------------------------------------------------
\* check: not while draining, and not while the database does not answer.
Ready(p) == pc[p] = "serving" /\ up["database"]

\* The load balancer asks /health/ready; a closed listener is a failed probe.
Probe(p) ==
    /\ routed' = [routed EXCEPT ![p] = Ready(p)]
    /\ probed' = [probed EXCEPT ![p] = 0]
    /\ UNCHANGED <<replicaVars, schema, up, outages, req, refused>>

\* A request is routed.
Arrive(q) ==
    /\ req[q].at = Nobody
    /\ \E p \in Replicas :
         /\ routed[p] /\ pc[p] \in Listening \cup {"closing", "released"}
         /\ IF pc[p] \in Listening
            THEN req' = [req EXCEPT ![q] = [at |-> p, broken |-> FALSE]] /\ UNCHANGED refused
            ELSE refused' = [refused EXCEPT ![p] = TRUE] /\ UNCHANGED req
    /\ UNCHANGED <<replicaVars, schema, worldVars>>

\* Its handler reaches for the pool, which is closed once the replica has released it.
Query(q) ==
    /\ req[q].at # Nobody /\ pc[req[q].at] = "released"
    /\ req' = [req EXCEPT ![q].broken = TRUE]
    /\ UNCHANGED <<replicaVars, schema, worldVars, refused>>

Respond(q) ==
    /\ req[q].at # Nobody
    /\ req' = [req EXCEPT ![q] = Free]
    /\ UNCHANGED <<replicaVars, schema, worldVars, refused>>

\* A dependency goes away, or comes back.
Outage(d) ==
    /\ IF up[d] THEN outages < MaxOutages /\ outages' = outages + 1 ELSE UNCHANGED outages
    /\ up' = [up EXCEPT ![d] = ~@]
    /\ UNCHANGED <<replicaVars, schema, routed, probed, req, refused>>

\* `migrate force`: the operator has looked at the schema and records what it is.
MigrateForce ==
    /\ schema.dirty /\ schema.lock = Nobody
    /\ \E v \in {schema.version - 1, schema.version} :
         schema' = [schema EXCEPT !.version = v, !.dirty = FALSE]
    /\ UNCHANGED <<replicaVars, worldVars, req, refused>>

\* Time passes only when no timer of a shutdown is due and no probe is overdue.
Tick ==
    /\ \A p \in Replicas :
         /\ pc[p] = "draining" => since[p] < DrainDelay
         /\ pc[p] = "closing" => At(p) # {} /\ since[p] < ShutdownTimeout
         /\ pc[p] # "released"
         /\ pc[p] \in Listening => probed[p] < ProbeEvery
    /\ \E p \in Replicas : pc[p] \in Listening \cup Stopping
    /\ since' = [p \in Replicas |-> IF pc[p] \in Stopping THEN since[p] + 1 ELSE since[p]]
    /\ stopping' = [p \in Replicas |-> IF pc[p] \in Stopping THEN stopping[p] + 1 ELSE stopping[p]]
    /\ probed' = [p \in Replicas |-> IF pc[p] \in Listening THEN probed[p] + 1 ELSE probed[p]]
    /\ UNCHANGED <<pc, tries, late, hurried, schema, up, outages, routed, req, refused>>

\* What the process does by itself, or as soon as a dependency answers.
Advance(p) ==
    \/ Dial(p) \/ EnsureVersionTable(p) \/ Lock(p) \/ LockTimesOut(p) \/ Inspect(p)
    \/ (pc[p] = "issuer" /\ Retry(p)) \/ Serve(p)
    \/ CloseListener(p) \/ Release(p) \/ Exit(p)

LifecycleNext ==
    \/ \E p \in Replicas : \/ Start(p) \/ Advance(p) \/ Retry(p)
                           \/ MigrationBegins(p) \/ MigrationEnds(p) \/ MigrateFails(p)
                           \/ ServeFails(p) \/ Signal(p) \/ Kill(p) \/ Probe(p)
    \/ \E q \in Reqs : Arrive(q) \/ Query(q) \/ Respond(q)
    \/ \E d \in {"database", "issuer"} : Outage(d)
    \/ MigrateForce \/ Tick

\* The scheduler runs the process, the load balancer probes, and the clock runs: no
\* number of restarts takes place in no time, hence strong fairness for it.  PostgreSQL
\* grants an advisory lock in the order of the requests: a waiter that the lock is free
\* for again and again gets it.
\* Nothing is assumed of the handlers, which may hang for ever, nor of the statements of
\* a migration, nor of the answer to a ping, or of its error, while the database is away.
LifecycleFairness ==
    /\ \A p \in Replicas : /\ WF_lifecycleVars(Advance(p)) /\ WF_lifecycleVars(Probe(p))
                           /\ SF_lifecycleVars(EnsureVersionTable(p))
    /\ SF_lifecycleVars(Tick)

LifecycleSpec == LifecycleInit /\ [][LifecycleNext]_lifecycleVars /\ LifecycleFairness

-----------------------------------------------------------------------------
\* No replica answers requests from a schema that is half migrated or older than its
\* build, though replicas boot together, die between a version and its statements,
\* and an operator repairs what they leave (database/database.go:91, migrate.go:32).
ServedFromCurrentSchema ==
    \A p \in Replicas : pc[p] \in Listening => schema.version = Latest /\ ~schema.dirty

\* While the probes come more often than the drain delay, a signal costs no client a
\* refused connection, unless a second one cut the delay short (lifecycle.go:171).
HandOffIsClean == ProbeEvery < DrainDelay => \A p \in Replicas : refused[p] => hurried[p]

\* A handler finds the pool closed under it only when the deadline of the shutdown
\* went by with the handler still running (lifecycle.go:224).
PoolOutlivesRequests == \A q \in Reqs : req[q].broken => late[req[q].at]

\* From the signal to the exit no more time passes than the drain delay and the
\* timeout together, whatever the handlers do (lifecycle.go:159).
ShutdownIsBounded == \A p \in Replicas : stopping[p] <= DrainDelay + ShutdownTimeout

\* A signalled replica goes down, stuck handlers, outages and further signals
\* notwithstanding (lifecycle.go:159).
ShutdownEnds == \A p \in Replicas : (pc[p] \in Stopping) ~> (pc[p] = "down")

\* If the database comes back for good and no migration runs for ever, a boot ends:
\* the replica serves or has exited with a reason, whatever the issuer does, and however
\* many other replicas boot, migrate and die in front of it.  Neither premise can go:
\* the ping has no deadline, and the wait for the version table lasts as long as another
\* replica's migration (database.go:59,175, migrate.go:144).
BootEnds ==
    /\ <>[]up["database"]
    /\ \A q \in Replicas : []<>(pc[q] # "migrating")
    => \A p \in Replicas : (pc[p] \in Booting) ~> (pc[p] \in {"serving", "down"})

=============================================================================
