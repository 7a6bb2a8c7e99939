------------------------------- MODULE Gateway -------------------------------
(***************************************************************************)
(* A request on its way through the server: the limiter at the edge, the   *)
(* authentication, the limiter of the credential, the authorization, the   *)
(* handler, the audit events it emits and the release of the edge token    *)
(* (server/router.go mountV1 and SetupRouter).                             *)
(*                                                                         *)
(* Reqs are the requests served at the same time.  A step is one access to *)
(* state that requests share: a limiter, the admin verdicts, the identity  *)
(* provider or the database; what a handler computes from its own request  *)
(* goes with the step before it.  What the provider and the domain do with *)
(* a request is left open here: Connections, Projects, ProviderRuntime and *)
(* AdminGuard say it.                                                      *)
(***************************************************************************)
EXTENDS Routes, FiniteSets

CONSTANTS
    Reqs, Addresses, Workspaces,
    Credentials,        \* machine credentials
    Bound, Granted,     \* the workspace and the scopes each credential carries
    Mixes,              \* bound: the traffics watched, numbered, one to a behaviour
    EdgeRate, EdgeBurst, CredentialRate, CredentialBurst, StaleAfter,
    MaxWait,            \* bound: the longest wait for the mutex of a limiter
    MaxTicks            \* bound: the longest a process is watched

ASSUME GatewayAssumption ==
    /\ IsFiniteSet(Reqs) /\ Addresses # {} /\ Workspaces # {}
    /\ {"anonymous", "operator"} \cap Credentials = {}
    /\ Bound \in [Credentials -> Workspaces]
    /\ Granted \in [Credentials -> SUBSET AllScopes]
    /\ \A m \in DOMAIN Mixes : Mixes[m] \in
                       [routes : SUBSET (V1Routes \cup AdminRoutes), slots : Nat,
                        callers : SUBSET (Credentials \cup {"anonymous", "operator"}),
                        places : SUBSET Workspaces, ticks : 0 .. MaxTicks]
    /\ EdgeRate \in Nat \ {0} /\ EdgeBurst \in Nat \ {0} /\ StaleAfter \in Nat
    /\ CredentialRate \in Nat \ {0} /\ CredentialBurst \in Nat \ {0}
    /\ MaxWait \in Nat /\ MaxTicks \in Nat
    /\ EdgeRate * StaleAfter >= EdgeBurst + 2 * (EdgeRate * MaxWait)
    /\ CredentialRate * StaleAfter >= CredentialBurst + 2 * (CredentialRate * MaxWait)

VARIABLES
    edge,           \* the buckets of RateLimitEdge, by address
    console,        \* the buckets of RateLimitPerIP, by address
    machine,        \* the buckets of RateLimitPerCredential, by credential
    verdict,        \* what CachedAdminChecker holds for the operator
    archived,       \* the workspaces, and the one project of each, that were archived
    req,
    mix,            \* what the clients of this behaviour send, and how much at once
    filed,          \* history: those whose archiving has a row of success in the trail
    charged,        \* history: requests of /v1 the edge admitted and kept the token of
    elapsed         \* history: ticks since the process started

limits == <<edge, console, machine>>

domain == <<archived, filed>>

gatewayVars == <<edge, console, machine, verdict, archived, req, mix, filed, charged, elapsed>>

Edge == INSTANCE RateLimiter WITH
            bucket <- edge, Keys <- Addresses, Rate <- EdgeRate, Burst <- EdgeBurst

PerIP == INSTANCE RateLimiter WITH
            bucket <- console, Keys <- Addresses, Rate <- EdgeRate, Burst <- EdgeBurst

PerCredential == INSTANCE RateLimiter WITH
            bucket <- machine, Keys <- Credentials, Rate <- CredentialRate,
            Burst <- CredentialBurst

\* fresh: the open transaction has changed a row.  changed: what was committed, or
\* applied by the provider.  attempt: what became of the call the handler made.
\* good, bad: durable rows with outcome success and failure.
Idle == [pc |-> "idle", route |-> Plain, addr |-> CHOOSE a \in Addresses : TRUE,
         who |-> "anonymous", ws |-> CHOOSE w \in Workspaces : TRUE, paid |-> FALSE,
         known |-> FALSE, fresh |-> FALSE, changed |-> FALSE, attempt |-> "none",
         good |-> 0, bad |-> 0, code |-> 0]

Requests ==
    [pc : {"idle", "received", "known", "admitted", "calling", "written", "recorded",
           "called", "answered"},
     route : V1Routes \cup AdminRoutes \cup {Plain}, addr : Addresses,
     who : Credentials \cup {"anonymous", "operator"}, ws : Workspaces, paid : BOOLEAN,
     known : BOOLEAN, fresh : BOOLEAN, changed : BOOLEAN,
     attempt : {"none", "done", "failed", "unrecorded", "lost"},
     good : Nat, bad : Nat, code : Nat]

\* From the handler's first line to the end of what it calls.
BeingHandled == {"admitted", "calling", "written", "recorded", "called"}

\* What can be archived: a workspace, or its project.
Archivable == {ArchiveWorkspace.name, ArchiveProject.name} \X Workspaces

GatewayTypeOK ==
    /\ Edge!LimiterTypeOK /\ PerIP!LimiterTypeOK /\ PerCredential!LimiterTypeOK
    /\ verdict \in {"none", "admin", "stranger"}
    /\ archived \subseteq Archivable /\ filed \subseteq Archivable
    /\ charged \in [Addresses -> Nat] /\ elapsed \in Nat /\ mix \in DOMAIN Mixes
    /\ req \in [Reqs -> Requests]

GatewayInit ==
    /\ Edge!LimiterInit /\ PerIP!LimiterInit /\ PerCredential!LimiterInit
    /\ verdict = "none" /\ mix \in DOMAIN Mixes
    /\ archived = {} /\ filed = {}
    /\ req = [r \in Reqs |-> Idle]
    /\ charged = [a \in Addresses |-> 0]
    /\ elapsed = 0

-----------------------------------------------------------------------------
Machine(r) == req[r].who \in Credentials

\* A principal was stored and it is a project: auth.PrincipalFrom and IsProject.
IsProject(r) == req[r].known /\ Machine(r)

OnV1(r) == req[r].route \in V1Routes

Becomes(r, pc) == [req EXCEPT ![r].pc = pc]

Answer(r, code) == req' = [req EXCEPT ![r].pc = "answered", ![r].code = code]

Arrived(r, route, a, who, w, ok) ==
    req' = [req EXCEPT ![r] =
              [Idle EXCEPT !.route = route, !.addr = a, !.who = who, !.ws = w, !.paid = ok,
                           !.pc = IF ok THEN "received" ELSE "answered",
                           !.code = IF ok THEN 0 ELSE 429]]

\* How many ticks ago a request may have read the clock it acts on now.
Lateness == {late \in 0 .. MaxWait : late <= elapsed}

\* RateLimitEdge before the chain, RateLimitPerIP on /admin: nobody is known yet.
Receive(r) ==
    /\ req[r].pc = "idle"
    /\ Cardinality({q \in Reqs : req[q].pc # "idle"}) < Mixes[mix].slots
    /\ \E route \in Mixes[mix].routes, a \in Addresses, late \in Lateness,
          who \in Mixes[mix].callers, w \in Mixes[mix].places :
         IF route \in V1Routes
         THEN /\ Edge!Allow(a, late) /\ UNCHANGED console
              /\ Arrived(r, route, a, who, w, Edge!Allowed(a, late))
         ELSE /\ PerIP!Allow(a, late) /\ UNCHANGED edge
              /\ Arrived(r, route, a, who, w, PerIP!Allowed(a, late))
    /\ UNCHANGED <<machine, verdict, domain, charged, elapsed>>

\* AuthenticatePrincipal, RequireAuth: a token with the credential prefix goes to
\* the database and nowhere else; /admin takes it for a token it cannot verify.
Authenticate(r) ==
    /\ req[r].pc = "received"
    /\ \/ Answer(r, 401)
       \/ Machine(r) /\ OnV1(r) /\ Answer(r, 503)
       \/ /\ req[r].who = "operator" \/ (Machine(r) /\ OnV1(r))
          /\ req' = [req EXCEPT ![r].pc = "known", ![r].known = TRUE]
    /\ UNCHANGED <<limits, verdict, domain, charged, elapsed>>

\* Mutant: the binding to a workspace is not compared with the path.
AnyWorkspaceMay(r) == ~OperatorOnly(req[r].route) /\ HasScope(Granted[req[r].who], req[r].route)

\* authorizeProject: control plane, then binding, then scope.
ProjectMay(r) ==
    /\ ~OperatorOnly(req[r].route)
    /\ req[r].ws = Bound[req[r].who]
    /\ HasScope(Granted[req[r].who], req[r].route)

\* RateLimitPerCredential, then Authorize, for a project.
AdmitProject(r) ==
    /\ req[r].pc = "known" /\ Machine(r)
    /\ \E late \in Lateness :
         /\ PerCredential!Allow(req[r].who, late)
         /\ IF ~PerCredential!Allowed(req[r].who, late) THEN Answer(r, 429)
            ELSE IF ProjectMay(r) THEN req' = Becomes(r, "admitted")
            ELSE Answer(r, 403)
    /\ UNCHANGED <<edge, console, verdict, domain, charged, elapsed>>

Seen(v) == verdict' = v /\ UNCHANGED <<limits, domain, charged, elapsed>>

\* authorizeOperator, RequireRole and RequireLiveAdmin: the role claimed by the
\* token, then the live verdict, from the cache or from upstream.
AdmitOperator(r) ==
    /\ req[r].pc = "known" /\ req[r].who = "operator"
    /\ \/ Answer(r, 403) /\ Seen(verdict)
       \/ verdict = "none" /\ Answer(r, 503) /\ Seen(verdict)
       \/ verdict \in {"none", "stranger"} /\ Answer(r, 403) /\ Seen("stranger")
       \/ verdict \in {"none", "admin"} /\ req' = Becomes(r, "admitted") /\ Seen("admin")

-----------------------------------------------------------------------------
\* What the resolver of a workspace refuses (identityruntime/errors.go).
Unresolved == {400, 404, 409, 500, 502}

\* The refusals a handler may answer before it calls anything that can change.
Refusals(r) ==
    LET route == req[r].route IN
    (IF route.seam \in {"read", "write"} THEN Unresolved ELSE {})
    \cup route.ids
    \cup (IF route.body THEN {400} ELSE {})
    \cup (IF route.guard /\ IsProject(r) THEN {403} ELSE {})

\* The resolver, the write guard, the path, the body, the role guard.
Prepare(r) ==
    /\ req[r].pc = "admitted"
    /\ \/ \E code \in Refusals(r) : Answer(r, code)
       \/ req[r].route.seam # "static" /\ req' = Becomes(r, "calling")
       \/ req[r].route.seam = "static" /\ Answer(r, req[r].route.ok)
    /\ UNCHANGED <<limits, verdict, domain, charged, elapsed>>

\* What a failed call is answered with: translateIdentityError, handleError, respondError.
Failures(r) ==
    CASE req[r].route.seam = "settings" -> {400, 409, 502}
      [] req[r].route.seam = "console" -> {400, 403, 404, 409, 500, 502, 503}
      [] req[r].route.seam \in {"read", "write"} -> {400, 403, 404, 409, 500, 502}
      [] OTHER -> {400, 404, 409, 500, 502}

Succeeded(r) == IF req[r].route.after THEN {req[r].route.ok, 500} ELSE {req[r].route.ok}

Outcome(r, attempt, changed, good, codes) ==
    \E code \in codes :
      req' = [req EXCEPT ![r] = [@ EXCEPT !.pc = "called", !.attempt = attempt, !.fresh = FALSE,
                                          !.changed = changed, !.good = good, !.code = code]]

\* A call that only reads.
Read(r) ==
    /\ req[r].pc = "calling" /\ ~req[r].route.mutates
    /\ \E code \in Succeeded(r) \cup Failures(r) : Answer(r, code)
    /\ UNCHANGED <<limits, verdict, domain, charged, elapsed>>

\* A call on the provider: what it accepts may change nothing (a role already held),
\* and a failure may be a refusal, or a lost answer.
CallProvider(r) ==
    /\ req[r].pc = "calling" /\ req[r].route.mutates /\ req[r].route.seam # "tx"
    /\ \E changed \in BOOLEAN : \/ Outcome(r, "done", changed, 0, Succeeded(r))
                               \/ Outcome(r, "failed", changed, 0, Failures(r))
    /\ UNCHANGED <<limits, verdict, domain, charged, elapsed>>

-----------------------------------------------------------------------------
(* A mutation of the control plane: InTx around the domain's statements and *)
(* RecordTx.                                                                *)

Archives(r) == req[r].route.name \in {ArchiveWorkspace.name, ArchiveProject.name}

Target(r) == <<req[r].route.name, req[r].ws>>

\* Another transaction has archived the same row and has not ended.
RowLocked(r) ==
    \E q \in Reqs \ {r} : /\ req[q].pc \in {"written", "recorded"} /\ req[q].fresh
                         /\ Archives(r) /\ Target(q) = Target(r)

\* The domain's statements, in the transaction: they are refused and the transaction
\* is rolled back, or they change a row.  Archive is idempotent: its guarded UPDATE
\* finds no row of what is already archived, and that is a success all the same.
TxWrite(r) ==
    /\ req[r].pc = "calling" /\ req[r].route.seam = "tx" /\ ~RowLocked(r)
    /\ \/ Outcome(r, "failed", FALSE, 0, Failures(r))
       \/ req' = [req EXCEPT ![r].pc = "written",
                              ![r].fresh = ~(Archives(r) /\ Target(r) \in archived)]
    /\ UNCHANGED <<limits, verdict, domain, charged, elapsed>>

\* What a commit makes durable: the domain's rows, and the row of the trail with them.
Committed(r, good) ==
    /\ archived' = IF Archives(r) THEN archived \cup {Target(r)} ELSE archived
    /\ filed' = IF Archives(r) /\ good = 1 THEN filed \cup {Target(r)} ELSE filed

\* Mutant: the domain's rows were committed before the event is written.
RecordAfterCommit(r) ==
    /\ req[r].pc = "written"
    /\ \/ req' = Becomes(r, "recorded") /\ UNCHANGED domain
       \/ Outcome(r, "unrecorded", req[r].fresh, 0, {500}) /\ Committed(r, 0)
    /\ UNCHANGED <<limits, verdict, charged, elapsed>>

\* RecordTx: the event is inserted in the same transaction, or cannot be and the
\* mutation is rolled back with it (ErrNotRecorded).
TxRecord(r) ==
    /\ req[r].pc = "written"
    /\ \/ req' = Becomes(r, "recorded")
       \/ Outcome(r, "unrecorded", FALSE, 0, {500})
    /\ UNCHANGED <<limits, verdict, domain, charged, elapsed>>

\* Mutant: the event is not part of what is committed.
CommitUnrecorded(r) ==
    /\ req[r].pc = "recorded"
    /\ Outcome(r, "done", req[r].fresh, 0, Succeeded(r)) /\ Committed(r, 0)
    /\ UNCHANGED <<limits, verdict, charged, elapsed>>

\* COMMIT: answered, or its answer is lost and nobody knows whether it was applied.
TxCommit(r) ==
    /\ req[r].pc = "recorded"
    /\ \/ Outcome(r, "done", req[r].fresh, 1, Succeeded(r)) /\ Committed(r, 1)
       \/ Outcome(r, "lost", req[r].fresh, 1, {500}) /\ Committed(r, 1)
       \/ Outcome(r, "lost", FALSE, 0, {500}) /\ UNCHANGED domain
    /\ UNCHANGED <<limits, verdict, charged, elapsed>>

-----------------------------------------------------------------------------
\* The rows this emission adds: none for an event its transaction wrote, and any
\* of the others may be lost to a failing store or a client that went away.
NewRows(r) ==
    IF req[r].route.seam = "tx" /\ req[r].attempt = "done" THEN {0}
    ELSE 0 .. Len(req[r].route.events)

\* RecordMutation, RecordWorkspaceMutation, RecordControlPlaneOutcome.
Emit(r) ==
    /\ req[r].pc = "called" /\ req[r].attempt # "unrecorded"
    /\ \E n \in NewRows(r) :
         req' = [req EXCEPT ![r].pc = "answered",
                            ![r].good = IF req[r].attempt = "done" THEN @ + n ELSE @,
                            ![r].bad = IF req[r].attempt = "done" THEN @ ELSE @ + n]
    /\ \/ /\ req[r].attempt = "done" /\ req[r].route.drops # "nobody"
          /\ verdict' = "none"          \* Invalidate(target), InvalidateAll
       \/ /\ req[r].attempt # "done" \/ req[r].route.drops # "everyone"
          /\ UNCHANGED verdict          \* the target was somebody else
    /\ UNCHANGED <<limits, domain, charged, elapsed>>

\* The trail could not be written and the mutation is gone with it: nothing is sent to it again.
EmitNothing(r) ==
    /\ req[r].pc = "called" /\ req[r].attempt = "unrecorded"
    /\ req' = Becomes(r, "answered")
    /\ UNCHANGED <<limits, verdict, domain, charged, elapsed>>

-----------------------------------------------------------------------------
\* Mutant: the token goes back whoever the credential turned out to be.
ReleaseEveryone(r) ==
    /\ req[r].pc = "answered"
    /\ IF req[r].paid /\ OnV1(r) THEN Edge!Refund(req[r].addr) ELSE UNCHANGED edge
    /\ charged' = [charged EXCEPT ![req[r].addr] =
                     IF req[r].paid /\ OnV1(r) /\ ~IsProject(r) THEN @ + 1 ELSE @]
    /\ req' = [req EXCEPT ![r] = Idle]
    /\ UNCHANGED <<console, machine, verdict, domain, elapsed>>

\* The chain returns: RateLimitEdge gives a project its token back.
Release(r) ==
    /\ req[r].pc = "answered"
    /\ IF IsProject(r) /\ OnV1(r) THEN Edge!Refund(req[r].addr) ELSE UNCHANGED edge
    /\ charged' = [charged EXCEPT ![req[r].addr] =
                     IF req[r].paid /\ OnV1(r) /\ ~IsProject(r) THEN @ + 1 ELSE @]
    /\ req' = [req EXCEPT ![r] = Idle]
    /\ UNCHANGED <<console, machine, verdict, domain, elapsed>>

Tick ==
    /\ elapsed < Mixes[mix].ticks
    /\ Edge!LimiterTick /\ PerIP!LimiterTick /\ PerCredential!LimiterTick
    /\ elapsed' = elapsed + 1
    /\ UNCHANGED <<verdict, domain, req, charged>>

Sweep ==
    /\ \E late \in 0 .. MaxWait :
         \/ Edge!Sweep(late) /\ UNCHANGED <<console, machine>>
         \/ PerIP!Sweep(late) /\ UNCHANGED <<edge, machine>>
         \/ PerCredential!Sweep(late) /\ UNCHANGED <<edge, console>>
    /\ UNCHANGED <<verdict, domain, req, charged, elapsed>>

\* The 30 s of a cached verdict are over.
Expire ==
    /\ verdict # "none" /\ verdict' = "none"
    /\ UNCHANGED <<limits, domain, req, charged, elapsed>>

Serve(r) ==
    \/ Receive(r) \/ Authenticate(r) \/ AdmitProject(r) \/ AdmitOperator(r) \/ Prepare(r)
    \/ Read(r) \/ CallProvider(r) \/ TxWrite(r) \/ TxRecord(r) \/ TxCommit(r)
    \/ Emit(r) \/ EmitNothing(r) \/ Release(r)

GatewayNext == (Tick \/ Sweep \/ Expire \/ \E r \in Reqs : Serve(r)) /\ UNCHANGED mix

GatewaySpec == GatewayInit /\ [][GatewayNext]_gatewayVars

-----------------------------------------------------------------------------
Held(a) == {r \in Reqs : req[r].paid /\ OnV1(r) /\ req[r].addr = a}

\* The edge meters every caller that is not a project, whatever projects do next
\* to it at the same address: what it admitted for good, with what is still being
\* served, never exceeds one burst and the refill since, through refunds that meet
\* a full bucket, sweeps and refunds to a bucket that was swept
\* (server/ratelimit.go:151, 165 and 264).
FloodIsMetered ==
    \A a \in Addresses :
      charged[a] + Cardinality(Held(a)) <= EdgeBurst + EdgeRate * elapsed

\* In the middle of the traffic the map at the edge is still the bucket a rate
\* limit is described by (server/ratelimit.go RateLimitEdge).
EdgeIsABucket == Edge!MeteredSpec

\* A realm changes for a project only inside the workspace its credential is bound
\* to, and only if the credential carries a scope that is not a read scope: the
\* registry and the seam each handler takes agree (authz/registry.go:54,
\* authz/authorize.go:150, identityruntime/handler.go:96).
AuthorityHolds ==
    \A r \in Reqs : Machine(r) /\ req[r].pc \in BeingHandled =>
      /\ req[r].ws = Bound[req[r].who]
      /\ ~OperatorOnly(req[r].route)
      /\ req[r].changed => ~(Granted[req[r].who] \subseteq ReadScopes)

\* The trail says a workspace or a project was archived exactly when it is, through
\* repeats, concurrent archives, rollbacks and lost commits.  No change of the control
\* plane is without its one row of success; a row of success without a change is only
\* ever the repeat of an archive that was done and filed before
\* (logging/gin_helpers.go:218, auditlog/recorder.go:292, workspace/repository.go:247).
TrailTellsTheTruth ==
    /\ archived = filed
    /\ \A r \in Reqs : req[r].route.seam = "tx" =>
         /\ req[r].changed => req[r].good = 1
         /\ req[r].good > 0 /\ ~req[r].changed => Archives(r) /\ Target(r) \in archived

\* What a client of the control plane is told holds: a success is on record, a refusal
\* changed nothing, and a 500 means that the state did not change (docs/AUDIT.md:216),
\* whatever was written before the step that failed.  Two 500s say neither: the commit
\* whose answer was lost (docs/AUDIT.md:278), and the one of a handler that reads again
\* after the commit (project/handler.go:213), which the document does not except.
FailureMeansUnchanged ==
    \A r \in Reqs : req[r].pc = "answered" /\ req[r].route.seam = "tx" =>
      /\ req[r].code < 300 => req[r].good = 1
      /\ req[r].code \in 400 .. 499 => ~req[r].changed /\ req[r].good = 0
      /\ req[r].code >= 500 /\ req[r].attempt # "lost" /\ ~req[r].route.after =>
           ~req[r].changed /\ req[r].good = 0

=============================================================================
