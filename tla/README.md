# Formal models of the lightweight SaaS backend

TLA+ specifications of the backend in `src/` (Go, PostgreSQL, Keycloak), the TLC
runs that check them on small instances, and the theorems the TLA+ proof system
checks for every size. `PROJECT.json` ties each definition to the lines it
translates, each property to the runs that check it and to a plausible bug that
breaks it.

    tlc -workers 2 -config MCConnections.cfg MCConnections.tla
    tlapm ConnectionsProofs.tla

Contents: 1 inventory, 2 modules, 3 runs, 4 findings, 5 proofs, 6 not modelled, 7 plan.

## 1. Inventory

The product administers *workspaces* (tenants). A workspace has *connections* to
identity providers (Keycloak realms), at most one of them active; the workspace
identity API resolves that connection to a live client and calls it. A workspace
also has *projects* with machine credentials. `/admin/*` is an older surface over
one built-in realm. State is in PostgreSQL (transactions at READ COMMITTED), in
Keycloak, and in a few per-process caches.

| component (source) | state it keeps | operations | what is hard | what makes it correct |
|---|---|---|---|---|
| connection lifecycle (`internal/connection`) | `connections` rows: status, configuration, verdict; partial unique index on the active one | Create, Update, Verify, Activate, Retire, Delete | every handler reads, decides, then writes in a later transaction; the swap is two UPDATEs; the index and the row locks make requests wait, and two activations of one draft can wait for each other | one active row per workspace; no swap that leaves a gap; a configuration that has been live is frozen; every transition has its audit row; only what was verified goes live; requests end |
| identity runtime (`internal/identityruntime/resolver.go`, `cache.go`) | LRU of provider clients keyed by (connection, updated_at) | ForWorkspace: workspace, row, cache, build, put | four reads at four moments; `updated_at` may repeat; entries outlive their rows | a tenant is served its own current provider; a retired connection never serves; the cache keeps its bound |
| workspace identity API (`internal/identityruntime/handler*.go`, `role_guard.go`) | none | 24 handlers over the resolved provider | guards and events around a call whose answer may be lost | no write on a read-only seam or scope; the trail and the answer agree with what happened |
| master-key rotation (`connection/rotate.go`, `secretscli.go`, `secrets/keyring.go`) | sealed columns with a key version; keyring in the environment of each process | rotate, status, census at boot; add key, restart, remove key | runs beside API processes with another keyring; interrupted and repeated; one transaction per row | no credential lost or resurrected; no key removed while a row needs it; "complete" means complete |
| projects and credentials (`internal/project`) | projects (name, status), credentials (state, expiry, last used) | create, rename, archive; mint, revoke; authenticate, touch | authentication reads two rows and the clock separately; counts and checks before the inserting transaction | an accepted credential was valid; revocation is final; names unique; cap on live credentials |
| live-admin check (`auth/admin_check.go`) | TTL cache of subject -> is admin, per process | IsAdmin, Invalidate, InvalidateAll | a read in flight while the entry is invalidated; answers lost after taking effect | bounded staleness; an answered revocation is enforced |
| admin guards and verbs (`identity/service.go`, `handler.go`, `keycloak/users.go`, `roles.go`) | the realm (Keycloak) | update, delete, grant, revoke, roles, passwords, sessions | check then act over HTTP; GET-merge-PUT | the realm keeps an enabled admin; no lost update |
| workspaces (`internal/workspace`) | `workspaces` rows: slug, status | create, rename, archive | archive races everything inside | slug unique; archived means frozen |
| transactions (`database/tx.go`) | - | InTx | rollback on error, panic, commit failure | all or nothing |
| audit trail (`internal/auditlog`, `internal/audit`, `server/audit_retention.go`) | append-only events | RecordTx, best-effort Record, keyset List, retention sweep | rows stamped before they commit, paging while rows are inserted and purged, downtime and restarts of the sweep | no committed transition without its event; no page skips or repeats a row; no row is purged early, and none stays long after the first sweep of a process |
| Keycloak admin client (`keycloak/admin.go`) | cached service-account token (atomic pointer) | acquireToken, doJSON, doCreate, doText | one retry after a 401; concurrent refresh; lost answers | a mutation is applied at most once per call; no permanent stale token |
| invitations (`keycloak/invitations.go`) | users half provisioned | create in five calls, compensating delete | any call fails, the compensation too | no orphan blocks the email for ever |
| authorization registry (`internal/authz`) | static routes, scopes, matrix | Authorize | a large table beside 78 handlers with guards of their own | nobody acts outside the workspace, the plane or the scopes granted |
| token verification (`auth/keycloak`, `auth/middleware.go`) | key set fetched at boot, refreshed by a library | build with bounded retries; verify; dispatch by credential prefix | an issuer that is not there yet | the wait for it ends either way; a machine credential is never taken for a token |
| rate limiting (`server/ratelimit.go`) | token buckets per key under one mutex, sweeper | allow, refund, sweep | lazy refill, refund against a full or a swept bucket, clocks read before the wait for the mutex | never above burst (and one longest wait); a sweep never unthrottles early; only projects are refunded |
| server lifecycle (`server/lifecycle.go`, `health.go`) | readiness flag, listener | serve, drain, close | signals during drain, handlers that hang, deadline | readiness drops first; shutdown ends; the pool closes last |
| migrations (`database/migrate.go`) | schema version, dirty flag and advisory lock (library) | migrate on boot; down, steps, force | two replicas at once, two waits for the lock of which one is bounded, crash mid-step | nobody serves from a schema that is dirty or old |
| configuration and bootstrap (`cmd/bootstrap`, `internal/bootstrap`, `scripts/init.sh`, `internal/config`) | `.env`, `.env.example`, `project.json`, the realm export | `make init`, `make regen`, `init.sh`, validation at boot | whole-file rewrites killed half-way or racing an edit | values the operator owns survive; the files agree |
| connection verifier (`connection/verifier.go`) | - | a sequence of probes | network reads | its verdict is an input of the connection lifecycle |
| Go SDK (`sdk/go`) | - | one HTTP request per call, no retry | - | not modelled |
| console, probes, landing pages, logging, metrics, identifiers | - | UI, formatting, counters | - | not modelled: no evolving state another component reads |

How they interact. Connections, projects and rotation share PostgreSQL rows and the
transaction helper, and read the workspace's status before they write. The resolver
reads what the connection lifecycle commits. Rotation rewrites the column Create and
Update write. The admin verbs change the realm that the live-admin check reads, and
call its `Invalidate` afterwards. A request crosses the limiters, the authentication, the
registry, a handler and the audit sinks in one goroutine, and leaves its edge token on the way
out. Nothing notifies anything: every coupling is a read at a later moment, which is where the
hazards of `PROJECT.json` come from.

## 2. Modules

| module | models | state |
|---|---|---|
| `ConnectionStore` | the `connections` table and its constraints, one committed transaction per step: an abstract specification | `status`, `coord`, `secret` per connection, `archived` workspaces |
| `Connections` | the connection handlers as concurrent requests; implements `ConnectionStore` | the store's, plus `health`, `probed` (history), `audited` events, `req` per request |
| `ProviderRuntime` | `Resolver.ForWorkspace` and the provider LRU over `ConnectionStore`'s transitions | the store's, plus `stamp` (`updated_at`), `cached`, `provider`, `call` |
| `SecretRotation` | rotate, status and the key procedure beside API processes | `row` (sealed columns), `env`, `ring` and `write` per process, `rot` per run, `safe`, history `wanted`, `lax` |
| `Projects` | projects and credentials: operators and authentications | `live`, `project`, `name`, `cred`, `used`, `clock`, `req` |
| `AdminGuard` | live-admin cache, last-admin and self guards, the mutating verbs, operators out of band | `user` (the realm), `entry` (the cache), `req`, history `since`, `out` |
| `TokenBucket` | what a rate limit promises: an ever-present bucket per key, with a slack beyond its burst that it may spill; an abstract specification | `level` |
| `RateLimiter` | the lazily refilled, swept map of `server/ratelimit.go`, touched by requests whose clock may be late; implements `TokenBucket` | `bucket` |
| `Routes` | the HTTP surface: a record per handler (path, body and role guards, seam, events, answers) and the scope registry | - |
| `Gateway` | a request through edge limiter, authentication, credential limiter, authorization, handler, audit sinks and refund; three `RateLimiter`s inside | `edge`, `console`, `machine`, `verdict`, `archived`, `req`, `mix`, history `filed`, `charged`, `elapsed` |
| `Realm` | `AdminClient` (token, retry) and the Keycloak calls of the provider: invitation, creation with password, patch, resend, delete, paged listing | `cached`, `epoch`, `account`, `req`, `troubles` |
| `Lifecycle` | replicas from boot to exit: wait for the database, migrate, wait for the issuer, serve, drain, shut down, be killed | `pc`, timers, `schema`, `up`, `routed`, `req`, history |
| `AuditTrail` | `audit_events`: late commits, keyset pages, retention sweep, crashes and downtime | `now`, `stage`, `at`, `rows`, `alive`, `due`, `walk`, history `kept`, `uptime`, `failed` |
| `Installation` | `make init`, `make regen` and `init.sh` over the configuration files | `managed`, `env`, `example`, `export`, `run`, history |
| `*Proofs` | the theorems (section 5); `ConnectionsProofs` is about `Connections` and `ProviderRuntime`, `OperationsProofs` about `Lifecycle`, `AuditTrail` and `Installation`, each other one about the module it is named for | - |
| `MC*` | instances for TLC: model values, ownership of connections, mixes of traffic, symmetry | - |

What composes what. `ProviderRuntime` runs on the transitions of `ConnectionStore`, which
`Connections` is shown to implement: together they connect the resolver with the concurrent
handlers. `Gateway` instantiates `RateLimiter` three times and runs every record of `Routes`;
where it says "a transaction" or "a call on the provider", `Connections`, `Projects`,
`AdminGuard` and `Realm` say what happens inside.

### How the code becomes actions

*Handlers over PostgreSQL* (`Connections`, `Projects`). A handler is two or three steps:
`XBegin` is everything it reads and decides before `InTx` (workspace status, current row,
`CanActivate`, counts); `XCommit` is the transaction. Under READ COMMITTED a single
guarded UPDATE re-evaluates its WHERE clause on the latest committed row after waiting
for its lock, so a one-statement transaction is one step guarded by `~Locked`, with the
zero-rows branch as a refusal. The audit insert shares the transaction and therefore the
step. `Abort` rolls back at any point: failed audit insert, failed COMMIT, cancelled
context, death of the process; nothing of a request survives it, as nothing is kept
outside the transaction. An activation is the exception: the retiring UPDATE takes a
snapshot (`ActivateScan`), waits for the rows it found and re-checks them
(`ActivateRetire`); the promoting UPDATE waits for the draft, locks it and re-checks its status
(`ActivateLock`), and only then meets the unique index (`ActivateCommit`), which either fails
at once (`DuplicateKey`) or waits for a transaction that is vacating the slot
(`IndexSlotFree`). Uncommitted writes are invisible to others, so they are kept in
`req[r].hit` until the commit. `Locked` covers what an open activation holds: the incumbents it
has retired and the draft it has locked, each to the end of its transaction.

These waits can close a circle. B activates draft d while there is no incumbent and holds none;
another connection goes live; A activates d too and retires it; B locks d and waits in the index
for A, and A waits for d. `DeadlockDetected` is PostgreSQL's detector, external to the source:
after `deadlock_timeout` it rolls back one of two transactions that wait for each other
(`WaitsFor`), and the request ends as any failed one. Nothing in the code orders the two locks or
retries the loser. That no longer ring exists is `RingsAreOfTwo` (section 5).

*Handlers over Keycloak* (`AdminGuard`, `Realm`). Each HTTP call is a step. In `AdminGuard` the
mutating call has three outcomes: done and answered, done with the answer lost (the handler
returns an error and does not invalidate), not done. `Realm` opens that step up: `LoadToken`,
`MintToken`, `StoreToken` (the atomic pointer is read and written at different moments, and any
request may store in between), `Send`, `RetryRefused` for a 401, `LoseAnswer`, `NotSent`. An
operation is the sequence of calls in `Program`; `Succeeded` and `Failed` say what the code does
next, the compensating delete included. Keycloak itself is external: it may refuse a call, its
page of a listing is a window by position over the users that exist at that moment, and people
complete their onboarding behind the requests' back.

*The request path* (`Gateway`). A step is one access to state that requests share; what a handler
computes from its own request goes with the step before. `Prepare` answers the refusals the record
of the route lists, `Read` and `CallProvider` make the one call, and a mutation of the control
plane is three steps: `TxWrite`, the domain's statements, `TxRecord`, the event in the same
transaction, and `TxCommit`, whose answer may be lost either way. Any of the three may fail and
rolls back what was written before. An archive is idempotent (`workspace/repository.go:247`,
`project/repository.go:377`): repeated, it changes no row, succeeds and files one more row of
success, so `archived` and `filed` say which are archived and which the trail says are. `Emit` is
`audit.Record` with the rows it may fail to write, `Release` the code after `c.Next()` in the edge
limiter.

*Caches*. `IsAdmin` is `Arrive` (read under RLock), `Lookup` (upstream, no lock), `Store`
(write lock). The LRU's `get` and `put` each run under the mutex, so each is a step;
`buildProvider` runs between them without it. Which of two entries is the older one is left
open: an eviction takes any entry but the one just put.

*Time*. `Projects` has a clock and absolute expiries up to `MaxTime`. `AdminGuard` counts
ticks down in the cache entry; an upstream read lasts at most `Latency` ticks (the admin
client's HTTP timeout). `updated_at` is any member of `Stamps`: wall clocks repeat, and
`SaveVerification` sets it to the probe's time. A bucket carries its age, and a request, or the
sweep, reads the clock up to `MaxWait` ticks before it holds the mutex (`ratelimit.go:112`, 169):
against a bucket that was touched meanwhile the elapsed time is then negative, which takes
tokens out, down to a debt, and sets `last` and `lastSeen` back (`Allow` with `late > 0`). What is
taken out is earned again by the clock that was set back; what a late clock can give is one
longest wait's refill beyond the burst, the `Slack` of `TokenBucket`. In `Lifecycle` `Tick` is
disabled while a timer of a shutdown is due: a timer fires before the next tick; the boot is
untimed. In `AuditTrail` time passes for a process that is down as for one that is up (`Elapse`); a
boot sets the first sweep `Delay` ticks ahead (`auditSweepStartupDelay`), and a statement is over
within `MaxLag` ticks (`writeTimeout`), less than any retention. A sweep is one step: its five
minutes at most (`auditSweepTimeout`) are not told from the instant it commits.

*Boot* (`Lifecycle`). `Migrate` waits for the advisory lock twice. golang-migrate's `WithInstance`
takes it to create the version table, with `pg_advisory_lock` and no deadline, and gives it
back (`EnsureVersionTable`, `migrate.go:144`); `Up` takes it again with `LockTimeout` (`Lock`,
`LockTimesOut`) and keeps it while it reads the version and migrates (`Inspect`,
`MigrationBegins`, `MigrationEnds`). The ping before them has no deadline either
(`database.go:175`): while the database is away an attempt may fail (`Retry`) or hang.

*Keys*. Two master-key versions, the three keyrings of `docs/SECRET_KEY_ROTATION.md`, and a
sealed value as (plaintext, version). `lax` records that `rotate` or `status` was run while
some API process had not been restarted since the keyring changed: the procedure of that
document is the precondition of two properties.

*Files* (`Installation`). Each program is a sequence of reads and of writes of whole files;
`os.WriteFile` truncates first (`TruncateEnv`) and fills afterwards (`WriteEnv`); `KillRun` may
fall between any two steps and leaves what the program was writing empty.

## 3. Runs

| run | instance | shows |
|---|---|---|
| `connections` | 1 workspace, 2 connections, 2 requests, `FairSpec` | `OneActivePerWorkspace`, `AuditMatchesRows` (event counts account for every row), `SwapLeavesNoGap` (an active connection is lost only to a successor or to a recorded retirement), `StoreSpec` (the concurrent handlers implement the store), `RequestsFinish` (every request is answered: the only ring of waits is the pair the database's detector ends, and a lost race is refused) |
| `activate_race` | 1 connection, 2 coordinates, 2 requests | violation of `PromotionIsVerified` (finding 1) |
| `runtime` | 2 workspaces, 3 connections, 2 secrets, 2 stamps, 2 calls, cache of 2 | `ServedProviderIsCurrent`, `RetiredNeverServes`, `OneGenerationPerConnection`, `CacheIsBounded`, `FrozenOnceActive` |
| `rotation` | 2 connections, 2 secrets, 2 API processes, 2 rotation runs | `CredentialSurvives`, and, for the documented order, `NoRowStranded` and `CompleteOnceRestarted` |
| `projects` | 2 projects, 2 names, 1 credential, 2 operators, 2 requests, clock 0..3 | `NamesAreUnique`, `AcceptedAtOneInstant`, `RevocationIsFinal` |
| `projects_cap` | 1 project, 2 credentials, cap 1 | violation of `CapHolds` (finding 2) |
| `admin` | 2 users, 2 requests, every verb, operators out of band, TTL 1, latency 1 | `StalenessBounded`, `RevokedIsRefused`, `LastAdminIsKept` |
| `gateway` | 2 requests, 1 address, 2 workspaces, 2 machine credentials, all 78 routes; edge rate 1 burst 2, credential rate 1 burst 1, stale after 4, waits up to 1, 5 ticks | `FloodIsMetered`, `EdgeIsABucket`, `AuthorityHolds`, `TrailTellsTheTruth` (archived exactly when on record; a row of success without a change only for a repeated archive), `FailureMeansUnchanged` (a refusal, and a 500 but for two named ones, left nothing behind) |
| `realm` | 2 requests, 7 operations, 3 user ids, page of 1, cap of 3, 1 revocation, 2 troubles | `AppliedAtMostOnce`, `RetryEscapesOneRevocation`, `FailedInvitationLeavesNoUser`, `AnsweredMeansProvisioned`, `ListingIsComplete`, `PatchIsExact` |
| `lifecycle` | 2 replicas, 1 request, 2 migrations, 2 attempts, delay 2, timeout 1, probe every tick, 1 outage | `ServedFromCurrentSchema`, `HandOffIsClean`, `PoolOutlivesRequests`, `ShutdownIsBounded`; under fairness `ShutdownEnds`, and `BootEnds` if the database comes back for good and no migration runs for ever |
| `trail` | 3 events, 2 of the workspace read, page of 1, retention, startup delay and lag of 1, period of 2, 1 failed sweep in a row, 6 ticks | `PagesAreExact`, `WindowIsKept` |
| `installation` | 2 keyrings | `OperatorValuesSurvive`, `RegenAgrees` |

Each property of a passing run has a mutant, a small wrong version of one definition
written beside it and marked "Mutant", under which TLC finds the property violated.

### Bounds

Two concurrent requests are what every race found in the source needs: one that has decided and
one that changes what it decided on.

- `connections`: two connections of one workspace are an incumbent and a successor; the
  properties speak of one workspace at a time, and the theorems cover any number. Coordinates
  and secrets are compared for equality only; `activate_race` has the two coordinates it needs.
  Ids are UUIDs: a deleted connection's id is not used again. No symmetry, as a liveness
  property is checked.
- `runtime`: two workspaces tell isolation from luck, a third connection evicts from a cache of
  two while both calls hold providers, two secrets tell a superseded credential from a
  current one, and two stamps repeat and differ.
- `projects`: `MaxTime = 3` is the mint, the expiry, the touch throttle of 1 and one instant beyond.
- `admin`: the second request only reads (`OneMutates`): what a second verb would change of the
  realm, `ChangeOutOfBand` changes at any moment, and its `Invalidate` only removes entries.
- `gateway`: a behaviour is watched under one of four mixes (`FourMixes`), chosen at the start:
  every route, one request at a time; two requests at once at the edge with five ticks; the
  console alone with five ticks; two operators who archive one workspace and its project at the
  same time. The limiters read nothing of a route but whether it is under `/v1`, so the second mix
  loses none of their interleavings. Of the routes only the archives meet each other in the
  domain the model keeps, and the fourth mix has these; what the others do to one another is
  `Connections`, `Projects` and `Realm`. Five ticks empty, refill, age and sweep a bucket of 2 that
  is stale after 4, with clocks late by 1, the least that satisfies `RateAssumption` with a wait.
  There is no restart: the initial state is the one a restart returns to.
- `realm`: the old user, one created by each request. Pages of one cross two page borders and
  meet the cap of three. One revocation and one more trouble are a 401 with a lost answer, a
  hang-up, an outage or a second loss behind it. Troubles and requests are bounded and the realm
  may come to rest, so this run alone switches the deadlock check off.
- `lifecycle`: two replicas contend for the lock, one dies in a migration and the other finds it;
  a delay of two with a probe at every tick is the smallest that lets a probe see readiness drop.
- `trail`: three events put two of the workspace at one instant or at two, with one of a
  neighbour between; pages of one have the most borders. Six ticks are a life that ends before its
  first sweep or after it, a time down longer than the window, and a boot with its delay, a failed
  sweep and the next. A process whose every life is shorter than the delay never sweeps, and
  `WindowIsKept` says nothing of a process that is not past its first sweep.
- `installation`: values are compared for equality only.

Model values that the code compares only for equality are symmetric in the safety runs; the runs
with liveness use no symmetry.

### Fairness

`connections` assumes strong fairness of each request's continuation, `SF_vars(Continue(r))`.
A goroutine that is runnable is scheduled, and one that waits in PostgreSQL sits in the lock's
queue: each time the lock is freed it may be granted, and a queue of finite length does not
overtake a waiter for ever. New requests need not arrive. `WF_vars(DeadlockDetected(r))` is
PostgreSQL's `deadlock_timeout`: two transactions that wait for each other are looked at. Without it
`RequestsFinish` is false of the code.

`lifecycle` assumes weak fairness of what a process does by itself (`Advance`: its timers, its
attempts at the issuer, its bounded wait for the lock, its exits) and of the load balancer's probe,
and strong fairness of `Tick`: the supervisor may restart replicas for ever, but no infinite number
of restarts fits between two ticks. Strong fairness of `EnsureVersionTable` is the queue of
PostgreSQL's advisory lock: a waiter that the lock is free for again and again is granted it.
Nothing is assumed of handlers, signals or dependencies, of the statements of a migration, or of
the ping while the database is away. A handler may hang and the shutdown ends all the same. A boot
does not: it waits for the database as long as the ping hangs, and in `WithInstance` for as long
as another replica's migration runs. So `BootEnds` has both as premises (the database comes back
for good; no replica migrates for ever), and it is violated without either, or without the
fairness of the lock's queue.

## 4. Findings

1. `activate_race`. `CanActivate` is evaluated on a row read before the transaction, and
   the promotion re-checks `status = 'draft'` but not the verdict. An edit committed
   between resets the verdict and the new, unprobed configuration goes live
   (`resolver.go:351`: "Verification gates ACTIVATION").
2. `projects_cap`. The cap is a count before the transaction: two creations both pass
   (`project/model.go:42`: "MaxActiveCredentials caps live credentials per project").

More places where the models reach what a comment, a document or a caller would not expect. They
are described with the hazards or excluded by name in the property concerned, and not run as
violations:

- A process still on the old keyring seals under the old key and commits behind a rotation's
  listing, and the run reports itself complete (`rotate.go:320`). The documented restart order
  avoids it: the precondition of `NoRowStranded` and `CompleteOnceRestarted`.
- The live-admin check reads role mappings only, so it admits an admin who was disabled
  (`identity/handler.go:488`: the change "takes effect on the next request").
- An upstream admin read in flight while its entry is invalidated is stored afterwards for a
  whole TTL; `RevokedIsRefused` excludes exactly that window.
- Role changes through the workspace API never invalidate the live-admin cache: the TTL is
  their only bound, as it is for changes out of band.
- A GET-merge-PUT patch writes back every field it read, `enabled` included; `PatchIsExact`
  compares with the state that was read.
- The invitation alias of user deletion skips the last-admin guard.
- `CreateUserWithPassword` undoes itself with the request's context, so a client that hangs up
  leaves a half-made user; the invitation's cleanup has a context of its own.
- A workspace archived between an activation's check and its commit gets a connection
  activated; the resolver still refuses to serve it.
- `make init` asks for three of the four secrets and writes the admin client's id without its
  secret, which `Validate` refuses until a regeneration. `make regen` also writes
  `KEYCLOAK_JWKS_URL` and `KEYCLOAK_ADMIN_BASE_URL` again after an operator has blanked them.
- `init.sh` killed after its copy and before its edits leaves an `.env` every later run leaves
  untouched.
- Archiving what is already archived changes nothing and files one more row of success
  (`workspace/service.go:208`, `project/service.go:212`); `service_audit_test.go:119` says of a row
  for a mutation that never happened that it is worse than a missing one. `TrailTellsTheTruth`
  allows exactly this row.
- Four mutations emit no event at all, on success or failure: the SMTP settings and the creation of
  a user with a password (`server/smtp_handler.go:56`, 168), the update and the reset of an e-mail
  template (`server/email_templates_handler.go:108`, 136), though `logging/gin_helpers.go:122` says
  that every mutation must. In `Routes` their `events` are empty; no property speaks of them.
- `UpdateProject` reads the project's credentials again after the rename has committed and answers
  500 if that fails (`project/handler.go:215`), though `docs/AUDIT.md:216` says that a 500 of the
  control plane means that nothing changed. `FailureMeansUnchanged` excepts it, and the lost answer
  of a commit, which that document discloses (`docs/AUDIT.md:278`).
- Two activations of one draft may deadlock in PostgreSQL (section 2); the one that is rolled back
  is answered with a driver error, where `repository.go:414` speaks of `ErrWorkspaceHasActive` for
  a lost race (of two different connections).
- A replica whose sibling migrates for longer than 15 s may wait in `WithInstance` without bound;
  the ping at boot has no deadline. `database.go:87` calls the retry bounded.
- A process that dies within 30 s of every boot never sweeps the audit trail.
- A second signal shortens the drain delay only; during the wait for the requests it changes
  nothing.

## 5. Proofs

Eight modules. Each has the same shape: an inductive invariant, a lemma per action (or per kind of
step), one theorem that joins them, and the properties as consequences. The type invariants are
proved there and are not among the runs' properties.

### `ConnectionsProofs`: the handlers

Assumptions: `Owner \in [Conns -> Workspaces]` and `None` is no coordinate and no secret. No
bound on workspaces, connections, requests, coordinates or secrets.

| theorem | states |
|---|---|
| `TypeCorrect` | `Spec => []TypeOK` |
| `IncumbentsHeld` | `Spec => []LocksHoldTheIncumbent` |
| `RingsOfTwo` | `Spec => []RingsAreOfTwo` |
| `Refinement` | `Spec => StoreSpec` |
| `OneActive` | `Spec => []OneActivePerWorkspace` |
| `ConfigFrozen` | `Spec => FrozenOnceActive` |
| `NoGap` | `Spec => SwapLeavesNoGap` |
| `TrailAccounts` | `Spec => []AuditMatchesRows` |

The argument. `IndInv` is the type invariant with three more parts: a request that is not idle
works on a connection and holds a configuration if it creates (`RequestOK`), a row that exists
has a configuration (`RowsConfigured`), and `LocksHoldTheIncumbent`. The last one is what
makes it inductive and what the rest needs: between the retiring and the promoting UPDATE of an
activation the incumbents are still active in the committed table, in its own
workspace, and in the hands of no other activation; and the draft it has locked is still one,
and locked by nobody else. Any other write to such a row is excluded by `Locked`; a second
activation that retires or promotes the same row is excluded by the same lock; so at the commit
the rows in `hit` really go from active to retired and the draft to active. There is one lemma per
handler (`ScanInd`, `SwapInd`, `LockInd`, `PromoteInd`, `UpdateInd`, ...), joined in `NextInd`.
`RingsOfTwo` reads the waits off the same invariant: a request in the index waits for one that has
retired the active row of its workspace; there is only one such row (`OneActive`) and one request
that has it, so that one is not in the index itself and waits, if at all, for its draft, whose
holder is in the index of the same workspace and waits for it in turn.
`StepRefines` maps each commit to the store's action of the same name and every other step to a
stutter; the promotion maps to `Promote`, which retires exactly the active rows of the
workspace, because `~DuplicateKey` says that `hit` holds all of them. `OneActive` then needs
only the store's steps, and `ConfigFrozen` only the store's guards. `NoGap` looks at the
step that empties a workspace's active set: only the commits of a retirement can.
`TrailAccounts` needs the same knowledge of `hit`: `AuditMatchesRows` relates the events counted
for a connection to its status, one connection at a time (`RowAccounted`), so a commit has to
record exactly one event for each row it moves and leave the counts of the others
(`TrailUntouched`, `TrailKept`). An activation moves its own row and every row in `hit`, and
`LocksHoldTheIncumbent` says those are still active when it writes them as retired.

### `ConnectionsProofs`: the resolver

Assumptions: the store's, and a cache size above zero. Theorems: `RuntimeTypeCorrect`,
`ServedCurrent`, `RetiredServesNobody`, `CacheBounded`, `OneGeneration`, `RuntimeFrozen`.

The argument. The cache is never told of a change, so its soundness rests on the table: what is
cached (`CacheSound`), and what a resolution carries from one read to the next (`SoundCall`),
belongs to a connection that has been activated, and the configuration of such a connection is
frozen until its row is gone (`FrozenStep`, a fact about every step of the store). A stamp that
repeats is harmless for the same reason. `PastCall` keeps what a resolution found out of service
out of service.

### `ProjectsProofs`

Assumptions: `ProjectOf \in [Creds -> Projects]`, natural bounds, and `None` outside every set it
stands beside. `MaxTime` only bounds the clock; the theorems hold for every value of it.
Theorems: `ProjectsTypeCorrect`, `AcceptedSound`, `RevocationFinal`, `NamesUnique`.

The argument. `ProjectsInd` adds to the types what each pending request relies on
(`OperatorOK`, `AuthOK`), that two requests never insert one id (`FreshIds`), and the foreign key of a
credential (`CredsOwned`). The heart is `AuthOK`: an authentication between its reads was sound
when it began *if what it still has to check holds now*. That implication survives every step because
time and archiving make its conditions false and nothing makes them true again: a project
becomes active only when it is created, and the project of a credential already exists. `RequestStep`
is the common part of all steps that change one request and no table, `TableStep` of those that
commit.

### `SecretRotationProofs`

Assumptions: `None` stands outside the sets it is used beside. Theorems: `RotationTypeCorrect`,
`CredentialsKept`, `NobodyStranded`, `CompleteMeansAll`.

The argument. `HeldRows`: a row read under its lock is still what was read. `SealedUnder`: a
process seals under its own current key. `KeyringOrder` and `FirstRunsIdle`: the three keyrings
follow one another and nobody holds a future one. For the two properties that need the
procedure: `OldKeyUnneeded` (once the old key is safe to remove, no row has it and no process
seals under it) and `Outstanding` (a row not yet rotated is in the run's list or in its hands,
or the run reports a failure).

### `AdminGuardProofs`

Assumptions: `Ops` maps requests to sets of verbs, `TTL` is positive, `None` is no user. Theorems:
`GuardTypeCorrect`, `VerdictsAge`, `RevokedStaysOut`, `AnAdminRemains`.

The argument is about ages. `RoleIsFresh`, `ReadAge`, `EntryAge`: the role was held no longer ago
than the read has waited, and than the entry has been kept plus one read. `TakenIsTaken`: a role
whose taking was answered is neither held, nor cached, nor about to be. `Counted`: a count of
admins that nothing has outrun still holds.

### `RateLimiterProofs`

Assumption `RateAssumption`: rate and burst are positive and an idle bucket refills, twice the
longest wait included, before it is swept (the defaults refill in 2 s, sweep after 10 min and hold
the mutex for microseconds). Theorems: `LimiterTypeCorrect`, and `LimiterIsABucket`:
`LimiterSpec => MeteredSpec`, the refinement of `TokenBucket`. The level of a bucket (`Worth`) is
what it *would* hold if touched now by a clock that is not late, with `Slack` beyond the burst for
what a late clock may still claim. That a debt is never more than what was earned since
(`Earned(b) >= 0`) is part of the type. `TouchOne`, `CreditOne` and `TickOne` show what each
operation does to one bucket, for any lateness: an admission takes one token, and spills only what
is beyond the burst; a refusal takes none. A bucket that any clock finds stale is full
(`StaleIsFull`), so that forgetting it changes nothing.

### `GatewayProofs`

Assumption `GatewayAssumption`: finitely many requests, credentials bound to a workspace with
some scopes, limits as in `RateAssumption`. Theorems: `GatewayTypeCorrect`, `FloodMetered`,
`EdgeImplementsBucket`, `AuthorityConfined`, `TrailTrue`, `FailureSafe`.

The argument. `RequestOK` says what a request carries at each stage: who is known, what was
checked, what became of its call. The limit at the edge needs an account per address: charged
for good, plus in flight, plus what is left in the bucket, never exceed one burst and the refill
since. A refund moves one unit from "in flight" to "left" or drops it; a request that is admitted
moves one the other way. `RateLimiterProofs` is instantiated for each of the three limiters, late
clocks included: what they may add is paid by the time that has passed since the process started.
For the trail, `GatewayInv` has `archived = filed`, kept by every commit (`CommitFiles`), and
`Repeats`: an open archive that has changed no row found its target archived, and what is archived
stays so. `RequestOK` says what an outcome of each transaction left behind, which is what
`FailureSafe` reads off an answer.

### `RealmProofs`

Assumption `RealmAssumption`: finitely many user ids, ordered as numbers, one of them the user
invited earlier; a positive page size. No bound on the requests, the users, the revocations or the
troubles: `MaxRevocations` and `MaxTroubles` are any numbers.

| theorem | states |
|---|---|
| `RealmTypeCorrect` | `RealmSpec => []RealmTypeOK` |
| `AppliedOnce` | `RealmSpec => []AppliedAtMostOnce` |
| `NoUserLeftBehind` | `RealmSpec => []FailedInvitationLeavesNoUser` |
| `ProvisioningHolds` | `RealmSpec => []AnsweredMeansProvisioned` |
| `PatchesAreExact` | `RealmSpec => PatchIsExact` |
| `RetryEscapes` | `RealmSpec => []RetryEscapesOneRevocation` |
| `ListingsComplete` | `RealmSpec => []ListingIsComplete` |

The argument. The invariant never relates two requests: each is related to the realm, or to the
token cache, and the others may change those only in ways that relation survives.

- *Programs* (`ProgressInv`). `Reached(users, q, k)` is what the first `k` calls of a program have
  left behind: the user exists, has the role, the mail, the password, or is still as the patch
  read it unless its version moved. The steps of the others, and of the users themselves, only
  let accounts evolve (`Evolves`: an address is never given up, a deleted user never revived, a
  role, a mail and a password never undone, and `name` and `enabled` change with the version), and
  `Reached` is monotone in that (`ReachedKept`). `ReplySound` is the one lemma per call of a
  program; `SuccessProgress` and `FailureProgress` follow the request to its next call, its
  compensating delete or its answer. `Under` and `Over` say which of these a request that is
  served, or has been answered, may count on. That a served request has not been applied yet
  (`hits = 0`) is part of it: every step that applies a call also ends it.
- *Tokens* (`TokenInv`). A token refused by the realm is older than its epoch; a retry starts with
  the cache emptied, so the token it finds is a newer one unless another request, still holding
  the old one, stored it in between (`spoiled`). So a second refusal takes that, or a second
  revocation.
- *Listings* (`ListInv`). A page is a window by position. Positions (`Rank`) only grow while nobody
  leaves (`RankGrows`), so a user who was there from the first page on has been listed, or stands
  at the next page's position or behind it (`Ahead`). A page with somebody behind it is full
  (`FullPage`, from `FirstOnes`: as many users are before position `m` as `m` says), so a short page
  has nobody behind it and may end the listing.

### `OperationsProofs`: Lifecycle

Assumption `LifecycleAssumption`: natural delays, at least one attempt, and a probe period of at
least one tick. Theorems: `LifecycleTypeCorrect`, `SchemaIsCurrent`, `SignalIsClean`,
`PoolClosesLast`, `ShutdownIsTimed`. The invariant has a part per question: `Timed` (how long a
shutdown has taken), `Migrated` (only the holder of the lock inspects or migrates, there is
something left to do or to report while it migrates, what is past the migrations found the schema
current and clean, and a dirty schema is at a version of at least one), `Placed` (a request is on a
replica that holds its connection, and a released one was late), `Routed` (a draining replica that
is still routed to has not been probed since the signal).

### `OperationsProofs`: AuditTrail

Assumption `TrailAssumption`: event ids are numbers (PostgreSQL orders the uuids), positive page
size, retention and period, any startup delay, and statements that end within `MaxLag`, at most
one retention.
Theorems: `PagesExact` (`TrailSpec => []PagesAreExact`) and `WindowKept`
(`TrailSpec => []WindowIsKept`).

The argument. *Window*: an event under way was stamped at most `MaxLag` ago (`RowsAreDone`), so it
commits inside its retention and no sweep has yet passed it by, whatever died or was down
meanwhile. The other side is about the process that is up: `YetToSweep` relates how long it has
been up to the sweeps that failed and what is left until the next, as long as none succeeded, and
`AgesBounded` bounds the age of a row once one has: the retention, one period, and one more for each
failure since, minus what is left (`WindowClock`). A crash forgets both, so the bound is claimed
again only after the first sweep of the next process. *Pages*: (timestamp, id) is a strict total order, whatever timestamps repeat
(`NewerOrder`). `CursorSplits` says of every event that was there when the walk began that it has
been returned and is not older than the cursor, or still is to come and older. `PageIsPrefix`: a
page is the newer part of what lies below the cursor, so the next cursor splits again. A row that
commits late with an old timestamp lands on either side and breaks neither half: it was not there
when the walk began.

### `OperationsProofs`: Installation

Assumption `KeyringAssumption`: no keyring is empty. Theorems: `ValuesSurvive`
(`InstallSpec => []OperatorValuesSurvive`) and `RegenLeavesAgreement`
(`InstallSpec => []RegenAgrees`).

The argument. Between its read of `.env` and its write, what an operator owns is in the hands of
the run alone: `ReadBeforeEmptied` says that at the moment of truncation the run holds what the
file holds, and `InHand` that it does until it has written. `KeepOwned`: `Preserved.keep` drops
nothing the file has. `EnvAsWritten`: until a regeneration ends, and as long as nobody edits
beside it, `.env` is what it wrote, so the export it writes last agrees with it.

### Only model-checked

- The liveness properties `RequestsFinish`, `ShutdownEnds` and `BootEnds`: liveness under
  fairness is out of the prover's reach.
- The two violations of section 4, which are counterexamples.

Every safety property and action property of a passing run is stated by a theorem. What the
theorems do not cover is what the models abstract (section 6) and the tables of constants an
instance chooses: `gateway` checks the 78 routes of the code, and so does the theorem; `realm`
checks all seven programs, and so does the theorem.

## 6. Not modelled

- Wire formats, DTOs, validation of strings, the HTTP status a refusal maps to beyond the set
  `Failures`, logging and metrics. Cryptography: a sealed value is what it opens to and with
  which key. Failures of PostgreSQL beyond a rolled-back transaction and a lost answer of COMMIT.
- The contents of a probe (`connection/verifier.go`): read-only, its verdict is an input.
- Workspace creation and rename: single statements under a unique index. The race of two first
  logins in `EnsureUser`: likewise one upsert.
- Signature and claim checks and the background refresh of the key set: a library's.
- In `AuditTrail` the size of the in-process ring and redaction. `DB_MIGRATE_ON_BOOT=false` and
  the migration CLI except `force`. CORS, headers and TLS of the server.
- In `Realm` programs always carry roles; role CRUD, sessions, SMTP and localisation are one call
  each through the same client and are not told apart.
- In `Installation` two programs never run at once, an edit between awk's read and its `mv` is
  part of the neighbouring step, and of the variables only those that another file or a later run
  depends on are kept. The parsing of the environment and the other rules of `Validate` are left
  out.
- The Go SDK (one request per call, no retry), the console, `lwprobe` and the landing pages: they
  are clients of the API, `Gateway` has their requests.

Share of the source. The map names about a sixth of the implementation's lines. Of the rest the
largest parts are the generated OpenAPI document (`docs/docs.go`, 7334 lines), the probe
(`cmd/lwprobe`), the DTOs and their conversions, the parsing of configuration, metrics, and the
HTML of the landing pages: code without state, whose models would restate it line by line.

## 7. Plan

Done, in the order the behaviours matter: the store and the connection handlers; the resolver over
the same store; rotation; projects; the admin guard; the request path with its limiters and the
whole surface; the realm behind it; the processes from boot to exit; the trail; the files. Proved:
every safety and action property of these, and the two refinements.

What would add most next:

1. Authentication as one atomic check of the tables, as an abstract specification that `Projects`
   implements; re-sealing as a stutter on plaintexts for `SecretRotation`.
2. An abstract provisioning (a user exists whole, or not at all) that `Realm`'s invitation
   implements between its calls.
3. Liveness of an interrupted rotation that is run again.
4. The migration CLI (`down`, `steps`) beside serving replicas.
