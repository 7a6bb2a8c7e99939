-------------------------- MODULE ProviderRuntime --------------------------
(***************************************************************************)
(* The identity runtime: Resolver.ForWorkspace (identityruntime/           *)
(* resolver.go) and its LRU of providers (cache.go), running against the   *)
(* connections table while operators change it.  A resolution is a         *)
(* sequence of reads of the table (workspace, active row, sealed secret)   *)
(* with a cache lookup and a late put between them; nothing tells the      *)
(* cache that a row changed.                                               *)
(*                                                                         *)
(* The table is ConnectionStore, which Connections implements.  Its        *)
(* updated_at column, half of the cache key, is written with a time taken  *)
(* before the commit (a verification writes the time of its probe), so a   *)
(* write may move it anywhere, back to an earlier value included.  Only an *)
(* active row's is ever read here, so only an active row has one.  Which   *)
(* entry a full cache gives up is left open: the least recently used one   *)
(* is a possible choice, and nothing below depends on it.                  *)
(***************************************************************************)
EXTENDS ConnectionStore, Naturals, FiniteSets

CONSTANTS
    Calls,          \* resolutions running at the same time
    Stamps,         \* values of connections.updated_at
    CacheSize       \* providerCache.max

ASSUME CacheSizeAssumption == CacheSize \in Nat \ {0}

VARIABLES
    stamp,          \* connections.updated_at of the active rows
    cached,         \* providerCache.index: the keys held
    provider,       \* the configuration the provider under each key was built from
    call            \* what each resolution has read so far

runtimeVars == <<status, coord, secret, archived, stamp, cached, provider, call>>
cacheVars == <<cached, provider>>

Configs == (Coords \cup {None}) \X (Secrets \cup {None})

NoConfig == <<None, None>>

Keys == Conns \X Stamps

\* Mutant: keyed by the tenant's most recent entry, whatever connection built it.
KeyOfWorkspace(c, t) ==
    LET same == {k \in cached : Owner[k[1]] = Owner[c]}
    IN  IF same = {} THEN <<c, t>> ELSE CHOOSE k \in same : TRUE

\* cacheKey: the connection and its updated_at.
CacheKey(c, t) == <<c, t>>

NoCall == [pc |-> "idle", ws |-> None, conn |-> None, key |-> NoConfig,
           coord |-> None, prov |-> NoConfig, past |-> {}]

CallRecords ==
    [pc : {"idle", "workspace", "row", "miss", "built", "served"},
     ws : Workspaces \cup {None}, conn : Conns \cup {None}, key : Keys \cup {NoConfig},
     coord : Coords \cup {None}, prov : Configs, past : SUBSET Conns]

RuntimeTypeOK ==
    /\ StoreTypeOK
    /\ stamp \in [Conns -> Stamps \cup {None}]
    /\ \A c \in Conns : status[c] = "active" => stamp[c] \in Stamps
    /\ cached \subseteq Keys
    /\ provider \in [Keys -> Configs]
    /\ call \in [Calls -> CallRecords]

RuntimeInit ==
    /\ StoreInit
    /\ stamp = [c \in Conns |-> None]
    /\ cached = {}
    /\ provider = [k \in Keys |-> NoConfig]
    /\ call = [r \in Calls |-> NoCall]

-----------------------------------------------------------------------------
(* The operators' side: one committed transaction a step.                  *)
InsertOrEdit(c) ==
    /\ \E k \in Coords, s \in Secrets : InsertDraft(c, k, s) \/ EditDraft(c, k, s)
    /\ UNCHANGED <<stamp, cacheVars, call>>

\* The incumbent leaves with the same commit.
Activate(c) ==
    /\ Promote(c)
    /\ \E t \in Stamps : stamp' = [d \in Conns |-> IF d = c THEN t
                                                  ELSE IF status'[d] = "active" THEN stamp[d]
                                                  ELSE None]
    /\ UNCHANGED <<cacheVars, call>>

Retire(c) ==
    /\ RetireRow(c)
    /\ stamp' = [stamp EXCEPT ![c] = None]
    /\ UNCHANGED <<cacheVars, call>>

Delete(c) ==
    /\ DeleteRow(c)
    /\ UNCHANGED <<stamp, cacheVars, call>>

\* SaveVerification of an active row: updated_at = CheckedAt.
SaveVerification(c) ==
    /\ status[c] = "active"
    /\ \E t \in Stamps : stamp' = [stamp EXCEPT ![c] = t]
    /\ UNCHANGED <<storeVars, cacheVars, call>>

Archive(w) ==
    /\ ArchiveRow(w)
    /\ UNCHANGED <<stamp, cacheVars, call>>

-----------------------------------------------------------------------------
(* Resolver.ForWorkspace.                                                  *)

\* requireLiveWorkspace; past is history: what was out of service already.
RequireLiveWorkspace(r, w) ==
    /\ call[r].pc = "idle"
    /\ w \notin archived
    /\ call' = [call EXCEPT ![r] = [NoCall EXCEPT
                   !.pc = "workspace", !.ws = w,
                   !.past = {c \in Conns : Owner[c] = w /\ status[c] \in {"retired", "deleted"}}]]
    /\ UNCHANGED <<storeVars, stamp, cacheVars>>

\* Mutant: GetActiveByWorkspace without status = 'active', usable without its check.
AnyRowOf(w) == {c \in Rows : Owner[c] = w}

\* GetActiveByWorkspace and usable: the rows that qualify.
UsableIn(w) == ActiveIn(w)

ReadActiveRow(r) ==
    /\ call[r].pc = "workspace"
    /\ \/ \E c \in UsableIn(call[r].ws) :
             call' = [call EXCEPT ![r].pc = "row", ![r].conn = c,
                                  ![r].key = CacheKey(c, stamp[c]), ![r].coord = coord[c],
                                  ![r].past = @ \cap {c}]
       \/ UsableIn(call[r].ws) = {} /\ call' = [call EXCEPT ![r] = NoCall]
    /\ UNCHANGED <<storeVars, stamp, cacheVars>>

CacheGet(r) ==
    LET k == call[r].key IN
    /\ call[r].pc = "row"
    /\ \/ /\ k \in cached
          /\ call' = [call EXCEPT ![r].pc = "served", ![r].prov = provider[k]]
       \/ /\ k \notin cached
          /\ call' = [call EXCEPT ![r].pc = "miss"]
    /\ UNCHANGED <<storeVars, stamp, cacheVars>>

\* buildProvider: a second read of the row, the unsealing, the constructor.
BuildProvider(r) ==
    LET c == call[r].conn IN
    /\ call[r].pc = "miss"
    /\ \/ /\ c \in Rows
          /\ call' = [call EXCEPT ![r].pc = "built", ![r].prov = <<call[r].coord, secret[c]>>]
       \/ call' = [call EXCEPT ![r] = NoCall]
    /\ UNCHANGED <<storeVars, stamp, cacheVars>>

\* Mutant: the previous generations of the connection are left in the cache.
KeepGenerations(c) == {}

\* The other entries of the connection, which put drops.
Superseded(c) == {k \in cached : k[1] = c}

\* Mutant: the eviction loop runs one entry too late.
EvictLate(keys) == IF Cardinality(keys) > CacheSize THEN {{k} : k \in keys} ELSE {{}}

\* What the eviction loop may give up; keys excludes the entry just pushed.
Evicted(keys) == IF Cardinality(keys) + 1 > CacheSize THEN {{k} : k \in keys} ELSE {{}}

CachePut(r) ==
    LET k == call[r].key
        kept == cached \ Superseded(call[r].conn)
    IN  /\ call[r].pc = "built"
        /\ IF k \in cached THEN UNCHANGED cached
           ELSE \E gone \in Evicted(kept) : cached' = (kept \ gone) \cup {k}
        /\ provider' = [l \in Keys |-> IF l = k THEN call[r].prov
                                       ELSE IF l \in cached' THEN provider[l] ELSE NoConfig]
        /\ call' = [call EXCEPT ![r].pc = "served"]
        /\ UNCHANGED <<storeVars, stamp>>

\* The handler has used the provider and answered.
Answer(r) ==
    /\ call[r].pc = "served"
    /\ call' = [call EXCEPT ![r] = NoCall]
    /\ UNCHANGED <<storeVars, stamp, cacheVars>>

-----------------------------------------------------------------------------
RuntimeNext ==
    \/ \E c \in Conns : \/ InsertOrEdit(c) \/ Activate(c) \/ Retire(c)
                        \/ Delete(c) \/ SaveVerification(c)
    \/ \E w \in Workspaces : Archive(w)
    \/ \E r \in Calls : \/ \E w \in Workspaces : RequireLiveWorkspace(r, w)
                        \/ ReadActiveRow(r) \/ CacheGet(r) \/ BuildProvider(r)
                        \/ CachePut(r) \/ Answer(r)

RuntimeSpec == RuntimeInit /\ [][RuntimeNext]_runtimeVars

-----------------------------------------------------------------------------
(* Tenant isolation: whatever a request is served, from the cache or fresh,*)
(* is a provider for a connection of the workspace it asked for, built     *)
(* from exactly the coordinates and the secret that connection was         *)
(* activated with (cache.go: never "serve a provider built from a          *)
(* credential that is no longer current").  It does not rest on updated_at *)
(* being fresh: an activated row is frozen, so a stamp that repeats cannot *)
(* bring back another configuration.                                       *)
ServedProviderIsCurrent ==
    \A r \in Calls : call[r].pc = "served" =>
        /\ Owner[call[r].conn] = call[r].ws
        /\ call[r].conn \in Rows => call[r].prov = <<coord[call[r].conn], secret[call[r].conn]>>

(* A connection that was out of service before the request arrived never   *)
(* serves it, though its provider may still be in the cache (cache.go:     *)
(* "connection retired: not resolved").                                    *)
RetiredNeverServes ==
    \A r \in Calls : call[r].pc = "served" => call[r].conn \notin call[r].past

(* The cache never holds more than CacheSize providers, whatever puts      *)
(* race (cache.go put: the eviction loop).                                 *)
CacheIsBounded == Cardinality(cached) <= CacheSize

(* The cache holds one generation of each connection: a superseded         *)
(* provider and the token it minted are released with the put of its       *)
(* successor (cache.go put: "Rotation should release the old session       *)
(* promptly, not eventually").                                             *)
OneGenerationPerConnection == \A k, l \in cached : k[1] = l[1] => k = l
=============================================================================
