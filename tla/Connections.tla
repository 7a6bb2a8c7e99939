---------------------------- MODULE Connections ----------------------------
(***************************************************************************)
(* The connection lifecycle as the API runs it: concurrent handlers of     *)
(* internal/connection/service.go, each a read of the row, a decision on   *)
(* that read, and a later transaction (database.Runner.InTx) that commits  *)
(* the mutation together with its audit row or rolls both back.            *)
(*                                                                         *)
(* PostgreSQL runs at READ COMMITTED.  A transaction of one guarded        *)
(* statement is one step: its row lock only delays the others.  Activate   *)
(* has two statements, so it is four steps: the snapshot that finds the    *)
(* incumbents, the update that locks and retires those still active, the   *)
(* promoting update that locks the draft, and its wait in the unique index *)
(* with the commit.  It keeps the locks of each step while it waits in the *)
(* next, so two activations can wait for one another.                      *)
(***************************************************************************)
EXTENDS ConnectionStore, Naturals

CONSTANT Reqs       \* requests being served at the same time

VARIABLES
    health,         \* connections.health; "lapsed": unhealthy, or healthy beyond VerifyValidity
    probed,         \* history: the coordinates and secret the stored verdict was obtained with
    audited,        \* committed audit_events rows, counted per connection and event
    req             \* what each request has read and decided so far

vars == <<status, coord, secret, archived, health, probed, audited, req>>

Healths == {"unknown", "healthy", "lapsed"}

\* The events that record a change of status; updated and verified are not counted.
Events == {"created", "activated", "retired", "deleted"}

PCs == {"idle", "create", "update", "open", "save", "retire", "delete",
        "scan", "swap", "promote", "index"}

NeverProbed == <<None, None>>

Idle == [pc |-> "idle", conn |-> None, coord |-> None, secret |-> None,
         ok |-> FALSE, hit |-> {}]

Requests == [pc : PCs, conn : Conns \cup {None}, coord : Coords \cup {None},
             secret : Secrets \cup {None}, ok : BOOLEAN, hit : SUBSET Conns]

TypeOK ==
    /\ StoreTypeOK
    /\ health \in [Conns -> Healths]
    /\ probed \in [Conns -> (Coords \cup {None}) \X (Secrets \cup {None})]
    /\ audited \in [Conns -> [Events -> Nat]]
    /\ req \in [Reqs -> Requests]

Init ==
    /\ StoreInit
    /\ health = [c \in Conns |-> "unknown"]
    /\ probed = [c \in Conns |-> NeverProbed]
    /\ audited = [c \in Conns |-> [e \in Events |-> 0]]
    /\ req = [r \in Reqs |-> Idle]

-----------------------------------------------------------------------------
\* An Activate that has retired its incumbents, and holds their row locks.
Holding(r) == req[r].pc \in {"promote", "index"}

\* One that has locked its draft, too.
Claims(r, c) == req[r].pc = "index" /\ req[r].conn = c

\* Rows an open transaction has locked.
Locked(c) == \E r \in Reqs : (Holding(r) /\ c \in req[r].hit) \/ Claims(r, c)

Record(c, e) == audited' = [audited EXCEPT ![c][e] = @ + 1]

Begin(r, c, p, k, s) ==
    /\ req[r].pc = "idle"
    /\ req' = [req EXCEPT ![r] = [Idle EXCEPT !.pc = p, !.conn = c, !.coord = k, !.secret = s]]
    /\ UNCHANGED <<storeVars, health, probed, audited>>

End(r) == req' = [req EXCEPT ![r] = Idle]

\* Mutant: InTx commits what a failed fn had already written.
CommitFirstHalf(r) ==
    /\ End(r)
    /\ status' = [d \in Conns |-> IF Holding(r) /\ d \in req[r].hit
                                  THEN "retired" ELSE status[d]]
    /\ UNCHANGED <<coord, secret, archived, health, probed, audited>>

Refuse(r) == End(r) /\ UNCHANGED <<storeVars, health, probed, audited>>

\* Service.Create up to InTx: the workspace read, the fresh id, the sealed secret.
CreateBegin(r, c, k, s) ==
    /\ Owner[c] \notin archived
    /\ status[c] = "absent"
    /\ \A q \in Reqs : req[q].conn # c
    /\ Begin(r, c, "create", k, s)

CreateCommit(r) ==
    LET c == req[r].conn IN
    /\ req[r].pc = "create"
    /\ InsertDraft(c, req[r].coord, req[r].secret)
    /\ Record(c, "created")
    /\ End(r)
    /\ UNCHANGED <<health, probed>>

\* Service.Update up to InTx; None is a nil field of the patch.
UpdateBegin(r, c, k, s) ==
    /\ status[c] = "draft"
    /\ Begin(r, c, "update", k, s)

\* UpdateConfig: guarded by status = 'draft'; touching what is probed resets the verdict.
UpdateCommit(r) ==
    LET c == req[r].conn
        k == req[r].coord
        s == req[r].secret
        reprobe == k # None \/ s # None
    IN  /\ req[r].pc = "update"
        /\ ~Locked(c)
        /\ \/ /\ EditDraft(c, IF k = None THEN coord[c] ELSE k,
                              IF s = None THEN secret[c] ELSE s)
              /\ health' = IF reprobe THEN [health EXCEPT ![c] = "unknown"] ELSE health
              /\ probed' = IF reprobe THEN [probed EXCEPT ![c] = NeverProbed] ELSE probed
              /\ UNCHANGED audited
              /\ End(r)
           \/ status[c] # "draft" /\ Refuse(r)

\* Service.Verify, first read: the row and its coordinates, whatever its status.
VerifyBegin(r, c) ==
    /\ c \in Rows
    /\ Begin(r, c, "open", coord[c], None)

\* OpenSecret is a second read; then the provider is probed over the network.
VerifyProbe(r) ==
    LET c == req[r].conn IN
    /\ req[r].pc = "open"
    /\ \/ /\ c \in Rows
          /\ \E ok \in BOOLEAN :
                req' = [req EXCEPT ![r].pc = "save", ![r].secret = secret[c], ![r].ok = ok]
          /\ UNCHANGED <<storeVars, health, probed, audited>>
       \/ c \notin Rows /\ Refuse(r)

\* SaveVerification: WHERE id = ? and nothing else.
VerifyCommit(r) ==
    LET c == req[r].conn IN
    /\ req[r].pc = "save"
    /\ ~Locked(c)
    /\ \/ /\ c \in Rows
          /\ health' = [health EXCEPT ![c] = IF req[r].ok THEN "healthy" ELSE "lapsed"]
          /\ probed' = [probed EXCEPT ![c] = <<req[r].coord, req[r].secret>>]
          /\ UNCHANGED <<storeVars, audited>>
          /\ End(r)
       \/ c \notin Rows /\ Refuse(r)

\* CanActivate: a draft whose verdict is healthy and within VerifyValidity.
CanActivate(c) == status[c] = "draft" /\ health[c] = "healthy"

ActivateBegin(r, c) ==
    /\ Owner[c] \notin archived
    /\ CanActivate(c)
    /\ Begin(r, c, "scan", None, None)

\* The first UPDATE takes its snapshot: the incumbents it is going to retire.
ActivateScan(r) ==
    /\ req[r].pc = "scan"
    /\ req' = [req EXCEPT ![r].pc = "swap",
                          ![r].hit = ActiveIn(Owner[req[r].conn]) \ {req[r].conn}]
    /\ UNCHANGED <<storeVars, health, probed, audited>>

\* It waits for their row locks and re-checks status = 'active' on each.
ActivateRetire(r) ==
    /\ req[r].pc = "swap"
    /\ \A d \in req[r].hit : ~Locked(d)
    /\ req' = [req EXCEPT ![r].pc = "promote",
                          ![r].hit = {d \in @ : status[d] = "active"}]
    /\ UNCHANGED <<storeVars, health, probed, audited>>

\* The second UPDATE waits for the row lock of the draft and re-checks its status.
ActivateLock(r) ==
    LET c == req[r].conn IN
    /\ req[r].pc = "promote"
    /\ \/ /\ status[c] = "draft" /\ ~Locked(c)
          /\ req' = [req EXCEPT ![r].pc = "index"]
          /\ UNCHANGED <<storeVars, health, probed, audited>>
       \/ status[c] # "draft" /\ Refuse(r)

\* Mutant: an activation that lost the race waits for the slot instead of failing.
SlotEmptied(r) == ActiveIn(Owner[req[r].conn]) \ req[r].hit = {}

\* The slot's entry is of a row that q has retired and not committed.
Vacating(q, r) == Holding(q) /\ req[q].hit \cap ActiveIn(Owner[req[r].conn]) # {}

\* The unique index waits for another transaction that is vacating its slot.
IndexSlotFree(r) == \A q \in Reqs \ {r} : ~Vacating(q, r)

\* Mutant: the table has no partial unique index.
NoUniqueIndex(r) == FALSE

\* gorm.ErrDuplicatedKey: an active row this transaction has not retired.
DuplicateKey(r) == ActiveIn(Owner[req[r].conn]) \ req[r].hit # {}

\* The index entry, the audit row and COMMIT; a duplicate rolls the incumbents back.
ActivateCommit(r) ==
    LET c == req[r].conn IN
    /\ req[r].pc = "index"
    /\ IndexSlotFree(r)
    /\ \/ /\ ~DuplicateKey(r)
          /\ status' = [d \in Conns |-> IF d = c THEN "active"
                                        ELSE IF d \in req[r].hit THEN "retired"
                                        ELSE status[d]]
          /\ Record(c, "activated")
          /\ End(r)
          /\ UNCHANGED <<coord, secret, archived, health, probed>>
       \/ DuplicateKey(r) /\ Refuse(r)

\* r, which holds locks, waits for q: for its draft, or in the index.
WaitsFor(r, q) ==
    \/ req[r].pc = "promote" /\ Claims(q, req[r].conn)
    \/ req[r].pc = "index" /\ q # r /\ Vacating(q, r)

\* PostgreSQL, after deadlock_timeout: one of two transactions that wait for one
\* another is rolled back, with error 40P01.  RingsAreOfTwo says why two are enough.
DeadlockDetected(r) ==
    /\ \E q \in Reqs : WaitsFor(r, q) /\ WaitsFor(q, r)
    /\ Refuse(r)

RetireBegin(r, c) ==
    /\ status[c] \in {"draft", "active"}
    /\ Begin(r, c, "retire", None, None)

\* Retire: guarded by status <> 'retired'.
RetireCommit(r) ==
    LET c == req[r].conn IN
    /\ req[r].pc = "retire"
    /\ ~Locked(c)
    /\ \/ /\ RetireRow(c)
          /\ Record(c, "retired")
          /\ End(r)
          /\ UNCHANGED <<health, probed>>
       \/ status[c] \notin {"draft", "active"} /\ Refuse(r)

DeleteBegin(r, c) ==
    /\ status[c] \in {"draft", "retired"}
    /\ Begin(r, c, "delete", None, None)

\* Delete: guarded by status <> 'active'.
DeleteCommit(r) ==
    LET c == req[r].conn IN
    /\ req[r].pc = "delete"
    /\ ~Locked(c)
    /\ \/ /\ DeleteRow(c)
          /\ health' = [health EXCEPT ![c] = "unknown"]
          /\ probed' = [probed EXCEPT ![c] = NeverProbed]
          /\ Record(c, "deleted")
          /\ End(r)
       \/ status[c] \notin {"draft", "retired"} /\ Refuse(r)

\* The audit insert fails, the client goes away, COMMIT fails, the process dies: ROLLBACK.
Abort(r) == req[r].pc # "idle" /\ Refuse(r)

\* workspace.Service.Archive: one guarded statement with its audit row.
ArchiveWorkspace(w) ==
    /\ ArchiveRow(w)
    /\ UNCHANGED <<health, probed, audited, req>>

\* VerifyValidity passes: IsVerified turns false while health stays 'healthy'.
VerdictExpires(c) ==
    /\ health[c] = "healthy"
    /\ health' = [health EXCEPT ![c] = "lapsed"]
    /\ UNCHANGED <<storeVars, probed, audited, req>>

-----------------------------------------------------------------------------
Start(r) ==
    \E c \in Conns :
        \/ \E k \in Coords, s \in Secrets : CreateBegin(r, c, k, s)
        \/ \E k \in Coords \cup {None}, s \in Secrets \cup {None} : UpdateBegin(r, c, k, s)
        \/ VerifyBegin(r, c)
        \/ ActivateBegin(r, c)
        \/ RetireBegin(r, c)
        \/ DeleteBegin(r, c)

\* The next step of a request under way.
Continue(r) ==
    \/ CreateCommit(r)
    \/ UpdateCommit(r)
    \/ VerifyProbe(r)
    \/ VerifyCommit(r)
    \/ ActivateScan(r)
    \/ ActivateRetire(r)
    \/ ActivateLock(r)
    \/ ActivateCommit(r)
    \/ RetireCommit(r)
    \/ DeleteCommit(r)

Next ==
    \/ \E r \in Reqs : Start(r) \/ Continue(r) \/ DeadlockDetected(r) \/ Abort(r)
    \/ \E w \in Workspaces : ArchiveWorkspace(w)
    \/ \E c \in Conns : VerdictExpires(c)

Spec == Init /\ [][Next]_vars

(* A handler keeps running, and PostgreSQL grants a row lock to whoever    *)
(* has waited for it: strong fairness, since the lock may be taken again   *)
(* by others in between.  Its deadlock detector looks at every transaction *)
(* that has waited for deadlock_timeout.                                   *)
FairSpec ==
    Spec /\ \A r \in Reqs : SF_vars(Continue(r)) /\ WF_vars(DeadlockDetected(r))

-----------------------------------------------------------------------------
LostWithoutSuccessor(w) == ActiveIn(w) # {} /\ ActiveIn(w)' = {}

RetiredByRequest(w) ==
    \E c \in ActiveIn(w) : audited'[c]["retired"] = audited[c]["retired"] + 1

(* A workspace that has an active connection loses it only when an         *)
(* operator retires that very connection.  No interleaving of activations, *)
(* failed activations and rollbacks retires the incumbent without its      *)
(* successor (repository.go Activate: "Both halves must land together").   *)
SwapLeavesNoGap ==
    [][\A w \in Workspaces : LostWithoutSuccessor(w) => RetiredByRequest(w)]_vars

\* The events a row's status calls for, and what a missing one is explained by.
RowAccounted(c) ==
    LET n(e) == audited[c][e] IN
    /\ n("created") = IF status[c] = "absent" THEN 0 ELSE 1
    /\ n("deleted") = IF status[c] = "deleted" THEN 1 ELSE 0
    /\ n("activated") \in {0, 1} /\ n("retired") \in {0, 1}
    /\ status[c] \in {"absent", "draft"} => n("activated") = 0 /\ n("retired") = 0
    /\ status[c] = "active" => n("activated") = 1 /\ n("retired") = 0
    /\ status[c] = "retired" /\ n("retired") = 0 =>
           /\ n("activated") = 1
           /\ \E d \in Conns \ {c} : Owner[d] = Owner[c] /\ audited[d]["activated"] = 1

(* The audit trail accounts for every row exactly once: each transition    *)
(* commits with its own event, and of two concurrent requests for the same *)
(* transition one is refused.  A retirement without an event of its own is *)
(* the other half of a recorded activation in the same workspace           *)
(* (service.go Create, Activate and Delete; TD-033).                       *)
AuditMatchesRows == \A c \in Conns : RowAccounted(c)

(* An incumbent that an open activation has retired is still the           *)
(* committed active row of the workspace, and no other transaction has     *)
(* retired it too; the draft it has locked is still one, and locked by it  *)
(* alone: the swap cannot be built on a row that moved.                    *)
LocksHoldTheIncumbent ==
    \A r \in Reqs :
        /\ Holding(r) =>
              \A d \in req[r].hit :
                  /\ status[d] = "active"
                  /\ Owner[d] = Owner[req[r].conn]
                  /\ \A q \in Reqs \ {r} : Holding(q) => d \notin req[q].hit
        /\ req[r].pc = "index" =>
              /\ status[req[r].conn] = "draft"
              /\ \A q \in Reqs \ {r} : ~Claims(q, req[r].conn)

(* Waits form no longer ring.  A waiter for a draft waits for one in the   *)
(* index, so every ring has one of these; and whoever that one waits for,  *)
(* if it waits in turn, is waited for by the same request.                 *)
RingsAreOfTwo ==
    \A r, q, p \in Reqs :
        req[r].pc = "index" /\ WaitsFor(r, q) /\ WaitsFor(q, p) => WaitsFor(p, q)

(* Every request is answered: what activations, edits and deletions hold   *)
(* while they wait leaves no circle but that of two activations of one     *)
(* draft, one with the draft locked and in the index, the other with the   *)
(* incumbent retired (repository.go:424,433), which the database's         *)
(* deadlock detector ends; and an activation that lost the race is refused *)
(* instead of waiting for the slot to empty.                               *)
RequestsFinish == \A r \in Reqs : req[r].pc # "idle" ~> req[r].pc = "idle"

(* What resolver.go says ("Verification gates ACTIVATION") and a           *)
(* concurrent edit refutes, twice over: the row that is promoted holds a   *)
(* verdict, and the verdict is about the configuration it holds            *)
(* (UpdateConfig: otherwise an operator could "activate a connection on    *)
(* the strength of a probe against a different provider").                 *)
PromotionIsVerified ==
    [][\A c \in Conns :
          status[c] = "draft" /\ status'[c] = "active"
              => health[c] # "unknown" /\ probed[c] = <<coord[c], secret[c]>>]_vars
=============================================================================
