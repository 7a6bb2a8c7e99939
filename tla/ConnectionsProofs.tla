-------------------------- MODULE ConnectionsProofs --------------------------
(***************************************************************************)
(* Proofs about the two sides of the connection rows: the handlers that    *)
(* change them (Connections) and the runtime that serves requests with what *)
(* it reads of them (ProviderRuntime).  Both extend ConnectionStore, the rows *)
(* and the transactions on them; the theorems are about each in turn.      *)
(***************************************************************************)
EXTENDS Connections, ProviderRuntime, FiniteSetTheorems, TLAPS

(***************************************************************************)
(* Connections, for every set of workspaces, connections, configurations and *)
(* concurrent requests: type correctness, one active connection per        *)
(* workspace, that the concurrent handlers implement ConnectionStore, one  *)
(* committed transaction at a time, and that the audit trail accounts for  *)
(* every row it describes.                                                 *)
(***************************************************************************)

\* What every request under way knows about the connection it works on.
RequestOK ==
    \A r \in Reqs :
        /\ req[r].pc # "idle" => req[r].conn \in Conns
        /\ req[r].pc = "create" => req[r].coord \in Coords /\ req[r].secret \in Secrets
        /\ req[r].pc = "swap" => \A d \in req[r].hit : Owner[d] = Owner[req[r].conn]

\* A row that exists has a configuration.
RowsConfigured ==
    \A c \in Conns : status[c] \in {"draft", "active", "retired"}
                        => coord[c] \in Coords /\ secret[c] \in Secrets

\* The inductive invariant: TypeOK alone does not say that a request works on a
\* connection, nor that the rows an activation retires are still active.
IndInv == TypeOK /\ RequestOK /\ RowsConfigured /\ LocksHoldTheIncumbent

-----------------------------------------------------------------------------
(* Init establishes the inductive invariant.                               *)
LEMMA InitInd == Init => IndInv
<1> SUFFICES ASSUME Init PROVE IndInv
  OBVIOUS
<1> USE OwnerAssumption, NoneAssumption DEF Init, StoreInit
<1>1. TypeOK
  <2>1. StoreTypeOK
    BY DEF StoreTypeOK, Statuses
  <2>2. health \in [Conns -> Healths]
    BY DEF Healths
  <2>3. probed \in [Conns -> (Coords \cup {None}) \X (Secrets \cup {None})]
    BY DEF NeverProbed
  <2>4. audited \in [Conns -> [Events -> Nat]]
    OBVIOUS
  <2>5. req \in [Reqs -> Requests]
    BY DEF Idle, Requests, PCs
  <2> QED BY <2>1, <2>2, <2>3, <2>4, <2>5 DEF TypeOK
<1>2. RequestOK
  BY DEF RequestOK, Idle
<1>3. RowsConfigured
  BY DEF RowsConfigured
<1>4. LocksHoldTheIncumbent
  BY DEF LocksHoldTheIncumbent, Holding, Idle
<1> QED BY <1>1, <1>2, <1>3, <1>4 DEF IndInv

(* A step that changes no status, and leaves a request that holds no locks, *)
(* leaves what the others hold as it was.                                  *)
LEMMA LocksUntouched ==
    ASSUME LocksHoldTheIncumbent, NEW r \in Reqs,
           \A q \in Reqs \ {r} : req'[q] = req[q],
           req'[r].pc \notin {"promote", "index"},
           status' = status
    PROVE  LocksHoldTheIncumbent'
<1>1. \A q \in Reqs : Holding(q)' => q # r /\ Holding(q)
  BY DEF Holding
<1>2. \A q \in Reqs, c \in {req[p].conn : p \in Reqs} : Claims(q, c)' => q # r /\ Claims(q, c)
  BY DEF Claims
<1> QED BY <1>1, <1>2 DEF LocksHoldTheIncumbent, Holding, Claims

(* A handler that has only read leaves the table alone, so only its own    *)
(* request record has to be checked.                                       *)
LEMMA BeginInd ==
    ASSUME IndInv,
           NEW r \in Reqs, NEW c \in Conns,
           NEW p \in PCs \ {"idle", "swap", "promote", "index"},
           NEW k \in Coords \cup {None}, NEW s \in Secrets \cup {None},
           p = "create" => k \in Coords /\ s \in Secrets,
           Begin(r, c, p, k, s)
    PROVE  IndInv'
<1>1. req'[r] = [Idle EXCEPT !.pc = p, !.conn = c, !.coord = k, !.secret = s]
  BY DEF IndInv, TypeOK, Begin
<1>2. \A q \in Reqs \ {r} : req'[q] = req[q]
  BY DEF IndInv, TypeOK, Begin
<1>3. req'[r].pc = p /\ req'[r].conn = c /\ req'[r].coord = k /\ req'[r].secret = s
      /\ req'[r] \in Requests
  BY <1>1 DEF Idle, Requests, PCs
<1>4. TypeOK'
  <2>1. req' \in [Reqs -> Requests]
    BY <1>2, <1>3 DEF IndInv, TypeOK, Begin
  <2> QED BY <2>1 DEF IndInv, TypeOK, StoreTypeOK, Begin, storeVars
<1>5. RequestOK'
  BY <1>2, <1>3 DEF IndInv, RequestOK
<1>6. RowsConfigured'
  BY DEF IndInv, RowsConfigured, Begin, storeVars
<1>7. LocksHoldTheIncumbent'
  BY <1>2, <1>3, LocksUntouched DEF IndInv, Begin, storeVars
<1> QED BY <1>4, <1>5, <1>6, <1>7 DEF IndInv

(* A refused or aborted request rolls back: its locks go, nothing else.    *)
LEMMA RefuseInd ==
    ASSUME IndInv, NEW r \in Reqs, Refuse(r)
    PROVE  IndInv'
<1>1. /\ req'[r] = Idle
      /\ \A q \in Reqs \ {r} : req'[q] = req[q]
  BY DEF IndInv, TypeOK, Refuse, End
<1>2. Idle \in Requests /\ Idle.pc = "idle"
  BY DEF Idle, Requests, PCs
<1>3. TypeOK'
  <2>1. req' \in [Reqs -> Requests]
    BY <1>1, <1>2 DEF IndInv, TypeOK, Refuse, End
  <2> QED BY <2>1 DEF IndInv, TypeOK, StoreTypeOK, Refuse, storeVars
<1>4. RequestOK'
  BY <1>1, <1>2 DEF IndInv, RequestOK
<1>5. RowsConfigured'
  BY DEF IndInv, RowsConfigured, Refuse, storeVars
<1>6. LocksHoldTheIncumbent'
  BY <1>1, <1>2, LocksUntouched DEF IndInv, Refuse, storeVars
<1> QED BY <1>3, <1>4, <1>5, <1>6 DEF IndInv

(* A commit that changes only a row no open activation has retired, and    *)
(* ends its request, keeps every other request's knowledge valid.          *)
LEMMA CommitInd ==
    ASSUME IndInv, NEW r \in Reqs, NEW c \in Conns,
           StoreTypeOK', health' \in [Conns -> Healths],
           probed' \in [Conns -> (Coords \cup {None}) \X (Secrets \cup {None})],
           audited' \in [Conns -> [Events -> Nat]],
           RowsConfigured',
           End(r), ~Locked(c),
           \A d \in Conns \ {c} : status'[d] = status[d]
    PROVE  IndInv'
<1>1. /\ req'[r] = Idle
      /\ \A q \in Reqs \ {r} : req'[q] = req[q]
  BY DEF IndInv, TypeOK, End
<1>2. Idle \in Requests /\ Idle.pc = "idle"
  BY DEF Idle, Requests, PCs
<1>3. TypeOK'
  <2>1. req' \in [Reqs -> Requests]
    BY <1>1, <1>2 DEF IndInv, TypeOK, End
  <2> QED BY <2>1 DEF TypeOK
<1>4. RequestOK'
  BY <1>1, <1>2 DEF IndInv, RequestOK
<1>5. \A q \in Reqs : req'[q].pc \in {"promote", "index"} => q # r /\ req'[q] = req[q]
  BY <1>1, <1>2
<1>6. ASSUME NEW q \in Reqs, Holding(q)', NEW d \in req'[q].hit
      PROVE  /\ status'[d] = "active" /\ Owner[d] = Owner[req'[q].conn]
             /\ \A p \in Reqs \ {q} : Holding(p)' => d \notin req'[p].hit
  <2>1. q # r /\ req'[q] = req[q] /\ Holding(q) /\ d \in req[q].hit
    BY <1>5, <1>6 DEF Holding
  <2>2. d # c /\ d \in Conns
    BY <2>1 DEF IndInv, TypeOK, Requests, Locked
  <2>3. /\ status[d] = "active" /\ Owner[d] = Owner[req[q].conn]
        /\ \A p \in Reqs \ {q} : Holding(p) => d \notin req[p].hit
    BY <2>1 DEF IndInv, LocksHoldTheIncumbent
  <2> QED BY <1>5, <2>1, <2>2, <2>3 DEF Holding
<1>7. ASSUME NEW q \in Reqs, req'[q].pc = "index"
      PROVE  /\ status'[req'[q].conn] = "draft"
             /\ \A p \in Reqs \ {q} : ~Claims(p, req[q].conn)'
  <2>1. q # r /\ req'[q] = req[q] /\ req[q].conn \in Conns
    BY <1>5, <1>7 DEF IndInv, RequestOK
  <2>2. req[q].conn # c
    BY <1>7, <2>1 DEF Locked, Claims
  <2>3. /\ status[req[q].conn] = "draft"
        /\ \A p \in Reqs \ {q} : ~Claims(p, req[q].conn)
    BY <1>7, <2>1 DEF IndInv, LocksHoldTheIncumbent
  <2> QED BY <1>5, <2>1, <2>2, <2>3 DEF Claims
<1>8. LocksHoldTheIncumbent'
  BY <1>5, <1>6, <1>7 DEF LocksHoldTheIncumbent, Claims
<1> QED BY <1>3, <1>4, <1>8 DEF IndInv

(* An activation's first statement: the snapshot holds incumbents of its   *)
(* own workspace, and what it locks is active and locked by nobody else.   *)
LEMMA ScanInd ==
    ASSUME IndInv, NEW r \in Reqs, ActivateScan(r)
    PROVE  IndInv'
<1> DEFINE c == req[r].conn
<1>0. req'[r] = [req[r] EXCEPT !.pc = "swap", !.hit = ActiveIn(Owner[c]) \ {c}]
  BY DEF IndInv, TypeOK, ActivateScan
<1>1. /\ \A q \in Reqs \ {r} : req'[q] = req[q]
      /\ req[r] \in Requests /\ c \in Conns
  BY DEF IndInv, TypeOK, RequestOK, ActivateScan
<1>2. /\ req'[r] \in Requests /\ req'[r].pc = "swap" /\ req'[r].conn = c
      /\ req'[r].hit = ActiveIn(Owner[c]) \ {c}
  BY <1>0, <1>1 DEF Requests, PCs, ActiveIn
<1>3. TypeOK'
  <2>1. req' \in [Reqs -> Requests]
    BY <1>1, <1>2 DEF IndInv, TypeOK, ActivateScan
  <2> QED BY <2>1 DEF IndInv, TypeOK, StoreTypeOK, ActivateScan, storeVars
<1>4. RequestOK'
  BY <1>1, <1>2 DEF IndInv, RequestOK, ActiveIn
<1>5. RowsConfigured'
  BY DEF IndInv, RowsConfigured, ActivateScan, storeVars
<1>6. LocksHoldTheIncumbent'
  <2>1. status' = status
    BY DEF ActivateScan, storeVars
  <2> QED BY <1>1, <1>2, <2>1, LocksUntouched DEF IndInv
<1> QED BY <1>3, <1>4, <1>5, <1>6 DEF IndInv

LEMMA SwapInd ==
    ASSUME IndInv, NEW r \in Reqs, ActivateRetire(r)
    PROVE  IndInv'
<1> DEFINE h == {d \in req[r].hit : status[d] = "active"}
<1>0. req'[r] = [req[r] EXCEPT !.pc = "promote", !.hit = h]
  BY DEF IndInv, TypeOK, ActivateRetire
<1>1. /\ \A q \in Reqs \ {r} : req'[q] = req[q]
      /\ req[r] \in Requests /\ req[r].conn \in Conns
  BY DEF IndInv, TypeOK, RequestOK, ActivateRetire
<1>2. /\ req'[r] \in Requests /\ req'[r].pc = "promote"
      /\ req'[r].conn = req[r].conn /\ req'[r].hit = h
  BY <1>0, <1>1 DEF Requests, PCs
<1>3. TypeOK'
  <2>1. req' \in [Reqs -> Requests]
    BY <1>1, <1>2 DEF IndInv, TypeOK, ActivateRetire
  <2> QED BY <2>1 DEF IndInv, TypeOK, StoreTypeOK, ActivateRetire, storeVars
<1>4. RequestOK'
  BY <1>1, <1>2 DEF IndInv, RequestOK
<1>5. RowsConfigured'
  BY DEF IndInv, RowsConfigured, ActivateRetire, storeVars
<1>6. LocksHoldTheIncumbent'
  <2>1. \A d \in h : /\ status'[d] = "active" /\ Owner[d] = Owner[req[r].conn]
                     /\ \A q \in Reqs : Holding(q) => d \notin req[q].hit
    BY DEF IndInv, RequestOK, ActivateRetire, Locked, storeVars
  <2>2. status' = status
    BY DEF ActivateRetire, storeVars
  <2>3. \A q \in Reqs : req'[q].pc = "index" => q # r /\ req[q].pc = "index"
    BY <1>1, <1>2
  <2>4. \A q \in Reqs : Holding(q)' => q = r \/ Holding(q)
    BY <1>1 DEF Holding
  <2>5. \A q \in Reqs : Holding(q)' =>
            \A d \in req'[q].hit :
               /\ status'[d] = "active" /\ Owner[d] = Owner[req'[q].conn]
               /\ \A p \in Reqs \ {q} : Holding(p)' => d \notin req'[p].hit
    BY <1>1, <1>2, <2>1, <2>2, <2>4 DEF IndInv, LocksHoldTheIncumbent
  <2> QED BY <1>1, <2>2, <2>3, <2>5 DEF IndInv, LocksHoldTheIncumbent, Claims
<1> QED BY <1>3, <1>4, <1>5, <1>6 DEF IndInv

(* Its second statement locks the draft, which no other activation holds.  *)
LEMMA LockInd ==
    ASSUME IndInv, NEW r \in Reqs, ActivateLock(r)
    PROVE  IndInv'
<1> DEFINE c == req[r].conn
<1>0. CASE Refuse(r)
  BY <1>0, RefuseInd
<1>a. CASE /\ status[c] = "draft" /\ ~Locked(c)
           /\ req' = [req EXCEPT ![r].pc = "index"]
           /\ UNCHANGED <<storeVars, health, probed, audited>>
  <2>1. /\ \A q \in Reqs \ {r} : req'[q] = req[q]
        /\ req[r] \in Requests /\ c \in Conns /\ req[r].pc = "promote"
    BY <1>a DEF IndInv, TypeOK, RequestOK, ActivateLock
  <2>2. req'[r] = [req[r] EXCEPT !.pc = "index"]
    BY <1>a DEF IndInv, TypeOK
  <2>3. /\ req'[r] \in Requests /\ req'[r].pc = "index"
        /\ req'[r].conn = c /\ req'[r].hit = req[r].hit
    BY <2>1, <2>2 DEF Requests, PCs
  <2>4. TypeOK'
    <3>1. req' \in [Reqs -> Requests]
      BY <1>a, <2>1, <2>3 DEF IndInv, TypeOK
    <3> QED BY <1>a, <3>1 DEF IndInv, TypeOK, StoreTypeOK, storeVars
  <2>5. RequestOK'
    BY <2>1, <2>3 DEF IndInv, RequestOK
  <2>6. status' = status /\ RowsConfigured'
    BY <1>a DEF IndInv, RowsConfigured, storeVars
  <2>7. \A q \in Reqs : /\ Holding(q)' <=> Holding(q)
                        /\ req'[q].hit = req[q].hit /\ req'[q].conn = req[q].conn
    BY <2>1, <2>3 DEF Holding
  <2>8. \A q \in Reqs : req'[q].pc = "index" => q = r \/ req[q].pc = "index"
    BY <2>1
  <2>9. \A q \in Reqs : ~Claims(q, c)
    BY <1>a DEF Locked
  <2>10. ASSUME NEW q \in Reqs, req'[q].pc = "index"
         PROVE  /\ status'[req'[q].conn] = "draft"
                /\ \A p \in Reqs \ {q} : ~Claims(p, req[q].conn)'
    BY <1>a, <2>6, <2>7, <2>8, <2>9, <2>10 DEF IndInv, LocksHoldTheIncumbent, Claims
  <2>11. \A q \in Reqs : Holding(q)' =>
            \A d \in req'[q].hit :
               /\ status'[d] = "active" /\ Owner[d] = Owner[req'[q].conn]
               /\ \A p \in Reqs \ {q} : Holding(p)' => d \notin req'[p].hit
    BY <2>6, <2>7 DEF IndInv, LocksHoldTheIncumbent
  <2>12. LocksHoldTheIncumbent'
    BY <2>7, <2>10, <2>11 DEF LocksHoldTheIncumbent, Claims
  <2> QED BY <2>4, <2>5, <2>6, <2>12 DEF IndInv
<1> QED BY <1>0, <1>a DEF ActivateLock

(* The wait in the index and COMMIT: the rows it retires are locked by this *)
(* request alone, so the other open activations keep theirs.               *)
LEMMA PromoteInd ==
    ASSUME IndInv, NEW r \in Reqs, ActivateCommit(r), ~Refuse(r)
    PROVE  IndInv'
<1> DEFINE c == req[r].conn
<1>1. req[r] \in Requests /\ c \in Conns /\ req[r].pc = "index" /\ status[c] = "draft"
  BY DEF IndInv, TypeOK, RequestOK, LocksHoldTheIncumbent, ActivateCommit
<1>2. /\ status' = [d \in Conns |-> IF d = c THEN "active"
                                     ELSE IF d \in req[r].hit THEN "retired" ELSE status[d]]
      /\ Record(c, "activated") /\ End(r)
      /\ UNCHANGED <<coord, secret, archived, health, probed>>
  BY DEF ActivateCommit
<1>3. /\ req'[r] = Idle
      /\ \A q \in Reqs \ {r} : req'[q] = req[q]
  BY <1>2 DEF IndInv, TypeOK, End
<1>4. Idle \in Requests /\ Idle.pc = "idle"
  BY DEF Idle, Requests, PCs
<1>5. TypeOK'
  <2>1. req' \in [Reqs -> Requests]
    BY <1>2, <1>3, <1>4 DEF IndInv, TypeOK, End
  <2>2. audited' \in [Conns -> [Events -> Nat]]
    BY <1>1, <1>2 DEF IndInv, TypeOK, Record, Events
  <2>3. StoreTypeOK'
    BY <1>2 DEF IndInv, TypeOK, StoreTypeOK, Statuses
  <2> QED BY <1>2, <2>1, <2>2, <2>3 DEF IndInv, TypeOK
<1>6. RequestOK'
  BY <1>3, <1>4 DEF IndInv, RequestOK
<1>7. RowsConfigured'
  <2>1. \A d \in Conns : status'[d] \in {"draft", "active", "retired"}
                            => status[d] \in {"draft", "active", "retired"}
    BY <1>1, <1>2 DEF IndInv, LocksHoldTheIncumbent, Holding
  <2> QED BY <1>2, <2>1 DEF IndInv, RowsConfigured
<1>8. \A q \in Reqs : req'[q].pc \in {"promote", "index"} => q # r /\ req'[q] = req[q]
  BY <1>3, <1>4
<1>9. ASSUME NEW q \in Reqs, Holding(q)', NEW d \in req'[q].hit
      PROVE  /\ status'[d] = "active" /\ Owner[d] = Owner[req'[q].conn]
             /\ \A p \in Reqs \ {q} : Holding(p)' => d \notin req'[p].hit
  <2>1. q # r /\ req'[q] = req[q] /\ Holding(q) /\ d \in req[q].hit
    BY <1>8, <1>9 DEF Holding
  <2>2. /\ status[d] = "active" /\ d \in Conns
        /\ Owner[d] = Owner[req[q].conn]
        /\ \A p \in Reqs \ {q} : Holding(p) => d \notin req[p].hit
    BY <2>1 DEF IndInv, TypeOK, Requests, LocksHoldTheIncumbent
  <2>3. d # c /\ d \notin req[r].hit
    BY <1>1, <2>1, <2>2 DEF Holding
  <2> QED BY <1>2, <1>8, <2>1, <2>2, <2>3 DEF Holding
<1>10. ASSUME NEW q \in Reqs, req'[q].pc = "index"
       PROVE  /\ status'[req'[q].conn] = "draft"
              /\ \A p \in Reqs \ {q} : ~Claims(p, req[q].conn)'
  <2>1. q # r /\ req'[q] = req[q] /\ req[q].conn \in Conns
    BY <1>8, <1>10 DEF IndInv, RequestOK
  <2>2. /\ status[req[q].conn] = "draft"
        /\ \A p \in Reqs \ {q} : ~Claims(p, req[q].conn)
    BY <1>10, <2>1 DEF IndInv, LocksHoldTheIncumbent
  <2>3. req[q].conn # c /\ req[q].conn \notin req[r].hit
    BY <1>1, <2>1, <2>2 DEF IndInv, LocksHoldTheIncumbent, Holding, Claims
  <2> QED BY <1>2, <1>8, <2>1, <2>2, <2>3 DEF Claims
<1>11. LocksHoldTheIncumbent'
  BY <1>8, <1>9, <1>10 DEF LocksHoldTheIncumbent, Claims
<1> QED BY <1>5, <1>6, <1>7, <1>11 DEF IndInv

(* Starting a request preserves the invariant: it only reads.              *)
LEMMA StartInd ==
    ASSUME IndInv, NEW r \in Reqs, Start(r)
    PROVE  IndInv'
<1> PICK c \in Conns :
        \/ \E k \in Coords, s \in Secrets : CreateBegin(r, c, k, s)
        \/ \E k \in Coords \cup {None}, s \in Secrets \cup {None} : UpdateBegin(r, c, k, s)
        \/ VerifyBegin(r, c)
        \/ ActivateBegin(r, c)
        \/ RetireBegin(r, c)
        \/ DeleteBegin(r, c)
  BY DEF Start
<1>1. ASSUME NEW k \in Coords, NEW s \in Secrets, CreateBegin(r, c, k, s) PROVE IndInv'
  BY <1>1, BeginInd DEF CreateBegin, PCs
<1>2. ASSUME NEW k \in Coords \cup {None}, NEW s \in Secrets \cup {None}, UpdateBegin(r, c, k, s)
      PROVE IndInv'
  BY <1>2, BeginInd DEF UpdateBegin, PCs
<1>3. ASSUME VerifyBegin(r, c) PROVE IndInv'
  <2>1. coord[c] \in Coords \cup {None}
    BY DEF IndInv, TypeOK, StoreTypeOK
  <2> QED BY <1>3, <2>1, BeginInd DEF VerifyBegin, PCs
<1>4. ASSUME ActivateBegin(r, c) \/ RetireBegin(r, c) \/ DeleteBegin(r, c) PROVE IndInv'
  BY <1>4, BeginInd DEF ActivateBegin, RetireBegin, DeleteBegin, PCs
<1> QED BY <1>1, <1>2, <1>3, <1>4

(* Every transaction of one statement preserves the invariant.             *)
LEMMA CreateInd ==
    ASSUME IndInv, NEW r \in Reqs, CreateCommit(r)
    PROVE  IndInv'
<1> DEFINE c == req[r].conn
<1>1. c \in Conns /\ req[r].coord \in Coords /\ req[r].secret \in Secrets
  BY DEF IndInv, RequestOK, CreateCommit
<1>2. /\ StoreTypeOK' /\ audited' \in [Conns -> [Events -> Nat]] /\ RowsConfigured'
      /\ \A d \in Conns \ {c} : status'[d] = status[d]
  <2>1. StoreTypeOK'
    BY <1>1 DEF IndInv, TypeOK, StoreTypeOK, Statuses, CreateCommit, InsertDraft
  <2>2. audited' \in [Conns -> [Events -> Nat]]
    BY <1>1 DEF IndInv, TypeOK, CreateCommit, Record, Events
  <2>3. RowsConfigured'
    BY <1>1 DEF IndInv, TypeOK, StoreTypeOK, RowsConfigured, CreateCommit, InsertDraft
  <2>4. \A d \in Conns \ {c} : status'[d] = status[d]
    BY <1>1 DEF IndInv, TypeOK, StoreTypeOK, CreateCommit, InsertDraft
  <2> QED BY <2>1, <2>2, <2>3, <2>4
<1>3. ~Locked(c)
  BY <1>1 DEF IndInv, LocksHoldTheIncumbent, Locked, Claims, CreateCommit, InsertDraft
<1>4. UNCHANGED <<health, probed>> /\ End(r)
  BY DEF CreateCommit
<1>5. health' \in [Conns -> Healths]
      /\ probed' \in [Conns -> (Coords \cup {None}) \X (Secrets \cup {None})]
  BY <1>4 DEF IndInv, TypeOK
<1> QED BY <1>1, <1>2, <1>3, <1>4, <1>5, CommitInd

LEMMA UpdateInd ==
    ASSUME IndInv, NEW r \in Reqs, UpdateCommit(r)
    PROVE  IndInv'
<1> DEFINE c == req[r].conn
           k == IF req[r].coord = None THEN coord[c] ELSE req[r].coord
           s == IF req[r].secret = None THEN secret[c] ELSE req[r].secret
<1>1. c \in Conns /\ req[r] \in Requests
  BY DEF IndInv, TypeOK, RequestOK, UpdateCommit
<1>2. CASE Refuse(r)
  BY <1>2, RefuseInd
<1>3. CASE EditDraft(c, k, s) /\ End(r) /\ ~Locked(c) /\ UNCHANGED audited
           /\ health' = (IF req[r].coord # None \/ req[r].secret # None
                          THEN [health EXCEPT ![c] = "unknown"] ELSE health)
           /\ probed' = (IF req[r].coord # None \/ req[r].secret # None
                          THEN [probed EXCEPT ![c] = NeverProbed] ELSE probed)
  <2>1. k \in Coords /\ s \in Secrets
    BY <1>1, <1>3 DEF IndInv, RowsConfigured, EditDraft, Requests
  <2>2. StoreTypeOK' /\ RowsConfigured' /\ status' = status
    BY <1>1, <1>3, <2>1 DEF IndInv, TypeOK, StoreTypeOK, RowsConfigured, EditDraft
  <2>3. health' \in [Conns -> Healths]
    BY <1>3 DEF IndInv, TypeOK, Healths
  <2>4. probed' \in [Conns -> (Coords \cup {None}) \X (Secrets \cup {None})]
    BY <1>3 DEF IndInv, TypeOK, NeverProbed
  <2>5. audited' \in [Conns -> [Events -> Nat]]
    BY <1>3 DEF IndInv, TypeOK
  <2> QED BY <1>1, <1>3, <2>2, <2>3, <2>4, <2>5, CommitInd
<1> QED BY <1>2, <1>3 DEF UpdateCommit

LEMMA VerifyInd ==
    ASSUME IndInv, NEW r \in Reqs, VerifyProbe(r) \/ VerifyCommit(r)
    PROVE  IndInv'
<1> DEFINE c == req[r].conn
<1>1. c \in Conns /\ req[r] \in Requests
  BY DEF IndInv, TypeOK, RequestOK, VerifyProbe, VerifyCommit
<1>2. CASE Refuse(r)
  BY <1>2, RefuseInd
<1>3. ASSUME NEW ok \in BOOLEAN, req[r].pc = "open",
             req' = [req EXCEPT ![r].pc = "save", ![r].secret = secret[c], ![r].ok = ok],
             UNCHANGED <<storeVars, health, probed, audited>>
      PROVE  IndInv'
  <2>1. req'[r] = [req[r] EXCEPT !.pc = "save", !.secret = secret[c], !.ok = ok]
    BY <1>3 DEF IndInv, TypeOK
  <2>2. \A q \in Reqs \ {r} : req'[q] = req[q]
    BY <1>3 DEF IndInv, TypeOK
  <2>3. secret[c] \in Secrets \cup {None}
    BY <1>1 DEF IndInv, TypeOK, StoreTypeOK
  <2>4. req'[r] \in Requests /\ req'[r].pc = "save" /\ req'[r].conn = c
    BY <1>1, <2>1, <2>3 DEF Requests, PCs
  <2>5. TypeOK'
    <3>1. req' \in [Reqs -> Requests]
      BY <1>3, <2>2, <2>4 DEF IndInv, TypeOK
    <3> QED BY <1>3, <3>1 DEF IndInv, TypeOK, StoreTypeOK, storeVars
  <2>6. RequestOK'
    BY <1>1, <2>2, <2>4 DEF IndInv, RequestOK
  <2>7. status' = status /\ RowsConfigured'
    BY <1>3 DEF IndInv, RowsConfigured, storeVars
  <2>8. LocksHoldTheIncumbent'
    BY <2>2, <2>4, <2>7, LocksUntouched DEF IndInv
  <2> QED BY <2>5, <2>6, <2>7, <2>8 DEF IndInv
<1>4. CASE /\ health' = [health EXCEPT ![c] = IF req[r].ok THEN "healthy" ELSE "lapsed"]
           /\ probed' = [probed EXCEPT ![c] = <<req[r].coord, req[r].secret>>]
           /\ UNCHANGED <<storeVars, audited>> /\ End(r) /\ ~Locked(c)
  <2>1. StoreTypeOK' /\ RowsConfigured' /\ status' = status
    BY <1>4 DEF IndInv, TypeOK, StoreTypeOK, RowsConfigured, storeVars
  <2>2. health' \in [Conns -> Healths]
    BY <1>4 DEF IndInv, TypeOK, Healths
  <2>3. probed' \in [Conns -> (Coords \cup {None}) \X (Secrets \cup {None})]
    BY <1>1, <1>4 DEF IndInv, TypeOK, Requests
  <2>4. audited' \in [Conns -> [Events -> Nat]]
    BY <1>4 DEF IndInv, TypeOK
  <2> QED BY <1>1, <1>4, <2>1, <2>2, <2>3, <2>4, CommitInd
<1> QED BY <1>2, <1>3, <1>4 DEF VerifyProbe, VerifyCommit

LEMMA RetireInd ==
    ASSUME IndInv, NEW r \in Reqs, RetireCommit(r)
    PROVE  IndInv'
<1> DEFINE c == req[r].conn
<1>1. c \in Conns
  BY DEF IndInv, RequestOK, RetireCommit
<1>2. CASE Refuse(r)
  BY <1>2, RefuseInd
<1>3. CASE RetireRow(c) /\ Record(c, "retired") /\ End(r) /\ UNCHANGED <<health, probed>> /\ ~Locked(c)
  <2>1. StoreTypeOK' /\ RowsConfigured' /\ \A d \in Conns \ {c} : status'[d] = status[d]
    BY <1>1, <1>3 DEF IndInv, TypeOK, StoreTypeOK, Statuses, RowsConfigured, RetireRow
  <2>2. audited' \in [Conns -> [Events -> Nat]]
    BY <1>1, <1>3 DEF IndInv, TypeOK, Record, Events
  <2>3. health' \in [Conns -> Healths]
        /\ probed' \in [Conns -> (Coords \cup {None}) \X (Secrets \cup {None})]
    BY <1>3 DEF IndInv, TypeOK
  <2> QED BY <1>1, <1>3, <2>1, <2>2, <2>3, CommitInd
<1> QED BY <1>2, <1>3 DEF RetireCommit

LEMMA DeleteInd ==
    ASSUME IndInv, NEW r \in Reqs, DeleteCommit(r)
    PROVE  IndInv'
<1> DEFINE c == req[r].conn
<1>1. c \in Conns
  BY DEF IndInv, RequestOK, DeleteCommit
<1>2. CASE Refuse(r)
  BY <1>2, RefuseInd
<1>3. CASE DeleteRow(c) /\ Record(c, "deleted") /\ End(r) /\ ~Locked(c)
           /\ health' = [health EXCEPT ![c] = "unknown"]
           /\ probed' = [probed EXCEPT ![c] = NeverProbed]
  <2>1. StoreTypeOK' /\ RowsConfigured' /\ \A d \in Conns \ {c} : status'[d] = status[d]
    BY <1>1, <1>3 DEF IndInv, TypeOK, StoreTypeOK, Statuses, RowsConfigured, DeleteRow
  <2>2. audited' \in [Conns -> [Events -> Nat]]
    BY <1>1, <1>3 DEF IndInv, TypeOK, Record, Events
  <2>3. health' \in [Conns -> Healths]
    BY <1>3 DEF IndInv, TypeOK, Healths
  <2>4. probed' \in [Conns -> (Coords \cup {None}) \X (Secrets \cup {None})]
    BY <1>3 DEF IndInv, TypeOK, NeverProbed
  <2> QED BY <1>1, <1>3, <2>1, <2>2, <2>3, <2>4, CommitInd
<1> QED BY <1>2, <1>3 DEF DeleteCommit

(* Every step of the program preserves the inductive invariant.            *)
LEMMA NextInd == IndInv /\ [Next]_vars => IndInv'
<1> SUFFICES ASSUME IndInv, [Next]_vars PROVE IndInv'
  OBVIOUS
<1>1. ASSUME NEW r \in Reqs, Start(r) PROVE IndInv'
  BY <1>1, StartInd
<1>2. ASSUME NEW r \in Reqs, Continue(r) PROVE IndInv'
  <2>1. CASE CreateCommit(r) BY <2>1, CreateInd
  <2>2. CASE UpdateCommit(r) BY <2>2, UpdateInd
  <2>3. CASE VerifyProbe(r) \/ VerifyCommit(r) BY <2>3, VerifyInd
  <2>4. CASE ActivateScan(r) BY <2>4, ScanInd
  <2>5. CASE ActivateRetire(r) BY <2>5, SwapInd
  <2>6. CASE ActivateCommit(r)
    <3>1. CASE Refuse(r) BY <3>1, RefuseInd
    <3>2. CASE ~Refuse(r)
      BY <2>6, <3>2, PromoteInd
    <3> QED BY <3>1, <3>2
  <2>7. CASE RetireCommit(r) BY <2>7, RetireInd
  <2>8. CASE DeleteCommit(r) BY <2>8, DeleteInd
  <2>9. CASE ActivateLock(r) BY <2>9, LockInd
  <2> QED BY <1>2, <2>1, <2>2, <2>3, <2>4, <2>5, <2>6, <2>7, <2>8, <2>9 DEF Continue
<1>3. ASSUME NEW r \in Reqs, DeadlockDetected(r) \/ Abort(r) PROVE IndInv'
  BY <1>3, RefuseInd DEF DeadlockDetected, Abort
<1>4. ASSUME NEW w \in Workspaces, ArchiveWorkspace(w) PROVE IndInv'
  <2>1. TypeOK'
    BY <1>4 DEF IndInv, TypeOK, StoreTypeOK, ArchiveWorkspace, ArchiveRow
  <2>2. RequestOK' /\ RowsConfigured'
    BY <1>4 DEF IndInv, RequestOK, RowsConfigured, ArchiveWorkspace, ArchiveRow
  <2>3. LocksHoldTheIncumbent'
    BY <1>4 DEF IndInv, LocksHoldTheIncumbent, Holding, Claims, ArchiveWorkspace, ArchiveRow
  <2> QED BY <2>1, <2>2, <2>3 DEF IndInv
<1>5. ASSUME NEW c \in Conns, VerdictExpires(c) PROVE IndInv'
  <2>1. TypeOK'
    BY <1>5 DEF IndInv, TypeOK, StoreTypeOK, VerdictExpires, storeVars, Healths
  <2>2. RequestOK' /\ RowsConfigured'
    BY <1>5 DEF IndInv, RequestOK, RowsConfigured, VerdictExpires, storeVars
  <2>3. LocksHoldTheIncumbent'
    BY <1>5 DEF IndInv, LocksHoldTheIncumbent, Holding, Claims, VerdictExpires, storeVars
  <2> QED BY <2>1, <2>2, <2>3 DEF IndInv
<1>6. CASE UNCHANGED vars
  <2>1. TypeOK'
    BY <1>6 DEF IndInv, TypeOK, StoreTypeOK, vars
  <2>2. RequestOK' /\ RowsConfigured' /\ LocksHoldTheIncumbent'
    BY <1>6 DEF IndInv, RequestOK, RowsConfigured, LocksHoldTheIncumbent, Holding, Claims, vars
  <2> QED BY <2>1, <2>2 DEF IndInv
<1> QED BY <1>1, <1>2, <1>3, <1>4, <1>5, <1>6 DEF Next

LEMMA Invariance == Spec => []IndInv
<1> QED BY InitInd, NextInd, PTL DEF Spec

(* Every variable of the connection handlers keeps its type, whatever the  *)
(* interleaving of requests, aborts, archives and expiring verdicts.       *)
THEOREM TypeCorrect == Spec => []TypeOK
<1>1. IndInv => TypeOK
  BY DEF IndInv
<1> QED BY <1>1, Invariance, PTL

(* The rows an open activation has retired stay active, and are its own,   *)
(* until it commits or rolls back; so does the draft it has locked.        *)
THEOREM IncumbentsHeld == Spec => []LocksHoldTheIncumbent
<1>1. IndInv => LocksHoldTheIncumbent
  BY DEF IndInv
<1> QED BY <1>1, Invariance, PTL

-----------------------------------------------------------------------------
(* Each step of the handlers is one committed transaction of the abstract  *)
(* store, or none at all.                                                  *)
LEMMA StepRefines == IndInv /\ [Next]_vars => [StoreNext]_storeVars
<1> SUFFICES ASSUME IndInv, [Next]_vars, ~UNCHANGED storeVars PROVE StoreNext
  OBVIOUS
<1>1. ASSUME NEW r \in Reqs, Start(r) PROVE UNCHANGED storeVars
  BY <1>1 DEF Start, CreateBegin, UpdateBegin, VerifyBegin, ActivateBegin, RetireBegin, DeleteBegin, Begin
<1>2. ASSUME NEW r \in Reqs, Refuse(r) PROVE UNCHANGED storeVars
  BY <1>2 DEF Refuse
<1>3. ASSUME NEW r \in Reqs, Continue(r) PROVE StoreNext
  <2> DEFINE c == req[r].conn
  <2>1. CASE CreateCommit(r)
    <3>1. c \in Conns /\ req[r].coord \in Coords /\ req[r].secret \in Secrets
      BY <2>1 DEF IndInv, RequestOK, CreateCommit
    <3>2. InsertDraft(c, req[r].coord, req[r].secret)
      BY <2>1 DEF CreateCommit
    <3> QED BY <3>1, <3>2 DEF StoreNext, ConnStep
  <2>2. CASE UpdateCommit(r)
    <3> DEFINE k == IF req[r].coord = None THEN coord[c] ELSE req[r].coord
               s == IF req[r].secret = None THEN secret[c] ELSE req[r].secret
    <3>1. c \in Conns /\ req[r] \in Requests
      BY <2>2 DEF IndInv, TypeOK, RequestOK, UpdateCommit
    <3>2. EditDraft(c, k, s)
      BY <2>2, <1>2 DEF UpdateCommit
    <3>3. k \in Coords /\ s \in Secrets
      BY <3>1, <3>2 DEF IndInv, RowsConfigured, EditDraft, Requests
    <3> QED BY <3>1, <3>2, <3>3 DEF StoreNext, ConnStep
  <2>3. CASE VerifyProbe(r) \/ VerifyCommit(r)
    BY <2>3, <1>2 DEF VerifyProbe, VerifyCommit
  <2>4. CASE ActivateScan(r) \/ ActivateRetire(r) \/ ActivateLock(r)
    BY <2>4, <1>2 DEF ActivateScan, ActivateRetire, ActivateLock
  <2>5. CASE ActivateCommit(r)
    <3>1. c \in Conns /\ req[r].pc = "index" /\ req[r].hit \subseteq Conns
      BY <2>5 DEF IndInv, TypeOK, Requests, RequestOK, ActivateCommit
    <3>2. /\ status[c] = "draft" /\ ~DuplicateKey(r)
          /\ status' = [d \in Conns |-> IF d = c THEN "active"
                                         ELSE IF d \in req[r].hit THEN "retired" ELSE status[d]]
          /\ UNCHANGED <<coord, secret, archived>>
      BY <2>5, <1>2 DEF IndInv, LocksHoldTheIncumbent, ActivateCommit
    <3>3. req[r].hit = ActiveIn(Owner[c])
      BY <3>1, <3>2 DEF IndInv, LocksHoldTheIncumbent, Holding, DuplicateKey, ActiveIn
    <3>4. Promote(c)
      BY <3>2, <3>3 DEF Promote
    <3> QED BY <3>1, <3>4 DEF StoreNext, ConnStep
  <2>6. CASE RetireCommit(r)
    <3>1. c \in Conns /\ RetireRow(c)
      BY <2>6, <1>2 DEF IndInv, RequestOK, RetireCommit
    <3> QED BY <3>1 DEF StoreNext, ConnStep
  <2>7. CASE DeleteCommit(r)
    <3>1. c \in Conns /\ DeleteRow(c)
      BY <2>7, <1>2 DEF IndInv, RequestOK, DeleteCommit
    <3> QED BY <3>1 DEF StoreNext, ConnStep
  <2> QED BY <1>3, <2>1, <2>2, <2>3, <2>4, <2>5, <2>6, <2>7 DEF Continue
<1>4. ASSUME NEW r \in Reqs, DeadlockDetected(r) \/ Abort(r) PROVE UNCHANGED storeVars
  BY <1>4, <1>2 DEF DeadlockDetected, Abort
<1>5. ASSUME NEW w \in Workspaces, ArchiveWorkspace(w) PROVE StoreNext
  BY <1>5 DEF ArchiveWorkspace, StoreNext
<1>6. ASSUME NEW c \in Conns, VerdictExpires(c) PROVE UNCHANGED storeVars
  BY <1>6 DEF VerdictExpires
<1>7. CASE UNCHANGED vars
  BY <1>7 DEF vars, storeVars
<1> QED BY <1>1, <1>3, <1>4, <1>5, <1>6, <1>7 DEF Next

(* The concurrent handlers implement the abstract table.                   *)
THEOREM Refinement == Spec => StoreSpec
<1>1. Init => StoreInit
  BY DEF Init
<1> QED BY <1>1, StepRefines, Invariance, PTL DEF Spec, StoreSpec

-----------------------------------------------------------------------------
(* A committed transaction of the store keeps one active row per           *)
(* workspace: only Promote activates, and it retires the incumbents.       *)
LEMMA OneActiveStep ==
    ASSUME StoreTypeOK, OneActivePerWorkspace, [StoreNext]_storeVars
    PROVE  OneActivePerWorkspace'
<1>1. ASSUME NEW c \in Conns, Promote(c) PROVE OneActivePerWorkspace'
  BY <1>1 DEF OneActivePerWorkspace, Promote, ActiveIn
<1>2. ASSUME NEW c \in Conns, NEW k \in Coords, NEW s \in Secrets,
             InsertDraft(c, k, s) \/ EditDraft(c, k, s)
      PROVE  OneActivePerWorkspace'
  BY <1>2 DEF StoreTypeOK, OneActivePerWorkspace, InsertDraft, EditDraft
<1>3. ASSUME NEW c \in Conns, RetireRow(c) \/ DeleteRow(c)
      PROVE  OneActivePerWorkspace'
  BY <1>3 DEF StoreTypeOK, OneActivePerWorkspace, RetireRow, DeleteRow
<1>4. ASSUME NEW w \in Workspaces, ArchiveRow(w) PROVE OneActivePerWorkspace'
  BY <1>4 DEF OneActivePerWorkspace, ArchiveRow
<1>5. CASE UNCHANGED storeVars
  BY <1>5 DEF OneActivePerWorkspace, storeVars
<1> QED BY <1>1, <1>2, <1>3, <1>4, <1>5 DEF StoreNext, ConnStep

(* A workspace never has two active connections, however many activations  *)
(* race for it (migration 000003, repository.go Activate).                 *)
THEOREM OneActive == Spec => []OneActivePerWorkspace
<1>1. Init => OneActivePerWorkspace
  BY DEF Init, StoreInit, OneActivePerWorkspace
<1>2. IndInv /\ OneActivePerWorkspace /\ [Next]_vars => OneActivePerWorkspace'
  <2>1. IndInv => StoreTypeOK
    BY DEF IndInv, TypeOK
  <2> QED BY <2>1, StepRefines, OneActiveStep
<1> QED BY <1>1, <1>2, Invariance, PTL DEF Spec

(* What an activated connection points at never changes until its row is   *)
(* deleted, and a retired connection never becomes active again.           *)
THEOREM ConfigFrozen == Spec => FrozenOnceActive
<1>1. ASSUME IndInv, StoreNext PROVE FrozenStep
  <2>0. StoreTypeOK
    BY <1>1 DEF IndInv, TypeOK
  <2>1. ASSUME NEW c \in Conns, Promote(c) PROVE FrozenStep
    BY <2>0, <2>1 DEF StoreTypeOK, Statuses, Promote, ActiveIn, FrozenStep
  <2>2. ASSUME NEW c \in Conns, NEW k \in Coords, NEW s \in Secrets,
               InsertDraft(c, k, s) \/ EditDraft(c, k, s)
        PROVE  FrozenStep
    BY <2>0, <2>2 DEF StoreTypeOK, InsertDraft, EditDraft, FrozenStep
  <2>3. ASSUME NEW c \in Conns, RetireRow(c) \/ DeleteRow(c)
        PROVE  FrozenStep
    BY <2>0, <2>3 DEF StoreTypeOK, RetireRow, DeleteRow, FrozenStep
  <2>4. ASSUME NEW w \in Workspaces, ArchiveRow(w) PROVE FrozenStep
    BY <2>4 DEF ArchiveRow, FrozenStep
  <2> QED BY <1>1, <2>1, <2>2, <2>3, <2>4 DEF StoreNext, ConnStep
<1>2. IndInv /\ [Next]_vars => [FrozenStep]_storeVars
  BY <1>1, StepRefines
<1> QED BY <1>2, Invariance, PTL DEF Spec, FrozenOnceActive

(* A workspace loses its active connection without a successor only when   *)
(* an operator retires it: no failed or racing activation leaves a gap.    *)
THEOREM NoGap == Spec => SwapLeavesNoGap
<1>1. ASSUME IndInv, Next, NEW w \in Workspaces, LostWithoutSuccessor(w)
      PROVE  RetiredByRequest(w)
  <2>0. /\ StoreTypeOK /\ audited \in [Conns -> [Events -> Nat]]
        /\ ~UNCHANGED status
    BY <1>1 DEF IndInv, TypeOK, ActiveIn, LostWithoutSuccessor
  <2>1. PICK r \in Reqs : Continue(r) /\ ~Refuse(r)
    BY <1>1, <2>0 DEF Next, Start, CreateBegin, UpdateBegin, VerifyBegin, ActivateBegin, RetireBegin,
         DeleteBegin, Begin, DeadlockDetected, Abort, Refuse, storeVars, ArchiveWorkspace, ArchiveRow, VerdictExpires
  <2> DEFINE c == req[r].conn
  <2>2. PICK d \in ActiveIn(w) : status'[d] # "active"
    BY <1>1 DEF ActiveIn, LostWithoutSuccessor
  <2>3. CASE RetireCommit(r)
    <3>1. c \in Conns /\ RetireRow(c) /\ Record(c, "retired")
      BY <1>1, <2>1, <2>3 DEF IndInv, RequestOK, RetireCommit
    <3>2. c = d
      BY <2>0, <2>2, <3>1 DEF StoreTypeOK, RetireRow, ActiveIn
    <3>3. audited'[c]["retired"] = audited[c]["retired"] + 1
      BY <2>0, <3>1 DEF Record, Events
    <3> QED BY <2>2, <3>2, <3>3 DEF RetiredByRequest
  <2>4. CASE ActivateCommit(r)
    <3>1. /\ c \in Conns /\ req[r].pc = "index"
          /\ status' = [e \in Conns |-> IF e = c THEN "active"
                                         ELSE IF e \in req[r].hit THEN "retired" ELSE status[e]]
      BY <1>1, <2>1, <2>4 DEF IndInv, RequestOK, ActivateCommit
    <3>2. d \in req[r].hit
      BY <2>2, <3>1 DEF ActiveIn
    <3>3. Owner[c] = w
      BY <1>1, <2>2, <3>1, <3>2 DEF IndInv, LocksHoldTheIncumbent, Holding, ActiveIn
    <3>4. c \in ActiveIn(w)'
      BY <3>1, <3>3 DEF ActiveIn
    <3> QED BY <1>1, <3>4 DEF LostWithoutSuccessor
  <2>5. CASE CreateCommit(r) \/ UpdateCommit(r) \/ DeleteCommit(r)
    <3>1. c \in Conns
      BY <1>1, <2>5 DEF IndInv, RequestOK, CreateCommit, UpdateCommit, DeleteCommit
    <3>2. status'[d] = "active"
      BY <2>0, <2>1, <2>2, <2>5, <3>1 DEF StoreTypeOK, ActiveIn, CreateCommit, UpdateCommit, DeleteCommit,
           InsertDraft, EditDraft, DeleteRow
    <3> QED BY <2>2, <3>2
  <2>6. CASE \/ VerifyProbe(r) \/ VerifyCommit(r)
             \/ ActivateScan(r) \/ ActivateRetire(r) \/ ActivateLock(r)
    BY <2>0, <2>1, <2>6 DEF VerifyProbe, VerifyCommit, ActivateScan, ActivateRetire, ActivateLock, storeVars
  <2> QED BY <2>1, <2>3, <2>4, <2>5, <2>6 DEF Continue
<1>2. IndInv /\ [Next]_vars
        => [\A w \in Workspaces : LostWithoutSuccessor(w) => RetiredByRequest(w)]_vars
  BY <1>1
<1> QED BY <1>2, Invariance, PTL DEF Spec, SwapLeavesNoGap

-----------------------------------------------------------------------------
(* A row a step does not touch, in status or in count, stays accounted for *)
(* because no step takes an activation back.                               *)
LEMMA TrailUntouched ==
    ASSUME NEW c \in Conns, RowAccounted(c),
           status'[c] = status[c], audited'[c] = audited[c],
           \A d \in Conns : audited[d]["activated"] = 1 => audited'[d]["activated"] = 1
    PROVE  RowAccounted(c)'
BY DEF RowAccounted

(* Every commit writes the event its change of status calls for; the       *)
(* incumbents a swap retires without one are witnessed by the activation   *)
(* that commits with them.                                                 *)
LEMMA TrailKept == IndInv /\ AuditMatchesRows /\ [Next]_vars => AuditMatchesRows'
<1> SUFFICES ASSUME IndInv, AuditMatchesRows, [Next]_vars PROVE AuditMatchesRows'
  OBVIOUS
<1>0. status \in [Conns -> Statuses] /\ audited \in [Conns -> [Events -> Nat]]
  BY DEF IndInv, TypeOK, StoreTypeOK
<1>1. CASE UNCHANGED <<status, audited>>
  BY <1>1 DEF AuditMatchesRows, RowAccounted
<1>2. ASSUME NEW r \in Reqs, Continue(r), ~UNCHANGED <<status, audited>>
      PROVE  AuditMatchesRows'
  <2>0. PICK c \in Conns : c = req[r].conn
    BY <1>2 DEF IndInv, RequestOK, Continue, CreateCommit, UpdateCommit, VerifyProbe, VerifyCommit,
         ActivateScan, ActivateRetire, ActivateLock, ActivateCommit, RetireCommit, DeleteCommit
  <2>1. ASSUME NEW e \in Events \ {"activated"}, Record(c, e),
               \A d \in Conns \ {c} : status'[d] = status[d],
               RowAccounted(c)'
        PROVE  AuditMatchesRows'
    <3>1. \A d \in Conns \ {c} : audited'[d] = audited[d]
      BY <1>0, <2>1 DEF Record
    <3>2. \A d \in Conns : audited'[d]["activated"] = audited[d]["activated"]
      BY <1>0, <2>1 DEF Record, Events
    <3> QED BY <2>1, <3>1, <3>2, TrailUntouched DEF AuditMatchesRows
  <2>2. ASSUME NEW e \in Events, Record(c, e)
        PROVE  /\ audited'[c][e] = audited[c][e] + 1
               /\ \A f \in Events \ {e} : audited'[c][f] = audited[c][f]
    BY <1>0, <1>2, <2>0, <2>2 DEF Record
  <2>3. RowAccounted(c)
    BY <1>2, <2>0 DEF AuditMatchesRows
  <2>4. CASE CreateCommit(r)
    <3>1. /\ status[c] = "absent" /\ status'[c] = "draft" /\ Record(c, "created")
          /\ \A d \in Conns \ {c} : status'[d] = status[d]
      BY <1>0, <1>2, <2>0, <2>4 DEF CreateCommit, InsertDraft
    <3>2. RowAccounted(c)'
      BY <2>2, <2>3, <3>1 DEF RowAccounted, Events
    <3> QED BY <2>1, <3>1, <3>2 DEF Events
  <2>5. CASE RetireCommit(r)
    <3>1. /\ status[c] \in {"draft", "active"} /\ status'[c] = "retired" /\ Record(c, "retired")
          /\ \A d \in Conns \ {c} : status'[d] = status[d]
      BY <1>0, <1>2, <2>0, <2>5 DEF RetireCommit, RetireRow, Refuse, storeVars
    <3>2. RowAccounted(c)'
      BY <2>2, <2>3, <3>1 DEF RowAccounted, Events
    <3> QED BY <2>1, <3>1, <3>2 DEF Events
  <2>6. CASE DeleteCommit(r)
    <3>1. /\ status[c] \in {"draft", "retired"} /\ status'[c] = "deleted" /\ Record(c, "deleted")
          /\ \A d \in Conns \ {c} : status'[d] = status[d]
      BY <1>0, <1>2, <2>0, <2>6 DEF DeleteCommit, DeleteRow, Refuse, storeVars
    <3>2. RowAccounted(c)'
      BY <2>2, <2>3, <3>1 DEF RowAccounted, Events
    <3> QED BY <2>1, <3>1, <3>2 DEF Events
  <2>7. CASE ActivateCommit(r)
    <3>1. /\ req[r].pc = "index" /\ status[c] = "draft" /\ Record(c, "activated")
          /\ status' = [d \in Conns |-> IF d = c THEN "active"
                                         ELSE IF d \in req[r].hit THEN "retired" ELSE status[d]]
      BY <1>2, <2>0, <2>7 DEF IndInv, LocksHoldTheIncumbent, ActivateCommit, Refuse, storeVars
    <3>2. audited'[c]["activated"] = 1
      BY <2>2, <2>3, <3>1 DEF RowAccounted, Events
    <3>3. \A d \in Conns \ {c} : audited'[d] = audited[d]
      BY <1>0, <3>1 DEF Record
    <3>4. RowAccounted(c)'
      BY <1>2, <2>0, <2>2, <2>3, <3>1 DEF RowAccounted, Events
    <3>5. ASSUME NEW d \in Conns \ {c}, d \in req[r].hit PROVE RowAccounted(d)'
      <4>1. status[d] = "active" /\ Owner[c] = Owner[d] /\ status'[d] = "retired"
        BY <2>0, <3>1, <3>5 DEF IndInv, LocksHoldTheIncumbent, Holding
      <4> QED BY <1>2, <2>0, <3>2, <3>3, <3>5, <4>1 DEF AuditMatchesRows, RowAccounted
    <3>6. ASSUME NEW d \in Conns \ {c}, d \notin req[r].hit PROVE RowAccounted(d)'
      <4>1. status'[d] = status[d]
        BY <3>1, <3>6
      <4> QED BY <3>2, <3>3, <3>6, <4>1, TrailUntouched DEF AuditMatchesRows
    <3> QED BY <3>4, <3>5, <3>6 DEF AuditMatchesRows
  <2>8. CASE \/ UpdateCommit(r) \/ VerifyProbe(r) \/ VerifyCommit(r)
             \/ ActivateScan(r) \/ ActivateRetire(r) \/ ActivateLock(r)
    BY <1>2, <2>8 DEF UpdateCommit, EditDraft, Refuse, VerifyProbe, VerifyCommit, ActivateScan,
         ActivateRetire, ActivateLock, storeVars
  <2> QED BY <1>2, <2>4, <2>5, <2>6, <2>7, <2>8 DEF Continue
<1>3. CASE ~UNCHANGED <<status, audited>>
  <2>1. Next
    BY <1>3 DEF vars
  <2>2. PICK r \in Reqs : Continue(r)
    BY <1>3, <2>1 DEF Next, Start, CreateBegin, UpdateBegin, VerifyBegin, ActivateBegin, RetireBegin,
         DeleteBegin, Begin, DeadlockDetected, Abort, Refuse, storeVars, ArchiveWorkspace, ArchiveRow, VerdictExpires
  <2> QED BY <1>2, <1>3, <2>2
<1> QED BY <1>1, <1>3

(* Every row is accounted for in the audit trail, by one event of its own  *)
(* per change of status or by the activation that retired it.              *)
THEOREM TrailAccounts == Spec => []AuditMatchesRows
<1>1. Init => AuditMatchesRows
  BY DEF Init, StoreInit, AuditMatchesRows, RowAccounted, Events
<1>2. IndInv /\ AuditMatchesRows /\ [Next]_vars => AuditMatchesRows'
  BY TrailKept
<1> QED BY <1>1, <1>2, Invariance, PTL DEF Spec

-----------------------------------------------------------------------------
(* The wait-for relation has no ring of more than two: whoever waits for a *)
(* draft waits for a request in the index, and a request s that vacates    *)
(* the slot r wants waits, if at all, for a draft.  Whoever holds that     *)
(* draft is in the index of the same workspace, and so waits for s.        *)
LEMMA RingsStatic ==
    ASSUME IndInv, OneActivePerWorkspace
    PROVE  RingsAreOfTwo
<1> SUFFICES ASSUME NEW r \in Reqs, NEW s \in Reqs, NEW p \in Reqs,
                    req[r].pc = "index", WaitsFor(r, s), WaitsFor(s, p)
             PROVE  WaitsFor(p, s)
  BY DEF RingsAreOfTwo
<1>1. PICK d \in req[s].hit : Holding(s) /\ d \in ActiveIn(Owner[req[r].conn])
  BY DEF WaitsFor, Vacating
<1>2. d \in Conns /\ status[d] = "active" /\ Owner[d] = Owner[req[s].conn]
  BY <1>1 DEF IndInv, LocksHoldTheIncumbent, ActiveIn
<1>3. req[s].pc # "index"
  <2> SUFFICES ASSUME req[s].pc = "index" PROVE FALSE
    OBVIOUS
  <2>1. p # s /\ Vacating(p, s)
    BY DEF WaitsFor
  <2>2. PICK e \in req[p].hit : Holding(p) /\ e \in ActiveIn(Owner[req[s].conn])
    BY <2>1 DEF Vacating
  <2>3. e = d
    BY <1>2, <2>2 DEF OneActivePerWorkspace, ActiveIn
  <2> QED BY <1>1, <2>1, <2>2, <2>3 DEF IndInv, LocksHoldTheIncumbent
<1>4. req[s].pc = "promote" /\ req[p].pc = "index" /\ req[p].conn = req[s].conn
  BY <1>3 DEF WaitsFor, Claims
<1>5. d \in ActiveIn(Owner[req[p].conn])
  BY <1>2, <1>4 DEF ActiveIn
<1>6. Vacating(s, p)
  BY <1>1, <1>5 DEF Vacating
<1>7. s # p
  BY <1>4
<1> QED BY <1>4, <1>6, <1>7 DEF WaitsFor

(* Whatever activations race, and for however many drafts, those that wait *)
(* for one another in a ring are two: the pair that DeadlockDetected ends, *)
(* so a detector of pairs misses none (repository.go:424,433).             *)
THEOREM RingsOfTwo == Spec => []RingsAreOfTwo
<1>1. IndInv /\ OneActivePerWorkspace => RingsAreOfTwo
  BY RingsStatic
<1> QED BY <1>1, OneActive, Invariance, PTL

-----------------------------------------------------------------------------
(***************************************************************************)
(* ProviderRuntime, for any sets of workspaces, connections, credentials,  *)
(* stamps and resolutions and any cache size.                              *)
(*                                                                         *)
(* Why isolation holds although the cache is never told of a change: what  *)
(* is in it, and what a resolution carries from one read to the next,      *)
(* belongs to a connection that has been activated, and the configuration  *)
(* of such a connection is frozen until its row is gone.                   *)
(***************************************************************************)

Activated == {"active", "retired", "deleted"}

Gone == {"retired", "deleted"}

HasRead(q) == q.pc \in {"row", "miss", "built", "served"}

\* What a resolution has read of its connection is still what the row holds.
SoundCall(q) ==
    HasRead(q) =>
        LET c == q.conn IN
        /\ c \in Conns /\ Owner[c] = q.ws /\ status[c] \in Activated
        /\ q.key \in Keys /\ q.key[1] = c
        /\ c \in Rows => /\ q.pc \in {"row", "miss"} => q.coord = coord[c]
                         /\ q.pc \in {"built", "served"} => q.prov = <<coord[c], secret[c]>>

CallsSound == \A r \in Calls : SoundCall(call[r])

\* Every provider in the cache is the one its connection was activated with.
CacheSound ==
    \A k \in cached :
        /\ status[k[1]] \in Activated
        /\ k[1] \in Rows => provider[k] = <<coord[k[1]], secret[k[1]]>>

\* What a resolution found out of service stays so, and is never what it reads.
PastCall(q) ==
    /\ q.pc = "workspace" => \A c \in q.past : status[c] \in Gone
    /\ HasRead(q) => q.past = {}

PastStaysPast == \A r \in Calls : PastCall(call[r])

BoundedCache == IsFiniteSet(cached) /\ CacheIsBounded

RuntimeInv ==
    RuntimeTypeOK /\ CallsSound /\ CacheSound /\ PastStaysPast /\ BoundedCache
        /\ OneGenerationPerConnection

-----------------------------------------------------------------------------
(* The operators' side.                                                    *)

\* A change of the table: types hold, an activated row keeps its configuration or
\* goes away, and what left service does not come back.
Kept ==
    \A c \in Conns :
        /\ status[c] \in Activated =>
              /\ status'[c] \in Activated
              /\ c \in Rows' => c \in Rows /\ coord'[c] = coord[c] /\ secret'[c] = secret[c]
        /\ status[c] \in Gone => status'[c] \in Gone

LEMMA StoreStepKeeps ==
    ASSUME StoreTypeOK, NEW c \in Conns, ConnStep(c)
    PROVE  StoreTypeOK' /\ Kept /\ FrozenStep
<1>1. CASE \E k \in Coords, s \in Secrets : InsertDraft(c, k, s)
  BY <1>1 DEF InsertDraft, StoreTypeOK, Kept, FrozenStep, Activated, Gone, Rows, Statuses
<1>2. CASE \E k \in Coords, s \in Secrets : EditDraft(c, k, s)
  BY <1>2 DEF EditDraft, StoreTypeOK, Kept, FrozenStep, Activated, Gone, Rows, Statuses
<1>3. CASE Promote(c)
  <2>1. \A d \in Conns : status'[d] = IF d = c THEN "active"
                                      ELSE IF d \in ActiveIn(Owner[c]) THEN "retired" ELSE status[d]
    BY <1>3 DEF Promote
  <2>2. StoreTypeOK'
    BY <1>3, <2>1 DEF Promote, StoreTypeOK, Statuses
  <2> QED BY <1>3, <2>1, <2>2 DEF Promote, StoreTypeOK, Kept, FrozenStep, Activated, Gone, Rows, Statuses, ActiveIn
<1>4. CASE RetireRow(c)
  BY <1>4 DEF RetireRow, StoreTypeOK, Kept, FrozenStep, Activated, Gone, Rows, Statuses
<1>5. CASE DeleteRow(c)
  BY <1>5 DEF DeleteRow, StoreTypeOK, Kept, FrozenStep, Activated, Gone, Rows, Statuses
<1> QED BY <1>1, <1>2, <1>3, <1>4, <1>5 DEF ConnStep

\* Whatever the operators commit, the cache and the resolutions keep what they hold,
\* and it stays true.
LEMMA TableStep ==
    ASSUME RuntimeInv, StoreTypeOK', Kept, UNCHANGED <<cacheVars, call>>,
           stamp' \in [Conns -> Stamps \cup {None}],
           \A c \in Conns : status'[c] = "active" => stamp'[c] \in Stamps
    PROVE  RuntimeInv'
<1>1. RuntimeTypeOK'
  BY DEF RuntimeInv, RuntimeTypeOK, cacheVars
<1>2. CallsSound'
  BY DEF RuntimeInv, CallsSound, SoundCall, cacheVars, Kept, HasRead
<1>3. CacheSound'
  <2>1. \A k \in cached : k[1] \in Conns
    BY DEF RuntimeInv, RuntimeTypeOK, Keys
  <2> QED BY <2>1 DEF RuntimeInv, CacheSound, cacheVars, Kept
<1>4. PastStaysPast'
  <2>1. \A r \in Calls : call[r].past \subseteq Conns
    BY DEF RuntimeInv, RuntimeTypeOK, CallRecords
  <2> QED BY <2>1 DEF RuntimeInv, PastStaysPast, PastCall, cacheVars, Kept, HasRead
<1>5. BoundedCache' /\ OneGenerationPerConnection'
  BY DEF RuntimeInv, BoundedCache, CacheIsBounded, OneGenerationPerConnection, cacheVars
<1> QED BY <1>1, <1>2, <1>3, <1>4, <1>5 DEF RuntimeInv

OperatorStep ==
    \/ \E c \in Conns : \/ InsertOrEdit(c) \/ Activate(c) \/ Retire(c)
                        \/ Delete(c) \/ SaveVerification(c)
    \/ \E w \in Workspaces : Archive(w)

LEMMA OperatorStepSound ==
    ASSUME RuntimeInv, OperatorStep
    PROVE  RuntimeInv' /\ [FrozenStep]_storeVars
<1>0. StoreTypeOK /\ stamp \in [Conns -> Stamps \cup {None}]
      /\ \A c \in Conns : status[c] = "active" => stamp[c] \in Stamps
  BY DEF RuntimeInv, RuntimeTypeOK
<1>1. ASSUME NEW c \in Conns, InsertOrEdit(c) PROVE RuntimeInv' /\ [FrozenStep]_storeVars
  <2>1. ConnStep(c)
    BY <1>1 DEF InsertOrEdit, ConnStep
  <2>2. StoreTypeOK' /\ Kept /\ FrozenStep
    BY <1>0, <2>1, StoreStepKeeps
  <2>3. \A d \in Conns : status'[d] = "active" => status[d] = "active"
    BY <1>0, <1>1 DEF InsertOrEdit, InsertDraft, EditDraft, StoreTypeOK
  <2> QED BY <1>0, <1>1, <2>2, <2>3, TableStep DEF InsertOrEdit
<1>2. ASSUME NEW c \in Conns, Activate(c) PROVE RuntimeInv' /\ [FrozenStep]_storeVars
  <2>1. StoreTypeOK' /\ Kept /\ FrozenStep
    BY <1>0, <1>2, StoreStepKeeps DEF Activate, ConnStep
  <2>2. PICK t \in Stamps : stamp' = [d \in Conns |-> IF d = c THEN t
                                                  ELSE IF status'[d] = "active" THEN stamp[d]
                                                  ELSE None]
    BY <1>2 DEF Activate
  <2>3. \A d \in Conns : d # c /\ status'[d] = "active" => status[d] = "active"
    BY <1>0, <1>2 DEF Activate, Promote, StoreTypeOK
  <2>4. stamp' \in [Conns -> Stamps \cup {None}]
        /\ \A d \in Conns : status'[d] = "active" => stamp'[d] \in Stamps
    BY <1>0, <2>2, <2>3
  <2> QED BY <1>2, <2>1, <2>4, TableStep DEF Activate
<1>3. ASSUME NEW c \in Conns, Retire(c) PROVE RuntimeInv' /\ [FrozenStep]_storeVars
  <2>1. StoreTypeOK' /\ Kept /\ FrozenStep
    BY <1>0, <1>3, StoreStepKeeps DEF Retire, ConnStep
  <2>2. stamp' \in [Conns -> Stamps \cup {None}]
        /\ \A d \in Conns : status'[d] = "active" => stamp'[d] \in Stamps
    BY <1>0, <1>3 DEF Retire, RetireRow, StoreTypeOK
  <2> QED BY <1>3, <2>1, <2>2, TableStep DEF Retire
<1>4. ASSUME NEW c \in Conns, Delete(c) PROVE RuntimeInv' /\ [FrozenStep]_storeVars
  <2>1. StoreTypeOK' /\ Kept /\ FrozenStep
    BY <1>0, <1>4, StoreStepKeeps DEF Delete, ConnStep
  <2>2. \A d \in Conns : status'[d] = "active" => status[d] = "active"
    BY <1>0, <1>4 DEF Delete, DeleteRow, StoreTypeOK
  <2> QED BY <1>0, <1>4, <2>1, <2>2, TableStep DEF Delete
<1>5. ASSUME NEW c \in Conns, SaveVerification(c) PROVE RuntimeInv' /\ [FrozenStep]_storeVars
  <2>1. StoreTypeOK' /\ Kept
    BY <1>0, <1>5 DEF SaveVerification, storeVars, StoreTypeOK, Kept, Rows
  <2> QED BY <1>0, <1>5, <2>1, TableStep DEF SaveVerification, storeVars
<1>6. ASSUME NEW w \in Workspaces, Archive(w) PROVE RuntimeInv' /\ [FrozenStep]_storeVars
  <2>1. StoreTypeOK' /\ Kept /\ FrozenStep
    BY <1>0, <1>6 DEF Archive, ArchiveRow, StoreTypeOK, Kept, Rows, FrozenStep
  <2> QED BY <1>0, <1>6, <2>1, TableStep DEF Archive, ArchiveRow
<1> QED BY <1>1, <1>2, <1>3, <1>4, <1>5, <1>6 DEF OperatorStep

-----------------------------------------------------------------------------
(* Resolver.ForWorkspace.                                                  *)

\* A resolution moves on to q and touches nothing else.
LEMMA CallStep ==
    ASSUME RuntimeInv, NEW r \in Calls, NEW q \in CallRecords, SoundCall(q), PastCall(q),
           call' = [call EXCEPT ![r] = q], UNCHANGED <<storeVars, stamp, cacheVars>>
    PROVE  RuntimeInv' /\ [FrozenStep]_storeVars
<1>1. RuntimeTypeOK'
  BY DEF RuntimeInv, RuntimeTypeOK, storeVars, cacheVars, StoreTypeOK
<1>2. \A p \in Calls : call'[p] = IF p = r THEN q ELSE call[p]
  BY DEF RuntimeInv, RuntimeTypeOK
<1>4. CallsSound'
  BY <1>2 DEF RuntimeInv, CallsSound, SoundCall, storeVars, Rows, HasRead
<1>5. PastStaysPast'
  BY <1>2 DEF RuntimeInv, PastStaysPast, PastCall, storeVars, HasRead
<1>6. CacheSound' /\ BoundedCache' /\ OneGenerationPerConnection'
  BY DEF RuntimeInv, CacheSound, BoundedCache, CacheIsBounded, OneGenerationPerConnection,
         storeVars, cacheVars, Rows
<1> QED BY <1>1, <1>4, <1>5, <1>6 DEF RuntimeInv

LEMMA NoCallSound == NoCall \in CallRecords /\ SoundCall(NoCall) /\ PastCall(NoCall)
  BY DEF NoCall, CallRecords, NoConfig, Configs, SoundCall, PastCall, HasRead

LEMMA RequireLiveWorkspaceSound ==
    ASSUME RuntimeInv, NEW r \in Calls, NEW w \in Workspaces, RequireLiveWorkspace(r, w)
    PROVE  RuntimeInv' /\ [FrozenStep]_storeVars
<1> DEFINE past == {c \in Conns : Owner[c] = w /\ status[c] \in {"retired", "deleted"}}
           q == [NoCall EXCEPT !.pc = "workspace", !.ws = w, !.past = past]
<1>1. call' = [call EXCEPT ![r] = q] /\ UNCHANGED <<storeVars, stamp, cacheVars>>
  BY DEF RequireLiveWorkspace
<1>2. q.pc = "workspace" /\ q.past = past /\ q \in CallRecords
  BY NoCallSound DEF CallRecords
<1> HIDE DEF q
<1>3. SoundCall(q) /\ PastCall(q)
  BY <1>2 DEF SoundCall, PastCall, HasRead, Gone
<1> QED BY <1>1, <1>2, <1>3, CallStep

\* A step that gives up.
LEMMA GiveUp ==
    ASSUME RuntimeInv, NEW r \in Calls, call' = [call EXCEPT ![r] = NoCall],
           UNCHANGED <<storeVars, stamp, cacheVars>>
    PROVE  RuntimeInv' /\ [FrozenStep]_storeVars
  BY NoCallSound, CallStep

LEMMA ReadActiveRowSound ==
    ASSUME RuntimeInv, NEW r \in Calls, ReadActiveRow(r)
    PROVE  RuntimeInv' /\ [FrozenStep]_storeVars
<1>1. call \in [Calls -> CallRecords] /\ call[r] \in CallRecords /\ StoreTypeOK
      /\ stamp \in [Conns -> Stamps \cup {None}]
  BY DEF RuntimeInv, RuntimeTypeOK
<1>2. CASE \E c \in UsableIn(call[r].ws) :
             call' = [call EXCEPT ![r].pc = "row", ![r].conn = c,
                                  ![r].key = CacheKey(c, stamp[c]), ![r].coord = coord[c],
                                  ![r].past = @ \cap {c}]
  <2>1. PICK c \in UsableIn(call[r].ws) :
             call' = [call EXCEPT ![r].pc = "row", ![r].conn = c,
                                  ![r].key = CacheKey(c, stamp[c]), ![r].coord = coord[c],
                                  ![r].past = @ \cap {c}]
    BY <1>2
  <2>2. c \in Conns /\ status[c] = "active" /\ Owner[c] = call[r].ws /\ stamp[c] \in Stamps
    BY DEF UsableIn, ActiveIn, RuntimeInv, RuntimeTypeOK
  <2>3. call[r].past \cap {c} = {}
    BY <2>2 DEF RuntimeInv, PastStaysPast, PastCall, Gone, ReadActiveRow
  <2> DEFINE q == [call[r] EXCEPT !.pc = "row", !.conn = c, !.key = CacheKey(c, stamp[c]),
                                  !.coord = coord[c], !.past = @ \cap {c}]
  <2>4. call' = [call EXCEPT ![r] = q]
    BY <1>1, <2>1
  <2>5. /\ q.pc = "row" /\ q.ws = call[r].ws /\ q.conn = c /\ q.key = <<c, stamp[c]>>
        /\ q.coord = coord[c] /\ q.past = {} /\ q \in CallRecords
    BY <1>1, <2>2, <2>3 DEF CallRecords, Keys, StoreTypeOK, CacheKey
  <2> HIDE DEF q
  <2>6. SoundCall(q) /\ PastCall(q)
    BY <2>2, <2>5 DEF SoundCall, PastCall, HasRead, Activated, Keys
  <2> QED BY <2>4, <2>5, <2>6, CallStep DEF ReadActiveRow
<1>3. CASE call' = [call EXCEPT ![r] = NoCall]
  BY <1>3, GiveUp DEF ReadActiveRow
<1> QED BY <1>2, <1>3 DEF ReadActiveRow

LEMMA CacheGetSound ==
    ASSUME RuntimeInv, NEW r \in Calls, CacheGet(r)
    PROVE  RuntimeInv' /\ [FrozenStep]_storeVars
<1>1. call \in [Calls -> CallRecords] /\ call[r] \in CallRecords /\ provider \in [Keys -> Configs]
      /\ cached \subseteq Keys /\ SoundCall(call[r]) /\ PastCall(call[r]) /\ CacheSound
  BY DEF RuntimeInv, RuntimeTypeOK, CallsSound, PastStaysPast
<1>2. call[r].pc = "row" /\ UNCHANGED <<storeVars, stamp, cacheVars>>
  BY DEF CacheGet
<1>3. CASE /\ call[r].key \in cached
           /\ call' = [call EXCEPT ![r].pc = "served", ![r].prov = provider[call[r].key]]
  <2> DEFINE q == [call[r] EXCEPT !.pc = "served", !.prov = provider[call[r].key]]
  <2>1. call' = [call EXCEPT ![r] = q]
    BY <1>1, <1>3
  <2>2. /\ q.pc = "served" /\ q.ws = call[r].ws /\ q.conn = call[r].conn /\ q.key = call[r].key
        /\ q.coord = call[r].coord /\ q.past = call[r].past /\ q \in CallRecords
        /\ q.prov = provider[call[r].key]
    BY <1>1, <1>3 DEF CallRecords
  <2> HIDE DEF q
  <2>3. SoundCall(q) /\ PastCall(q)
    BY <1>1, <1>2, <1>3, <2>2 DEF SoundCall, PastCall, HasRead, CacheSound
  <2> QED BY <1>2, <2>1, <2>2, <2>3, CallStep
<1>4. CASE call' = [call EXCEPT ![r].pc = "miss"]
  <2> DEFINE q == [call[r] EXCEPT !.pc = "miss"]
  <2>1. call' = [call EXCEPT ![r] = q]
    BY <1>1, <1>4
  <2>2. /\ q.pc = "miss" /\ q.ws = call[r].ws /\ q.conn = call[r].conn /\ q.key = call[r].key
        /\ q.coord = call[r].coord /\ q.past = call[r].past /\ q \in CallRecords
    BY <1>1, <1>4 DEF CallRecords
  <2> HIDE DEF q
  <2>3. SoundCall(q) /\ PastCall(q)
    BY <1>1, <1>2, <1>4, <2>2 DEF SoundCall, PastCall, HasRead, CacheSound
  <2> QED BY <1>2, <2>1, <2>2, <2>3, CallStep
<1> QED BY <1>3, <1>4 DEF CacheGet

LEMMA BuildProviderSound ==
    ASSUME RuntimeInv, NEW r \in Calls, BuildProvider(r)
    PROVE  RuntimeInv' /\ [FrozenStep]_storeVars
<1>1. call \in [Calls -> CallRecords] /\ call[r] \in CallRecords /\ StoreTypeOK
      /\ SoundCall(call[r]) /\ PastCall(call[r])
  BY DEF RuntimeInv, RuntimeTypeOK, CallsSound, PastStaysPast
<1>2. call[r].pc = "miss" /\ UNCHANGED <<storeVars, stamp, cacheVars>>
  BY DEF BuildProvider
<1>3. CASE /\ call[r].conn \in Rows
           /\ call' = [call EXCEPT ![r].pc = "built",
                                   ![r].prov = <<call[r].coord, secret[call[r].conn]>>]
  <2> DEFINE q == [call[r] EXCEPT !.pc = "built", !.prov = <<call[r].coord, secret[call[r].conn]>>]
  <2>1. call' = [call EXCEPT ![r] = q]
    BY <1>1, <1>3
  <2>2. /\ q.pc = "built" /\ q.ws = call[r].ws /\ q.conn = call[r].conn /\ q.key = call[r].key
        /\ q.coord = call[r].coord /\ q.past = call[r].past /\ q \in CallRecords
        /\ q.prov = <<call[r].coord, secret[call[r].conn]>>
    BY <1>1, <1>3 DEF CallRecords, Configs, StoreTypeOK, Rows
  <2> HIDE DEF q
  <2>3. SoundCall(q) /\ PastCall(q)
    BY <1>1, <1>2, <1>3, <2>2 DEF SoundCall, PastCall, HasRead, CacheSound
  <2> QED BY <1>2, <2>1, <2>2, <2>3, CallStep
<1>4. CASE call' = [call EXCEPT ![r] = NoCall]
  BY <1>2, <1>4, GiveUp
<1> QED BY <1>3, <1>4 DEF BuildProvider

\* The provider enters the cache in place of its connection's earlier generations and
\* of what the bound makes it give up.
LEMMA CachePutSound ==
    ASSUME RuntimeInv, NEW r \in Calls, CachePut(r)
    PROVE  RuntimeInv' /\ [FrozenStep]_storeVars
<1> DEFINE k == call[r].key
           c == call[r].conn
           kept == cached \ Superseded(c)
           q == [call[r] EXCEPT !.pc = "served"]
<1>1. call \in [Calls -> CallRecords] /\ call[r] \in CallRecords /\ cached \subseteq Keys
      /\ provider \in [Keys -> Configs] /\ SoundCall(call[r]) /\ PastCall(call[r])
      /\ IsFiniteSet(cached) /\ Cardinality(cached) <= CacheSize
  BY DEF RuntimeInv, RuntimeTypeOK, CallsSound, PastStaysPast, BoundedCache, CacheIsBounded
<1>2. /\ call[r].pc = "built" /\ UNCHANGED <<storeVars, stamp>>
      /\ call' = [call EXCEPT ![r] = q]
      /\ provider' = [l \in Keys |-> IF l = k THEN call[r].prov
                                     ELSE IF l \in cached' THEN provider[l] ELSE NoConfig]
  BY DEF CachePut
<1>3. k \in Keys /\ k[1] = c /\ status[c] \in Activated
      /\ (c \in Rows => call[r].prov = <<coord[c], secret[c]>>)
  BY <1>1, <1>2 DEF SoundCall, HasRead
<1>4. /\ q.pc = "served" /\ q.ws = call[r].ws /\ q.conn = c /\ q.key = k
      /\ q.coord = call[r].coord /\ q.prov = call[r].prov /\ q.past = call[r].past
      /\ q \in CallRecords
  BY <1>1 DEF CallRecords
<1> HIDE DEF q
<1>5. SoundCall(q) /\ PastCall(q)
  BY <1>1, <1>2, <1>4 DEF SoundCall, PastCall, HasRead
<1>6. \A p \in Calls : call'[p] = IF p = r THEN q ELSE call[p]
  BY <1>1, <1>2
<1>7. /\ k \in cached'
      /\ \A l \in cached' : l \in cached \/ l = k
      /\ k \notin cached => \A l \in cached' \ {k} : l[1] # c
  BY DEF CachePut, Evicted, Superseded
<1>8. cached' \subseteq Keys
  BY <1>1, <1>3, <1>7
<1>9. IsFiniteSet(cached') /\ Cardinality(cached') <= CacheSize
  <2>1. CASE k \in cached
    BY <1>1, <2>1 DEF CachePut
  <2>2. CASE k \notin cached
    <3>1. IsFiniteSet(kept) /\ Cardinality(kept) <= CacheSize
          /\ Cardinality(kept) \in Nat /\ Cardinality(cached) \in Nat
      BY <1>1, FS_Subset, FS_CardinalityType, CacheSizeAssumption
    <3>2. PICK gone \in Evicted(kept) : cached' = (kept \ gone) \cup {k}
      BY <2>2 DEF CachePut
    <3>3. CASE Cardinality(kept) + 1 > CacheSize
      <4>1. PICK l \in kept : gone = {l}
        BY <3>2, <3>3 DEF Evicted
      <4>2. IsFiniteSet(kept \ {l}) /\ Cardinality(kept \ {l}) = Cardinality(kept) - 1
        BY <3>1, <4>1, FS_RemoveElement
      <4>3. k \notin kept \ {l}
        BY <2>2
      <4>4. IsFiniteSet(cached') /\ Cardinality(cached') = Cardinality(kept) - 1 + 1
        BY <3>2, <4>1, <4>2, <4>3, FS_AddElement
      <4> QED BY <3>1, <4>4
    <3>4. CASE ~(Cardinality(kept) + 1 > CacheSize)
      <4>1. gone = {} /\ cached' = kept \cup {k}
        BY <3>2, <3>4 DEF Evicted
      <4>2. k \notin kept
        BY <2>2
      <4>3. IsFiniteSet(cached') /\ Cardinality(cached') = Cardinality(kept) + 1
        BY <3>1, <4>1, <4>2, FS_AddElement
      <4> QED BY <3>1, <3>4, <4>3, CacheSizeAssumption
    <3> QED BY <3>3, <3>4
  <2> QED BY <2>1, <2>2
<1>10. RuntimeTypeOK'
  <2>1. call' \in [Calls -> CallRecords]
    BY <1>1, <1>2, <1>4
  <2>2. provider' \in [Keys -> Configs]
    BY <1>1, <1>2 DEF CallRecords, Configs, NoConfig
  <2> QED BY <1>2, <1>8, <2>1, <2>2 DEF RuntimeInv, RuntimeTypeOK, storeVars, StoreTypeOK
<1>11. CallsSound'
  BY <1>2, <1>5, <1>6 DEF RuntimeInv, CallsSound, SoundCall, storeVars, Rows, HasRead
<1>12. PastStaysPast'
  BY <1>2, <1>5, <1>6 DEF RuntimeInv, PastStaysPast, PastCall, storeVars, HasRead
<1>13. CacheSound'
  <2> SUFFICES ASSUME NEW l \in cached'
               PROVE  /\ status[l[1]] \in Activated
                      /\ l[1] \in Rows => provider'[l] = <<coord[l[1]], secret[l[1]]>>
    BY <1>2 DEF CacheSound, storeVars, Rows
  <2>1. provider'[l] = IF l = k THEN call[r].prov ELSE provider[l]
    BY <1>2, <1>8
  <2>2. CASE l = k
    BY <1>3, <2>1, <2>2
  <2>3. CASE l # k
    BY <1>7, <2>1, <2>3 DEF RuntimeInv, CacheSound
  <2> QED BY <2>2, <2>3
<1>14. OneGenerationPerConnection'
  <2>1. CASE k \in cached
    BY <2>1 DEF RuntimeInv, OneGenerationPerConnection, CachePut
  <2>2. CASE k \notin cached
    BY <1>3, <1>7, <2>2 DEF RuntimeInv, OneGenerationPerConnection
  <2> QED BY <2>1, <2>2
<1> QED BY <1>2, <1>9, <1>10, <1>11, <1>12, <1>13, <1>14 DEF RuntimeInv, BoundedCache, CacheIsBounded

-----------------------------------------------------------------------------
LEMMA RuntimeInvInit == RuntimeInit => RuntimeInv
<1> SUFFICES ASSUME RuntimeInit PROVE RuntimeInv
  OBVIOUS
<1>1. RuntimeTypeOK
  BY NoCallSound DEF RuntimeInit, RuntimeTypeOK, StoreInit, StoreTypeOK, Statuses, Configs, NoConfig
<1>2. CallsSound /\ PastStaysPast
  BY NoCallSound DEF RuntimeInit, CallsSound, PastStaysPast
<1>3. CacheSound /\ OneGenerationPerConnection
  BY DEF RuntimeInit, CacheSound, OneGenerationPerConnection
<1>4. BoundedCache
  BY FS_EmptySet, CacheSizeAssumption DEF RuntimeInit, BoundedCache, CacheIsBounded
<1> QED BY <1>1, <1>2, <1>3, <1>4 DEF RuntimeInv

LEMMA RuntimeInvNext == RuntimeInv /\ [RuntimeNext]_runtimeVars => RuntimeInv' /\ [FrozenStep]_storeVars
<1> SUFFICES ASSUME RuntimeInv, [RuntimeNext]_runtimeVars
             PROVE  RuntimeInv' /\ [FrozenStep]_storeVars
  OBVIOUS
<1>1. CASE UNCHANGED runtimeVars
  <2>1. StoreTypeOK' /\ Kept
    BY <1>1 DEF RuntimeInv, RuntimeTypeOK, runtimeVars, StoreTypeOK, Kept, Rows
  <2> QED BY <1>1, <2>1, TableStep DEF RuntimeInv, RuntimeTypeOK, runtimeVars, cacheVars, storeVars
<1>2. CASE OperatorStep
  BY <1>2, OperatorStepSound
<1>3. CASE \E r \in Calls : \/ \E w \in Workspaces : RequireLiveWorkspace(r, w)
                            \/ ReadActiveRow(r) \/ CacheGet(r) \/ BuildProvider(r)
                            \/ CachePut(r) \/ Answer(r)
  <2>1. ASSUME NEW r \in Calls, Answer(r) PROVE RuntimeInv' /\ [FrozenStep]_storeVars
    BY <2>1, GiveUp DEF Answer
  <2> QED BY <1>3, <2>1, RequireLiveWorkspaceSound, ReadActiveRowSound, CacheGetSound,
             BuildProviderSound, CachePutSound
<1> QED BY <1>1, <1>2, <1>3 DEF RuntimeNext, OperatorStep

LEMMA RuntimeInvariant == RuntimeSpec => []RuntimeInv
  BY RuntimeInvInit, RuntimeInvNext, PTL DEF RuntimeSpec

\* Every state of the resolver, its cache and the table is well typed.
THEOREM RuntimeTypeCorrect == RuntimeSpec => []RuntimeTypeOK
<1>1. RuntimeInv => RuntimeTypeOK
  BY DEF RuntimeInv
<1> QED BY <1>1, RuntimeInvariant, PTL

\* Tenant isolation: what a request is served is built from the configuration its
\* workspace's connection was activated with (cache.go, resolver.go ForWorkspace).
THEOREM ServedCurrent == RuntimeSpec => []ServedProviderIsCurrent
<1>1. RuntimeInv => ServedProviderIsCurrent
  BY DEF RuntimeInv, ServedProviderIsCurrent, CallsSound, SoundCall, HasRead
<1> QED BY <1>1, RuntimeInvariant, PTL

\* A connection out of service before a request arrived never serves it (cache.go).
THEOREM RetiredServesNobody == RuntimeSpec => []RetiredNeverServes
<1>1. RuntimeInv => RetiredNeverServes
  BY DEF RuntimeInv, RetiredNeverServes, PastStaysPast, PastCall, HasRead
<1> QED BY <1>1, RuntimeInvariant, PTL

\* The eviction loop keeps the cache within its size (cache.go put).
THEOREM CacheBounded == RuntimeSpec => []CacheIsBounded
<1>1. RuntimeInv => CacheIsBounded
  BY DEF RuntimeInv, BoundedCache
<1> QED BY <1>1, RuntimeInvariant, PTL

\* A put releases the earlier generations of its connection (cache.go put).
THEOREM OneGeneration == RuntimeSpec => []OneGenerationPerConnection
<1>1. RuntimeInv => OneGenerationPerConnection
  BY DEF RuntimeInv
<1> QED BY <1>1, RuntimeInvariant, PTL

\* A connection keeps the configuration it was activated with (model.go CanUpdate).
THEOREM RuntimeFrozen == RuntimeSpec => FrozenOnceActive
  BY RuntimeInvInit, RuntimeInvNext, PTL DEF RuntimeSpec, FrozenOnceActive

=============================================================================
