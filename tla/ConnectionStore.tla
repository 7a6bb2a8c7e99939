-------------------------- MODULE ConnectionStore --------------------------
(***************************************************************************)
(* What the connections table promises to everyone who reads it, stated    *)
(* one committed transaction at a time: the abstract specification behind  *)
(* internal/connection/repository.go and the constraints of migration      *)
(* 000003.  Connections.tla (the concurrent handlers and their SQL         *)
(* statements) is shown to implement it; ProviderRuntime.tla (the          *)
(* identity runtime) is built on it.                                       *)
(***************************************************************************)
CONSTANTS
    Workspaces,     \* workspaces.id
    Conns,          \* connection ids; publicid.New never hands one out twice
    Coords,         \* provider coordinates: base_url, realm, client_id
    Secrets,        \* client secrets (what the sealed columns open to)
    Owner,          \* the workspace each connection id is created in
    None            \* a column of a row that does not exist

ASSUME OwnerAssumption == Owner \in [Conns -> Workspaces]

ASSUME NoneAssumption == None \notin Coords /\ None \notin Secrets

VARIABLES
    status,         \* lifecycle of each connection id
    coord,          \* base_url, realm, client_id of the row
    secret,         \* the plaintext behind the row's sealed credential
    archived        \* workspaces whose status is 'archived'

storeVars == <<status, coord, secret, archived>>

\* "absent" and "deleted" are ids with no row: not handed out yet, and gone.
Statuses == {"absent", "draft", "active", "retired", "deleted"}

Rows == {c \in Conns : status[c] \in {"draft", "active", "retired"}}

\* idx_connections_one_active_per_workspace: the rows the partial unique index covers.
ActiveIn(w) == {c \in Conns : status[c] = "active" /\ Owner[c] = w}

StoreInit ==
    /\ status = [c \in Conns |-> "absent"]
    /\ coord = [c \in Conns |-> None]
    /\ secret = [c \in Conns |-> None]
    /\ archived = {}

\* INSERT of a draft with its sealed secret.
InsertDraft(c, k, s) ==
    /\ status[c] = "absent"
    /\ status' = [status EXCEPT ![c] = "draft"]
    /\ coord' = [coord EXCEPT ![c] = k]
    /\ secret' = [secret EXCEPT ![c] = s]
    /\ UNCHANGED archived

\* Mutant: the status = 'draft' guard is dropped from the UPDATE.
EditAnyRow(c, k, s) ==
    /\ coord' = [coord EXCEPT ![c] = k]
    /\ secret' = [secret EXCEPT ![c] = s]
    /\ UNCHANGED <<status, archived>>

\* Only a draft's configuration is ever written.
EditDraft(c, k, s) ==
    /\ status[c] = "draft"
    /\ coord' = [coord EXCEPT ![c] = k]
    /\ secret' = [secret EXCEPT ![c] = s]
    /\ UNCHANGED <<status, archived>>

\* The swap: every active row of the workspace retires in the same commit.
Promote(c) ==
    /\ status[c] = "draft"
    /\ status' = [d \in Conns |-> IF d = c THEN "active"
                                  ELSE IF d \in ActiveIn(Owner[c]) THEN "retired"
                                  ELSE status[d]]
    /\ UNCHANGED <<coord, secret, archived>>

\* Mutant: the status <> 'retired' guard is dropped from the UPDATE.
RetireAnyRow(c) ==
    /\ status' = [status EXCEPT ![c] = "retired"]
    /\ UNCHANGED <<coord, secret, archived>>

RetireRow(c) ==
    /\ status[c] \in {"draft", "active"}
    /\ status' = [status EXCEPT ![c] = "retired"]
    /\ UNCHANGED <<coord, secret, archived>>

\* DELETE destroys the sealed credential with the row; never an active one.
DeleteRow(c) ==
    /\ status[c] \in {"draft", "retired"}
    /\ status' = [status EXCEPT ![c] = "deleted"]
    /\ coord' = [coord EXCEPT ![c] = None]
    /\ secret' = [secret EXCEPT ![c] = None]
    /\ UNCHANGED archived

\* workspaces.status moves to 'archived' and never back.
ArchiveRow(w) ==
    /\ archived' = archived \cup {w}
    /\ UNCHANGED <<status, coord, secret>>

ConnStep(c) ==
    \/ \E k \in Coords, s \in Secrets : InsertDraft(c, k, s) \/ EditDraft(c, k, s)
    \/ Promote(c)
    \/ RetireRow(c)
    \/ DeleteRow(c)

StoreNext ==
    \/ \E c \in Conns : ConnStep(c)
    \/ \E w \in Workspaces : ArchiveRow(w)

StoreSpec == StoreInit /\ [][StoreNext]_storeVars

-----------------------------------------------------------------------------
StoreTypeOK ==
    /\ status \in [Conns -> Statuses]
    /\ coord \in [Conns -> Coords \cup {None}]
    /\ secret \in [Conns -> Secrets \cup {None}]
    /\ archived \subseteq Workspaces

(* At most one active connection per workspace (migration 000003,          *)
(* "ONE ACTIVE CONNECTION PER WORKSPACE"): what makes "the active          *)
(* connection" of repository.go GetActiveByWorkspace well defined.         *)
OneActivePerWorkspace ==
    \A c, d \in Conns :
        status[c] = "active" /\ status[d] = "active" /\ Owner[c] = Owner[d] => c = d

FrozenStep ==
    \A c \in Conns :
        /\ status[c] \in {"active", "retired"} /\ status'[c] # "deleted"
              => coord'[c] = coord[c] /\ secret'[c] = secret[c]
        /\ status[c] \in {"active", "retired", "deleted"}
              => status'[c] \in {"active", "retired", "deleted"}
        /\ status'[c] = "active" => status[c] \in {"draft", "active"}

(* Once a connection has been activated, the coordinates and the           *)
(* credential it was activated with never change until the row is deleted  *)
(* (model.go CanUpdate: "Draft only"), and its status only moves forward.  *)
FrozenOnceActive == [][FrozenStep]_storeVars
=============================================================================
