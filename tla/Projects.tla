------------------------------ MODULE Projects ------------------------------
(***************************************************************************)
(* Projects and their machine credentials (internal/project): concurrent   *)
(* operator requests that create, rename and archive projects, mint and    *)
(* revoke credentials, and the credential authentication that runs on      *)
(* every machine request.  As in Connections, a handler reads, decides,    *)
(* and commits later in one guarded statement with its audit row.          *)
(*                                                                         *)
(* One workspace.  Token, label and scopes are data no property here tells *)
(* apart: a credential is its id, and presenting it is presenting a token  *)
(* whose prefix and hash match.                                            *)
(***************************************************************************)
EXTENDS Naturals, FiniteSets

CONSTANTS
    Projects,       \* project ids
    Creds,          \* credential ids
    ProjectOf,      \* the project each credential id is minted for
    Names,          \* project names, up to case and spacing
    Operators,      \* who may revoke
    Reqs,           \* requests being served at the same time
    MaxActive,      \* MaxActiveCredentials
    MaxTime,        \* bound on the clock
    Throttle,       \* lastUsedThrottle
    None

ASSUME ProjectOfAssumption == ProjectOf \in [Creds -> Projects]

ASSUME BoundsAssumption == MaxActive \in Nat /\ MaxTime \in Nat /\ Throttle \in Nat

ASSUME ProjectsNoneAssumption ==
    None \notin Projects \cup Creds \cup Names \cup Operators \cup Nat

VARIABLES
    live,           \* workspaces.status of the workspace is 'active'
    project,        \* projects.status
    name,           \* projects.name
    cred,           \* project_credentials: minted, revoked, by whom, until when
    used,           \* project_credentials.last_used_at
    clock,          \* the time handlers read
    req             \* what each request has read and decided so far

projectVars == <<live, project, name, cred, used, clock, req>>
tables == <<live, project, name, cred, used>>

Times == 0 .. MaxTime

NoCred == [state |-> "absent", by |-> None, expires |-> None]
CredRows == [state : {"absent", "minted", "revoked"}, by : Operators \cup {None},
             expires : Times \cup {None}]

NoReq == [pc |-> "idle", project |-> None, name |-> None, cred |-> None, row |-> NoCred,
          by |-> None, used |-> None, now |-> 0, sound |-> FALSE]

ProjectPCs == {"idle", "create", "rename", "mint", "revoke", "project", "decide", "touch", "accepted"}

ProjectsTypeOK ==
    /\ live \in BOOLEAN
    /\ project \in [Projects -> {"absent", "active", "archived"}]
    /\ name \in [Projects -> Names \cup {None}]
    /\ \A p \in Projects : project[p] = "absent" <=> name[p] = None
    /\ cred \in [Creds -> CredRows]
    /\ \A c \in Creds : cred[c].state = "revoked" <=> cred[c].by # None
    /\ used \in [Creds -> Times \cup {None}]
    /\ clock \in Times
    /\ \A r \in Reqs : req[r].pc \in ProjectPCs /\ req[r].now \in Times

ProjectsInit ==
    /\ live = TRUE
    /\ project = [p \in Projects |-> "absent"]
    /\ name = [p \in Projects |-> None]
    /\ cred = [c \in Creds |-> NoCred]
    /\ used = [c \in Creds |-> None]
    /\ clock = 0
    /\ req = [r \in Reqs |-> NoReq]

-----------------------------------------------------------------------------
End(r) == req' = [req EXCEPT ![r] = NoReq]

\* An error, an early return or a rollback: the tables keep what they held.
Refuse(r) == End(r) /\ UNCHANGED <<tables, clock>>

Abort(r) == req[r].pc \in {"create", "rename", "mint", "revoke"} /\ Refuse(r)

\* Mutant: there is no unique index on the name.
AnyName(p, n) == TRUE

\* projects_workspace_name_key: archived projects keep their names.
NameFree(p, n) == \A q \in Projects \ {p} : name[q] # n

\* Service.Create up to InTx: a writable workspace and a fresh id.
CreateProjectBegin(r, p, n) ==
    /\ req[r].pc = "idle"
    /\ live
    /\ project[p] = "absent"
    /\ \A q \in Reqs : req[q].pc = "create" => req[q].project # p
    /\ req' = [req EXCEPT ![r] = [NoReq EXCEPT !.pc = "create", !.project = p, !.name = n]]
    /\ UNCHANGED <<tables, clock>>

CreateProjectCommit(r) ==
    LET p == req[r].project
        n == req[r].name
    IN  /\ req[r].pc = "create"
        /\ \/ /\ NameFree(p, n)
              /\ project' = [project EXCEPT ![p] = "active"]
              /\ name' = [name EXCEPT ![p] = n]
              /\ End(r)
              /\ UNCHANGED <<live, cred, used, clock>>
           \/ ~NameFree(p, n) /\ Refuse(r)

RenameBegin(r, p, n) ==
    /\ req[r].pc = "idle"
    /\ project[p] = "active"
    /\ req' = [req EXCEPT ![r] = [NoReq EXCEPT !.pc = "rename", !.project = p, !.name = n]]
    /\ UNCHANGED <<tables, clock>>

\* UpdateProjectName: guarded by status = 'active' and by the unique index.
RenameCommit(r) ==
    LET p == req[r].project
        n == req[r].name
    IN  /\ req[r].pc = "rename"
        /\ \/ /\ project[p] = "active" /\ NameFree(p, n)
              /\ name' = [name EXCEPT ![p] = n]
              /\ End(r)
              /\ UNCHANGED <<live, project, cred, used, clock>>
           \/ (project[p] # "active" \/ ~NameFree(p, n)) /\ Refuse(r)

\* ArchiveProject: one idempotent statement; the credentials are not touched.
ArchiveProject(p) ==
    /\ project[p] # "absent"
    /\ project' = [project EXCEPT ![p] = "archived"]
    /\ UNCHANGED <<live, name, cred, used, clock, req>>

ArchiveWorkspace ==
    /\ live' = FALSE
    /\ UNCHANGED <<project, name, cred, used, clock, req>>

-----------------------------------------------------------------------------
\* CountActiveCredentials: revoked_at IS NULL; an expired credential still counts.
ActiveCredentials(p) == {c \in Creds : ProjectOf[c] = p /\ cred[c].state = "minted"}

\* CreateCredential up to InTx: the project read, the expiry, and the count.
MintBegin(r, c, e) ==
    /\ req[r].pc = "idle"
    /\ cred[c] = NoCred
    /\ \A q \in Reqs : req[q].pc = "mint" => req[q].cred # c
    /\ project[ProjectOf[c]] = "active"
    /\ e # None => e > clock
    /\ Cardinality(ActiveCredentials(ProjectOf[c])) < MaxActive
    /\ req' = [req EXCEPT ![r] = [NoReq EXCEPT !.pc = "mint", !.cred = c,
                                     !.row = [NoCred EXCEPT !.state = "minted", !.expires = e]]]
    /\ UNCHANGED <<tables, clock>>

MintCommit(r) ==
    /\ req[r].pc = "mint"
    /\ cred' = [cred EXCEPT ![req[r].cred] = req[r].row]
    /\ End(r)
    /\ UNCHANGED <<live, project, name, used, clock>>

\* RevokeCredential up to InTx: the credential exists, in whatever state.
RevokeBegin(r, c, o) ==
    /\ req[r].pc = "idle"
    /\ cred[c] # NoCred
    /\ req' = [req EXCEPT ![r] = [NoReq EXCEPT !.pc = "revoke", !.cred = c, !.by = o]]
    /\ UNCHANGED <<tables, clock>>

\* Mutant: revoked_at IS NULL is missing from the UPDATE.
RevokeAgain(r) ==
    /\ req[r].pc = "revoke"
    /\ cred' = [cred EXCEPT ![req[r].cred].state = "revoked", ![req[r].cred].by = req[r].by]
    /\ End(r)
    /\ UNCHANGED <<live, project, name, used, clock>>

\* Guarded by revoked_at IS NULL: the second revoker is told it is already revoked.
RevokeCommit(r) ==
    LET c == req[r].cred IN
    /\ req[r].pc = "revoke"
    /\ \/ /\ cred[c].state = "minted"
          /\ cred' = [cred EXCEPT ![c].state = "revoked", ![c].by = req[r].by]
          /\ End(r)
          /\ UNCHANGED <<live, project, name, used, clock>>
       \/ cred[c].state = "revoked" /\ Refuse(r)

-----------------------------------------------------------------------------
\* Mutant: the boundary instant still counts as before the expiry.
ExpiredAfter(row, now) == row.expires # None /\ now > row.expires

\* Credential.IsExpired.
IsExpired(row, now) == row.expires # None /\ now >= row.expires

\* Credential.IsUsable on the row that was read, at the time the handler looks.
IsUsable(row, now) == row.state = "minted" /\ ~IsExpired(row, now)

\* What is true of the credential at this very moment; history only.
Valid(c) ==
    /\ cred[c].state = "minted"
    /\ cred[c].expires # None => clock < cred[c].expires
    /\ project[ProjectOf[c]] = "active"

\* FindByKeyPrefix, first read: the credential row.
AuthLookup(r, c) ==
    /\ req[r].pc = "idle"
    /\ cred[c] # NoCred
    /\ req' = [req EXCEPT ![r] = [NoReq EXCEPT !.pc = "project", !.cred = c, !.row = cred[c],
                                     !.used = used[c], !.sound = Valid(c)]]
    /\ UNCHANGED <<tables, clock>>

\* FindByKeyPrefix, second read: the owning project, in no transaction with the first.
AuthProject(r) ==
    /\ req[r].pc = "project"
    /\ \/ /\ project[ProjectOf[req[r].cred]] = "active"
          /\ req' = [req EXCEPT ![r].pc = "decide"]
          /\ UNCHANGED <<tables, clock>>
       \/ project[ProjectOf[req[r].cred]] # "active" /\ Refuse(r)

\* The clock is read after both rows; NeedsLastUsedTouch throttles the write.
AuthDecide(r) ==
    LET usable == IsUsable(req[r].row, clock)
        stale == req[r].used = None \/ clock - req[r].used >= Throttle
    IN  /\ req[r].pc = "decide"
        /\ \/ /\ usable
              /\ req' = [req EXCEPT ![r].pc = IF stale THEN "touch" ELSE "accepted",
                                    ![r].now = clock]
              /\ UNCHANGED <<tables, clock>>
           \/ ~usable /\ Refuse(r)

\* TouchLastUsed, guarded again in SQL; an error is only logged.
AuthTouch(r) ==
    LET c == req[r].cred IN
    /\ req[r].pc = "touch"
    /\ \/ /\ used[c] # None => used[c] + Throttle < req[r].now
          /\ used' = [used EXCEPT ![c] = req[r].now]
       \/ UNCHANGED used
    /\ req' = [req EXCEPT ![r].pc = "accepted"]
    /\ UNCHANGED <<live, project, name, cred, clock>>

\* The principal is handed to the request, which is answered.
Answer(r) == req[r].pc = "accepted" /\ Refuse(r)

Tick ==
    /\ clock < MaxTime
    /\ clock' = clock + 1
    /\ UNCHANGED <<tables, req>>

-----------------------------------------------------------------------------
OperatorStep(r) ==
    \/ \E p \in Projects, n \in Names : CreateProjectBegin(r, p, n) \/ RenameBegin(r, p, n)
    \/ CreateProjectCommit(r)
    \/ RenameCommit(r)
    \/ \E c \in Creds, e \in Times \cup {None} : MintBegin(r, c, e)
    \/ MintCommit(r)
    \/ \E c \in Creds, o \in Operators : RevokeBegin(r, c, o)
    \/ RevokeCommit(r)
    \/ Abort(r)

AuthStep(r) ==
    \/ \E c \in Creds : AuthLookup(r, c)
    \/ AuthProject(r)
    \/ AuthDecide(r)
    \/ AuthTouch(r)
    \/ Answer(r)

ProjectsNext ==
    \/ \E r \in Reqs : OperatorStep(r) \/ AuthStep(r)
    \/ \E p \in Projects : ArchiveProject(p)
    \/ ArchiveWorkspace
    \/ Tick

ProjectsSpec == ProjectsInit /\ [][ProjectsNext]_projectVars

-----------------------------------------------------------------------------
(* An accepted credential was minted, unexpired and in an active project   *)
(* at one and the same moment of the request, though the two rows and the  *)
(* clock are read separately: a request that starts after a revocation, an *)
(* expiry or an archive is refused (repository.go FindByKeyPrefix, and     *)
(* ArchiveProject: "archiving stops all of them").                         *)
AcceptedAtOneInstant ==
    \A r \in Reqs : req[r].pc \in {"touch", "accepted"} => req[r].sound

(* No two projects of the workspace ever share a name, whatever creates    *)
(* and renames race; archived projects keep theirs (migration 000005,      *)
(* projects_workspace_name_key).                                           *)
NamesAreUnique ==
    \A p, q \in Projects : name[p] # None /\ name[p] = name[q] => p = q

RevokedStep ==
    \A c \in Creds : cred[c].state = "revoked" => cred'[c] = cred[c]

(* A revocation is final and keeps its first author, whoever revokes       *)
(* concurrently (repository.go RevokeCredential: never "silently           *)
(* overwriting the first revoker's attribution").                          *)
RevocationIsFinal == [][RevokedStep]_projectVars

(* What model.go says of MaxActiveCredentials ("caps live credentials per  *)
(* project") and two concurrent creations refute: the count is read before *)
(* the transaction that inserts.                                           *)
CapHolds == \A p \in Projects : Cardinality(ActiveCredentials(p)) <= MaxActive
=============================================================================
