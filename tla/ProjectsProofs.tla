--------------------------- MODULE ProjectsProofs ---------------------------
(***************************************************************************)
(* Theorems about Projects, for every set of projects, credentials,        *)
(* operators and requests, every cap and every bound on the clock.         *)
(***************************************************************************)
EXTENDS Projects, TLAPS

Requests ==
    [pc : ProjectPCs, project : Projects \cup {None}, name : Names \cup {None},
     cred : Creds \cup {None}, row : CredRows, by : Operators \cup {None},
     used : Times \cup {None}, now : Times, sound : BOOLEAN]

\* An operator's request works on rows only it can be about to insert.
OperatorOK(r) ==
    /\ req[r].pc \in {"create", "rename"} => req[r].project \in Projects /\ req[r].name \in Names
    /\ req[r].pc = "create" => project[req[r].project] = "absent"
    /\ req[r].pc = "mint" => /\ cred[req[r].cred] = NoCred
                             /\ req[r].row.state = "minted" /\ req[r].row.by = None
    /\ req[r].pc = "revoke" => req[r].by \in Operators

\* An authentication was sound when it read its row, if what it still has to check holds.
AuthOK(r) ==
    /\ req[r].pc \in {"mint", "revoke", "project", "decide", "touch", "accepted"}
         => req[r].cred \in Creds
    /\ req[r].pc \in {"mint", "project"} => project[ProjectOf[req[r].cred]] # "absent"
    /\ /\ req[r].pc = "project" /\ IsUsable(req[r].row, clock)
       /\ project[ProjectOf[req[r].cred]] = "active"
       => req[r].sound
    /\ req[r].pc = "decide" /\ IsUsable(req[r].row, clock) => req[r].sound
    /\ req[r].pc \in {"touch", "accepted"} => req[r].sound

\* Fresh ids: no two requests insert one project or one credential.
FreshIds ==
    \A q, r \in Reqs : q # r =>
        /\ req[q].pc = "create" /\ req[r].pc = "create" => req[q].project # req[r].project
        /\ req[q].pc = "mint" /\ req[r].pc = "mint" => req[q].cred # req[r].cred

\* The foreign key of a credential.
CredsOwned == \A c \in Creds : cred[c] # NoCred => project[ProjectOf[c]] # "absent"

ProjectsInd ==
    /\ ProjectsTypeOK
    /\ req \in [Reqs -> Requests]
    /\ \A r \in Reqs : OperatorOK(r) /\ AuthOK(r)
    /\ FreshIds
    /\ CredsOwned

-----------------------------------------------------------------------------
(* Init establishes the inductive invariant.                               *)
LEMMA ProjectsInitInd == ProjectsInit => ProjectsInd
<1> SUFFICES ASSUME ProjectsInit PROVE ProjectsInd
  OBVIOUS
<1> USE BoundsAssumption, ProjectOfAssumption, ProjectsNoneAssumption DEF ProjectsInit
<1>1. ProjectsTypeOK
  BY DEF ProjectsTypeOK, NoCred, CredRows, NoReq, ProjectPCs, Times
<1>2. req \in [Reqs -> Requests]
  BY DEF Requests, NoReq, NoCred, CredRows, ProjectPCs, Times
<1>3. \A r \in Reqs : OperatorOK(r) /\ AuthOK(r)
  BY DEF OperatorOK, AuthOK, NoReq
<1>4. FreshIds /\ CredsOwned
  BY DEF FreshIds, CredsOwned, NoReq
<1> QED BY <1>1, <1>2, <1>3, <1>4 DEF ProjectsInd

(* A step that changes one request and no table keeps the invariant when   *)
(* the new state of that request is in order and inserts fresh ids.        *)
LEMMA RequestStep ==
    ASSUME ProjectsInd, NEW r \in Reqs, NEW x \in Requests,
           req' = [req EXCEPT ![r] = x], UNCHANGED <<tables, clock>>,
           OperatorOK(r)', AuthOK(r)',
           \A q \in Reqs \ {r} :
              /\ x.pc = "create" /\ req[q].pc = "create" => req[q].project # x.project
              /\ x.pc = "mint" /\ req[q].pc = "mint" => req[q].cred # x.cred
    PROVE  ProjectsInd'
<1>1. /\ req \in [Reqs -> Requests] /\ req' \in [Reqs -> Requests]
      /\ req'[r] = x
      /\ \A q \in Reqs \ {r} : req'[q] = req[q]
  BY DEF ProjectsInd
<1>2. ProjectsTypeOK'
  BY <1>1 DEF ProjectsInd, ProjectsTypeOK, tables, Requests
<1>3. ASSUME NEW q \in Reqs PROVE (OperatorOK(q) /\ AuthOK(q))'
  <2>1. CASE q = r
    BY <2>1
  <2>2. CASE q # r
    <3>1. req'[q] = req[q] /\ OperatorOK(q) /\ AuthOK(q)
      BY <1>1, <2>2 DEF ProjectsInd
    <3>2. OperatorOK(q)'
      BY <3>1 DEF OperatorOK, tables
    <3>3. AuthOK(q)'
      BY <3>1 DEF AuthOK, tables, IsUsable, IsExpired
    <3> QED BY <3>2, <3>3
  <2> QED BY <2>1, <2>2
<1>4. FreshIds'
  BY <1>1 DEF ProjectsInd, FreshIds
<1>5. CredsOwned'
  BY DEF ProjectsInd, CredsOwned, tables
<1> QED BY <1>1, <1>2, <1>3, <1>4, <1>5 DEF ProjectsInd

LEMMA NoReqIsRequest == NoReq \in Requests
BY BoundsAssumption DEF NoReq, NoCred, Requests, CredRows, ProjectPCs, Times

(* A refusal, a rollback and the answer to an authentication: the request  *)
(* ends and nothing else changes.                                          *)
LEMMA RefuseInd ==
    ASSUME ProjectsInd, NEW r \in Reqs, Refuse(r)
    PROVE  ProjectsInd'
<1>1. req' = [req EXCEPT ![r] = NoReq] /\ UNCHANGED <<tables, clock>>
  BY DEF Refuse, End
<1>2. req'[r] = NoReq
  BY <1>1 DEF ProjectsInd
<1>3. OperatorOK(r)' /\ AuthOK(r)'
  BY <1>2 DEF OperatorOK, AuthOK, NoReq
<1> QED BY <1>1, <1>3, NoReqIsRequest, RequestStep DEF NoReq

-----------------------------------------------------------------------------
(* The steps of an authentication.                                         *)
LEMMA LookupInd ==
    ASSUME ProjectsInd, NEW r \in Reqs, NEW c \in Creds, AuthLookup(r, c)
    PROVE  ProjectsInd'
<1> DEFINE x == [NoReq EXCEPT !.pc = "project", !.cred = c, !.row = cred[c],
                              !.used = used[c], !.sound = Valid(c)]
<1>1. /\ req' = [req EXCEPT ![r] = x] /\ UNCHANGED <<tables, clock>>
      /\ cred[c] # NoCred /\ cred[c] \in CredRows /\ used[c] \in Times \cup {None}
  BY DEF AuthLookup, ProjectsInd, ProjectsTypeOK
<1>2. /\ x.pc = "project" /\ x.cred = c /\ x.row = cred[c] /\ x.sound = Valid(c)
  BY DEF NoReq
<1>3. Valid(c) \in BOOLEAN
  BY DEF Valid
<1>4. x \in Requests
  BY <1>1, <1>3, NoReqIsRequest DEF Requests, NoReq, ProjectPCs
<1>5. req'[r] = x
  BY <1>1 DEF ProjectsInd
<1>6. OperatorOK(r)'
  BY <1>2, <1>5 DEF OperatorOK
<1>7. project[ProjectOf[c]] # "absent"
  BY <1>1 DEF ProjectsInd, CredsOwned
<1>8. IsUsable(cred[c], clock) /\ project[ProjectOf[c]] = "active" => Valid(c)
  <2> SUFFICES ASSUME IsUsable(cred[c], clock), project[ProjectOf[c]] = "active" PROVE Valid(c)
    OBVIOUS
  <2>1. clock \in Nat /\ (cred[c].expires # None => cred[c].expires \in Nat)
    BY <1>1, BoundsAssumption DEF ProjectsInd, ProjectsTypeOK, CredRows, Times
  <2> QED BY <2>1 DEF IsUsable, IsExpired, Valid
<1>9. AuthOK(r)'
  BY <1>1, <1>2, <1>5, <1>7, <1>8 DEF AuthOK, tables, IsUsable, IsExpired
<1> QED BY <1>1, <1>2, <1>4, <1>6, <1>9, RequestStep

LEMMA ReadProjectInd ==
    ASSUME ProjectsInd, NEW r \in Reqs, AuthProject(r)
    PROVE  ProjectsInd'
<1>1. CASE project[ProjectOf[req[r].cred]] = "active" /\ ~Refuse(r)
  <2> DEFINE x == [req[r] EXCEPT !.pc = "decide"]
  <2>1. /\ req' = [req EXCEPT ![r] = x] /\ UNCHANGED <<tables, clock>>
        /\ req[r].pc = "project" /\ req[r] \in Requests
    BY <1>1 DEF AuthProject, ProjectsInd
  <2>2. x \in Requests /\ x.pc = "decide" /\ x.row = req[r].row /\ x.cred = req[r].cred
        /\ x.sound = req[r].sound
    BY <2>1 DEF Requests, ProjectPCs
  <2>3. req'[r] = x
    BY <2>1 DEF ProjectsInd
  <2>4. OperatorOK(r)'
    BY <2>2, <2>3 DEF OperatorOK
  <2>5. AuthOK(r)
    BY DEF ProjectsInd
  <2>6. AuthOK(r)'
    BY <1>1, <2>1, <2>2, <2>3, <2>5 DEF AuthOK, tables, IsUsable, IsExpired
  <2> QED BY <2>1, <2>2, <2>4, <2>6, RequestStep
<1>2. CASE Refuse(r)
  BY <1>2, RefuseInd
<1> QED BY <1>1, <1>2 DEF AuthProject

LEMMA DecideInd ==
    ASSUME ProjectsInd, NEW r \in Reqs, AuthDecide(r)
    PROVE  ProjectsInd'
<1>1. CASE IsUsable(req[r].row, clock) /\ ~Refuse(r)
  <2>1. PICK p \in {"touch", "accepted"} :
           req' = [req EXCEPT ![r] = [req[r] EXCEPT !.pc = p, !.now = clock]]
    BY <1>1 DEF AuthDecide
  <2> DEFINE x == [req[r] EXCEPT !.pc = p, !.now = clock]
  <2>2. /\ UNCHANGED <<tables, clock>> /\ req[r].pc = "decide"
        /\ req[r] \in Requests /\ clock \in Times
    BY <1>1 DEF AuthDecide, ProjectsInd, ProjectsTypeOK
  <2>3. x \in Requests /\ x.pc = p /\ x.cred = req[r].cred /\ x.sound = req[r].sound
    BY <2>2 DEF Requests, ProjectPCs
  <2>4. req'[r] = x
    BY <2>1 DEF ProjectsInd
  <2>5. OperatorOK(r)'
    BY <2>3, <2>4 DEF OperatorOK
  <2>6. AuthOK(r)
    BY DEF ProjectsInd
  <2>7. AuthOK(r)'
    BY <1>1, <2>2, <2>3, <2>4, <2>6 DEF AuthOK
  <2> QED BY <2>1, <2>2, <2>3, <2>5, <2>7, RequestStep
<1>2. CASE Refuse(r)
  BY <1>2, RefuseInd
<1> QED BY <1>1, <1>2 DEF AuthDecide

(* What a step must keep when it changes tables: the parts of the          *)
(* invariant that concern the requests it leaves alone follow.             *)
LEMMA TableStep ==
    ASSUME ProjectsInd, NEW r \in Reqs, End(r), clock' = clock,
           ProjectsTypeOK', CredsOwned',
           \A p \in Projects :
              \/ project'[p] = project[p]
              \/ project[p] = "absent" /\ req[r].pc = "create" /\ req[r].project = p,
           \A c \in Creds :
              \/ cred'[c] = cred[c]
              \/ cred[c] # NoCred
              \/ req[r].pc = "mint" /\ req[r].cred = c
    PROVE  ProjectsInd'
<1>1. /\ req \in [Reqs -> Requests] /\ req' \in [Reqs -> Requests]
      /\ req'[r] = NoReq
      /\ \A q \in Reqs \ {r} : req'[q] = req[q]
  BY NoReqIsRequest DEF ProjectsInd, End
<1>2. ASSUME NEW q \in Reqs PROVE (OperatorOK(q) /\ AuthOK(q))'
  <2>1. CASE q = r
    BY <1>1, <2>1 DEF OperatorOK, AuthOK, NoReq
  <2>2. CASE q # r
    <3>1. req'[q] = req[q] /\ OperatorOK(q) /\ AuthOK(q)
      BY <1>1, <2>2 DEF ProjectsInd
    <3>2. /\ req[q].pc = "create" /\ req[r].pc = "create" => req[q].project # req[r].project
          /\ req[q].pc = "mint" /\ req[r].pc = "mint" => req[q].cred # req[r].cred
      BY <2>2 DEF ProjectsInd, FreshIds
    <3>3. OperatorOK(q)'
      <4>1. req[q].pc = "create" => project'[req[q].project] = "absent"
        BY <3>1, <3>2 DEF OperatorOK
      <4>2. req[q].pc = "mint" => cred'[req[q].cred] = NoCred
        BY <3>1, <3>2 DEF OperatorOK, AuthOK
      <4> QED BY <3>1, <4>1, <4>2 DEF OperatorOK
    <3>4. req[q].pc \in {"mint", "project"}
            => project'[ProjectOf[req[q].cred]] = project[ProjectOf[req[q].cred]]
      BY <3>1, ProjectOfAssumption DEF AuthOK
    <3>5. AuthOK(q)'
      BY <3>1, <3>4 DEF AuthOK, IsUsable, IsExpired
    <3> QED BY <3>3, <3>5
  <2> QED BY <2>1, <2>2
<1>3. FreshIds'
  BY <1>1 DEF ProjectsInd, FreshIds, NoReq
<1> QED BY <1>1, <1>2, <1>3 DEF ProjectsInd

LEMMA CreateProjectInd ==
    ASSUME ProjectsInd, NEW r \in Reqs, CreateProjectCommit(r)
    PROVE  ProjectsInd'
<1>1. CASE ~Refuse(r)
  <2> DEFINE p == req[r].project
             n == req[r].name
  <2>1. /\ req[r].pc = "create" /\ project' = [project EXCEPT ![p] = "active"]
        /\ name' = [name EXCEPT ![p] = n] /\ End(r)
        /\ UNCHANGED <<live, cred, used, clock>>
    BY <1>1 DEF CreateProjectCommit
  <2>2. p \in Projects /\ n \in Names /\ project[p] = "absent" /\ n # None
    BY <2>1, ProjectsNoneAssumption DEF ProjectsInd, OperatorOK
  <2>3. req' \in [Reqs -> Requests]
    BY <2>1, NoReqIsRequest DEF ProjectsInd, End
  <2>4. ProjectsTypeOK'
    BY <2>1, <2>2, <2>3 DEF ProjectsInd, ProjectsTypeOK, Requests
  <2>5. CredsOwned'
    BY <2>1, ProjectOfAssumption DEF ProjectsInd, ProjectsTypeOK, CredsOwned
  <2>6. \A q \in Projects : project'[q] = project[q] \/ q = p
    BY <2>1 DEF ProjectsInd, ProjectsTypeOK
  <2> QED BY <2>1, <2>2, <2>4, <2>5, <2>6, TableStep
<1> QED BY <1>1, RefuseInd DEF CreateProjectCommit

LEMMA RenameInd ==
    ASSUME ProjectsInd, NEW r \in Reqs, RenameCommit(r)
    PROVE  ProjectsInd'
<1>1. CASE ~Refuse(r)
  <2> DEFINE p == req[r].project
             n == req[r].name
  <2>1. /\ req[r].pc = "rename" /\ project[p] = "active"
        /\ name' = [name EXCEPT ![p] = n] /\ End(r)
        /\ UNCHANGED <<live, project, cred, used, clock>>
    BY <1>1 DEF RenameCommit
  <2>2. p \in Projects /\ n \in Names /\ n # None
    BY <2>1, ProjectsNoneAssumption DEF ProjectsInd, OperatorOK
  <2>3. req' \in [Reqs -> Requests]
    BY <2>1, NoReqIsRequest DEF ProjectsInd, End
  <2>4. ProjectsTypeOK'
    BY <2>1, <2>2, <2>3 DEF ProjectsInd, ProjectsTypeOK, Requests
  <2>5. CredsOwned'
    BY <2>1 DEF ProjectsInd, CredsOwned
  <2> QED BY <2>1, <2>4, <2>5, TableStep
<1> QED BY <1>1, RefuseInd DEF RenameCommit

LEMMA MintInd ==
    ASSUME ProjectsInd, NEW r \in Reqs, MintCommit(r)
    PROVE  ProjectsInd'
<1> DEFINE c == req[r].cred
<1>1. /\ req[r].pc = "mint" /\ cred' = [cred EXCEPT ![c] = req[r].row] /\ End(r)
      /\ UNCHANGED <<live, project, name, used, clock>>
  BY DEF MintCommit
<1>2. /\ c \in Creds /\ cred[c] = NoCred /\ project[ProjectOf[c]] # "absent"
      /\ req[r].row \in CredRows /\ req[r].row.state = "minted" /\ req[r].row.by = None
  BY <1>1 DEF ProjectsInd, OperatorOK, AuthOK, Requests
<1>3. req' \in [Reqs -> Requests]
  BY <1>1, NoReqIsRequest DEF ProjectsInd, End
<1>4. ProjectsTypeOK'
  BY <1>1, <1>2, <1>3 DEF ProjectsInd, ProjectsTypeOK, Requests
<1>5. \A d \in Creds : cred'[d] = cred[d] \/ d = c
  BY <1>1 DEF ProjectsInd, ProjectsTypeOK
<1>6. CredsOwned'
  BY <1>1, <1>2, <1>5 DEF ProjectsInd, CredsOwned
<1> QED BY <1>1, <1>4, <1>5, <1>6, TableStep

LEMMA RevokeInd ==
    ASSUME ProjectsInd, NEW r \in Reqs, RevokeCommit(r)
    PROVE  ProjectsInd'
<1>1. CASE ~Refuse(r)
  <2> DEFINE c == req[r].cred
  <2>1. /\ req[r].pc = "revoke" /\ cred[c].state = "minted" /\ End(r)
        /\ cred' = [cred EXCEPT ![c].state = "revoked", ![c].by = req[r].by]
        /\ UNCHANGED <<live, project, name, used, clock>>
    BY <1>1 DEF RevokeCommit
  <2>2. /\ c \in Creds /\ req[r].by \in Operators /\ cred[c] \in CredRows
        /\ req[r].by # None /\ cred[c] # NoCred
    BY <2>1, ProjectsNoneAssumption
    DEF ProjectsInd, ProjectsTypeOK, OperatorOK, AuthOK, NoCred
  <2>3. req' \in [Reqs -> Requests]
    BY <2>1, NoReqIsRequest DEF ProjectsInd, End
  <2>4. /\ \A d \in Creds : d # c => cred'[d] = cred[d]
        /\ cred'[c] = [cred[c] EXCEPT !.state = "revoked", !.by = req[r].by]
    BY <2>1, <2>2 DEF ProjectsInd, ProjectsTypeOK
  <2>5. /\ cred'[c] \in CredRows /\ cred'[c].state = "revoked" /\ cred'[c].by # None
        /\ cred' \in [Creds -> CredRows]
    BY <2>1, <2>2, <2>4 DEF CredRows, ProjectsInd, ProjectsTypeOK
  <2>6. ProjectsTypeOK'
    BY <2>1, <2>3, <2>4, <2>5 DEF ProjectsInd, ProjectsTypeOK, Requests
  <2>7. CredsOwned'
    BY <2>1, <2>2, <2>4 DEF ProjectsInd, CredsOwned
  <2> QED BY <2>1, <2>2, <2>4, <2>6, <2>7, TableStep
<1> QED BY <1>1, RefuseInd DEF RevokeCommit

LEMMA TouchInd ==
    ASSUME ProjectsInd, NEW r \in Reqs, AuthTouch(r)
    PROVE  ProjectsInd'
<1>1. /\ req[r].pc = "touch" /\ UNCHANGED <<live, project, name, cred, clock>>
      /\ req' = [req EXCEPT ![r].pc = "accepted"]
      /\ used' = [used EXCEPT ![req[r].cred] = req[r].now] \/ used' = used
  BY DEF AuthTouch
<1>2. req[r] \in Requests /\ req[r].now \in Times /\ req[r].cred \in Creds
      /\ req[r].sound
  BY <1>1 DEF ProjectsInd, Requests, AuthOK
<1>3. /\ req' \in [Reqs -> Requests]
      /\ req'[r] = [req[r] EXCEPT !.pc = "accepted"]
      /\ \A q \in Reqs \ {r} : req'[q] = req[q]
  BY <1>1, <1>2 DEF ProjectsInd, Requests, ProjectPCs
<1>4. ProjectsTypeOK'
  BY <1>1, <1>2, <1>3 DEF ProjectsInd, ProjectsTypeOK, Requests
<1>5. ASSUME NEW q \in Reqs PROVE (OperatorOK(q) /\ AuthOK(q))'
  <2>1. CASE q = r
    <3>1. req'[q].pc = "accepted" /\ req'[q].cred \in Creds /\ req'[q].sound
      BY <1>2, <1>3, <2>1 DEF Requests
    <3> QED BY <3>1 DEF OperatorOK, AuthOK
  <2>2. CASE q # r
    BY <1>1, <1>3, <2>2 DEF ProjectsInd, OperatorOK, AuthOK, IsUsable, IsExpired
  <2> QED BY <2>1, <2>2
<1>6. FreshIds'
  BY <1>2, <1>3 DEF ProjectsInd, FreshIds, Requests
<1>7. CredsOwned'
  BY <1>1 DEF ProjectsInd, CredsOwned
<1> QED BY <1>3, <1>4, <1>5, <1>6, <1>7 DEF ProjectsInd

-----------------------------------------------------------------------------
(* The first halves of the operators' requests.                            *)
LEMMA BeginsInd ==
    ASSUME ProjectsInd, NEW r \in Reqs,
           \/ \E p \in Projects, n \in Names : CreateProjectBegin(r, p, n) \/ RenameBegin(r, p, n)
           \/ \E c \in Creds, e \in Times \cup {None} : MintBegin(r, c, e)
           \/ \E c \in Creds, o \in Operators : RevokeBegin(r, c, o)
    PROVE  ProjectsInd'
<1> USE NoReqIsRequest
<1>1. ASSUME NEW p \in Projects, NEW n \in Names, CreateProjectBegin(r, p, n)
      PROVE  ProjectsInd'
  <2> DEFINE x == [NoReq EXCEPT !.pc = "create", !.project = p, !.name = n]
  <2>1. req' = [req EXCEPT ![r] = x] /\ UNCHANGED <<tables, clock>> /\ project[p] = "absent"
        /\ \A q \in Reqs : req[q].pc = "create" => req[q].project # p
    BY <1>1 DEF CreateProjectBegin
  <2>2. x \in Requests /\ x.pc = "create" /\ x.project = p /\ x.name = n /\ req'[r] = x
    BY <2>1 DEF Requests, NoReq, ProjectPCs, ProjectsInd
  <2>3. OperatorOK(r)' /\ AuthOK(r)'
    BY <2>1, <2>2 DEF OperatorOK, AuthOK, tables
  <2> HIDE DEF x
  <2> QED BY <2>1, <2>2, <2>3, RequestStep
<1>2. ASSUME NEW p \in Projects, NEW n \in Names, RenameBegin(r, p, n)
      PROVE  ProjectsInd'
  <2> DEFINE x == [NoReq EXCEPT !.pc = "rename", !.project = p, !.name = n]
  <2>1. req' = [req EXCEPT ![r] = x] /\ UNCHANGED <<tables, clock>>
    BY <1>2 DEF RenameBegin
  <2>2. x \in Requests /\ x.pc = "rename" /\ x.project = p /\ x.name = n /\ req'[r] = x
    BY <2>1 DEF Requests, NoReq, ProjectPCs, ProjectsInd
  <2>3. OperatorOK(r)' /\ AuthOK(r)'
    BY <2>1, <2>2 DEF OperatorOK, AuthOK, tables
  <2> QED BY <2>1, <2>2, <2>3, RequestStep
<1>3. ASSUME NEW c \in Creds, NEW e \in Times \cup {None}, MintBegin(r, c, e)
      PROVE  ProjectsInd'
  <2> DEFINE row == [NoCred EXCEPT !.state = "minted", !.expires = e]
             x == [NoReq EXCEPT !.pc = "mint", !.cred = c, !.row = row]
  <2>1. /\ req' = [req EXCEPT ![r] = x] /\ UNCHANGED <<tables, clock>>
        /\ cred[c] = NoCred /\ project[ProjectOf[c]] = "active"
        /\ \A q \in Reqs : req[q].pc = "mint" => req[q].cred # c
    BY <1>3 DEF MintBegin
  <2>2. row \in CredRows /\ row.state = "minted" /\ row.by = None
    BY DEF CredRows, NoCred
  <2>3. x \in Requests /\ x.pc = "mint" /\ x.cred = c /\ x.row = row /\ req'[r] = x
    BY <2>1, <2>2 DEF Requests, NoReq, ProjectPCs, ProjectsInd
  <2>4. OperatorOK(r)' /\ AuthOK(r)'
    BY <2>1, <2>2, <2>3 DEF OperatorOK, AuthOK, tables
  <2> HIDE DEF x
  <2> QED BY <2>1, <2>3, <2>4, RequestStep
<1>4. ASSUME NEW c \in Creds, NEW o \in Operators, RevokeBegin(r, c, o)
      PROVE  ProjectsInd'
  <2> DEFINE x == [NoReq EXCEPT !.pc = "revoke", !.cred = c, !.by = o]
  <2>1. req' = [req EXCEPT ![r] = x] /\ UNCHANGED <<tables, clock>>
    BY <1>4 DEF RevokeBegin
  <2>2. x \in Requests /\ x.pc = "revoke" /\ x.cred = c /\ x.by = o /\ req'[r] = x
    BY <2>1 DEF Requests, NoReq, ProjectPCs, ProjectsInd
  <2>3. OperatorOK(r)' /\ AuthOK(r)'
    BY <2>1, <2>2 DEF OperatorOK, AuthOK, tables
  <2> QED BY <2>1, <2>2, <2>3, RequestStep
<1> QED BY <1>1, <1>2, <1>3, <1>4

-----------------------------------------------------------------------------
(* Archiving a project or the workspace, and time: they make conditions    *)
(* false, never true.                                                      *)
LEMMA ArchiveInd ==
    ASSUME ProjectsInd, NEW p \in Projects, ArchiveProject(p)
    PROVE  ProjectsInd'
<1>1. /\ project[p] # "absent" /\ project' = [project EXCEPT ![p] = "archived"]
      /\ UNCHANGED <<live, name, cred, used, clock, req>>
      /\ \A q \in Projects : /\ project'[q] = "absent" <=> project[q] = "absent"
                             /\ project'[q] = "active" => project[q] = "active"
  BY DEF ArchiveProject, ProjectsInd, ProjectsTypeOK
<1>2. ProjectsTypeOK'
  BY <1>1 DEF ProjectsInd, ProjectsTypeOK
<1>3. ASSUME NEW r \in Reqs PROVE (OperatorOK(r) /\ AuthOK(r))'
  <2>1. OperatorOK(r) /\ AuthOK(r)
    BY DEF ProjectsInd
  <2>2. OperatorOK(r)'
    BY <1>1, <2>1 DEF OperatorOK
  <2>3. req[r].pc \in {"mint", "project"} => ProjectOf[req[r].cred] \in Projects
    BY <2>1, ProjectOfAssumption DEF AuthOK
  <2>4. AuthOK(r)'
    BY <1>1, <2>1, <2>3 DEF AuthOK, IsUsable, IsExpired
  <2> QED BY <2>2, <2>4
<1>4. FreshIds' /\ CredsOwned'
  BY <1>1, ProjectOfAssumption DEF ProjectsInd, FreshIds, CredsOwned
<1> QED BY <1>1, <1>2, <1>3, <1>4 DEF ProjectsInd

LEMMA TickInd == ASSUME ProjectsInd, Tick PROVE ProjectsInd'
<1>1. clock \in Nat /\ clock' = clock + 1 /\ clock < MaxTime /\ UNCHANGED <<tables, req>>
  BY BoundsAssumption DEF Tick, ProjectsInd, ProjectsTypeOK, Times
<1>2. ProjectsTypeOK'
  BY <1>1, BoundsAssumption DEF ProjectsInd, ProjectsTypeOK, tables, Times
<1>3. ASSUME NEW row \in CredRows, IsUsable(row, clock') PROVE IsUsable(row, clock)
  BY <1>1, <1>3, BoundsAssumption DEF CredRows, Times, IsUsable, IsExpired
<1>4. ASSUME NEW r \in Reqs PROVE (OperatorOK(r) /\ AuthOK(r))'
  <2>1. OperatorOK(r) /\ AuthOK(r) /\ req[r].row \in CredRows
    BY DEF ProjectsInd, Requests
  <2>2. OperatorOK(r)'
    BY <1>1, <2>1 DEF OperatorOK, tables
  <2>3. AuthOK(r)'
    BY <1>1, <1>3, <2>1 DEF AuthOK, tables
  <2> QED BY <2>2, <2>3
<1>5. FreshIds' /\ CredsOwned'
  BY <1>1 DEF ProjectsInd, FreshIds, CredsOwned, tables
<1> QED BY <1>1, <1>2, <1>4, <1>5 DEF ProjectsInd

(* Every other step keeps the invariant.                                   *)
LEMMA ProjectsNextInd == ProjectsInd /\ [ProjectsNext]_projectVars => ProjectsInd'
<1> SUFFICES ASSUME ProjectsInd, [ProjectsNext]_projectVars PROVE ProjectsInd'
  OBVIOUS
<1>1. ASSUME NEW r \in Reqs, OperatorStep(r) PROVE ProjectsInd'
  BY <1>1, BeginsInd, CreateProjectInd, RenameInd, MintInd, RevokeInd, RefuseInd
  DEF OperatorStep, Abort
<1>2. ASSUME NEW r \in Reqs, AuthStep(r) PROVE ProjectsInd'
  BY <1>2, LookupInd, ReadProjectInd, DecideInd, TouchInd, RefuseInd DEF AuthStep, Answer
<1>3. ASSUME ArchiveWorkspace PROVE ProjectsInd'
  BY <1>3 DEF ArchiveWorkspace, ProjectsInd, ProjectsTypeOK, OperatorOK, AuthOK, FreshIds,
              CredsOwned, IsUsable, IsExpired
<1>4. ASSUME UNCHANGED projectVars PROVE ProjectsInd'
  BY <1>4 DEF projectVars, ProjectsInd, ProjectsTypeOK, OperatorOK, AuthOK, FreshIds,
              CredsOwned, IsUsable, IsExpired
<1> QED BY <1>1, <1>2, <1>3, <1>4, ArchiveInd, TickInd DEF ProjectsNext

LEMMA ProjectsInvariance == ProjectsSpec => []ProjectsInd
<1> QED BY ProjectsInitInd, ProjectsNextInd, PTL DEF ProjectsSpec

-----------------------------------------------------------------------------
(* Every variable of the projects handlers keeps its type.                 *)
THEOREM ProjectsTypeCorrect == ProjectsSpec => []ProjectsTypeOK
<1>1. ProjectsInd => ProjectsTypeOK
  BY DEF ProjectsInd
<1> QED BY <1>1, ProjectsInvariance, PTL

(* An accepted credential was valid at one instant of its request, however *)
(* many operators mint, revoke and archive meanwhile (FindByKeyPrefix,     *)
(* AuthenticateCredential).                                                *)
THEOREM AcceptedSound == ProjectsSpec => []AcceptedAtOneInstant
<1>1. ProjectsInd => AcceptedAtOneInstant
  BY DEF ProjectsInd, AuthOK, AcceptedAtOneInstant
<1> QED BY <1>1, ProjectsInvariance, PTL

(* A revocation, once committed, is never rewritten: RevokeCredential asks *)
(* for revoked_at IS NULL, and a creation never meets an existing id.      *)
THEOREM RevocationFinal == ProjectsSpec => RevocationIsFinal
<1>1. ASSUME ProjectsInd, ProjectsNext PROVE RevokedStep
  <2> SUFFICES ASSUME NEW c \in Creds, cred[c].state = "revoked", cred'[c] # cred[c] PROVE FALSE
    BY DEF RevokedStep
  <2>1. PICK r \in Reqs : MintCommit(r) \/ RevokeCommit(r)
    BY <1>1 DEF ProjectsNext, OperatorStep, AuthStep, Abort, Answer, Refuse, tables, Tick,
                CreateProjectBegin, CreateProjectCommit, RenameBegin, RenameCommit, MintBegin,
                RevokeBegin, AuthLookup, AuthProject, AuthDecide, AuthTouch, ArchiveProject,
                ArchiveWorkspace
  <2>2. CASE MintCommit(r)
    <3>1. cred[req[r].cred] = NoCred /\ cred' = [cred EXCEPT ![req[r].cred] = req[r].row]
      BY <1>1, <2>2 DEF MintCommit, ProjectsInd, OperatorOK
    <3> QED BY <1>1, <3>1 DEF ProjectsInd, ProjectsTypeOK, NoCred
  <2>3. CASE RevokeCommit(r)
    BY <1>1, <2>3 DEF RevokeCommit, Refuse, tables, ProjectsInd, ProjectsTypeOK
  <2> QED BY <2>1, <2>2, <2>3
<1>2. UNCHANGED projectVars => RevokedStep
  BY DEF projectVars, RevokedStep
<1>3. ProjectsInd /\ [ProjectsNext]_projectVars => [RevokedStep]_projectVars
  BY <1>1
<1> QED BY <1>3, ProjectsInvariance, PTL DEF ProjectsSpec, RevocationIsFinal

(* Creates and renames that race never leave two projects with one name:   *)
(* each commit meets the unique index (projects_workspace_name_key).       *)
THEOREM NamesUnique == ProjectsSpec => []NamesAreUnique
<1>1. ProjectsInit => NamesAreUnique
  BY DEF ProjectsInit, NamesAreUnique
<1>2. ASSUME ProjectsInd, NamesAreUnique, [ProjectsNext]_projectVars PROVE NamesAreUnique'
  <2>1. CASE name' = name
    BY <1>2, <2>1 DEF NamesAreUnique
  <2>2. CASE name' # name
    <3>1. PICK r \in Reqs : CreateProjectCommit(r) \/ RenameCommit(r)
      BY <1>2, <2>2 DEF projectVars, ProjectsNext, OperatorStep, AuthStep, Abort, Answer, Refuse,
                  tables, Tick, CreateProjectBegin, RenameBegin, MintBegin, MintCommit,
                  RevokeBegin, RevokeCommit, AuthLookup, AuthProject, AuthDecide, AuthTouch,
                  ArchiveProject, ArchiveWorkspace
    <3>2. /\ NameFree(req[r].project, req[r].name)
          /\ name' = [name EXCEPT ![req[r].project] = req[r].name]
      BY <2>2, <3>1 DEF CreateProjectCommit, RenameCommit, Refuse, tables
    <3>3. req[r].project \in Projects /\ name \in [Projects -> Names \cup {None}]
      BY <1>2, <3>1 DEF ProjectsInd, ProjectsTypeOK, OperatorOK, CreateProjectCommit, RenameCommit
    <3> QED BY <1>2, <3>2, <3>3 DEF NamesAreUnique, NameFree
  <2> QED BY <2>1, <2>2
<1> QED BY <1>1, <1>2, ProjectsInvariance, PTL DEF ProjectsSpec
=============================================================================
