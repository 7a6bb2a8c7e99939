---------------------------- MODULE GatewayProofs ----------------------------
(***************************************************************************)
(* Proofs about Gateway, for every set of requests, addresses, workspaces  *)
(* and credentials and every setting of the limits GatewayAssumption       *)
(* allows.                                                                 *)
(*                                                                         *)
(* The inductive invariant is what a request carries at each stage         *)
(* (RequestOK), what stands behind a mutation that changed no row          *)
(* (Repeats) and, for the limit at the edge, the account of every address: *)
(* what it was charged for good, what is in flight and what is due to its  *)
(* bucket never exceed one burst and the refill since.                     *)
(***************************************************************************)
EXTENDS Gateway, FiniteSetTheorems, TLAPS

EdgeProofs == INSTANCE RateLimiterProofs WITH
                  bucket <- edge, Keys <- Addresses, Rate <- EdgeRate, Burst <- EdgeBurst

PerIPProofs == INSTANCE RateLimiterProofs WITH
                  bucket <- console, Keys <- Addresses, Rate <- EdgeRate, Burst <- EdgeBurst

PerCredentialProofs == INSTANCE RateLimiterProofs WITH
                  bucket <- machine, Keys <- Credentials, Rate <- CredentialRate,
                  Burst <- CredentialBurst

\* What TokenBucket sees of the edge.
Level == [a \in Addresses |-> Edge!Worth(edge[a])]

\* What the account of an address may still count on.
Due(a) == EdgeProofs!Due(edge[a], elapsed)

LEMMA Settings ==
    ASSUME GatewayAssumption
    PROVE  /\ EdgeProofs!RateAssumption /\ PerIPProofs!RateAssumption
           /\ PerCredentialProofs!RateAssumption
  BY DEF GatewayAssumption, EdgeProofs!RateAssumption, PerIPProofs!RateAssumption,
         PerCredentialProofs!RateAssumption

-----------------------------------------------------------------------------
(* The three limiters are instances of the one RateLimiterProofs is about.  *)

LEMMA EdgeTokens ==
    ASSUME NEW b, NEW late
    PROVE  Edge!Tokens(b, late) = EdgeProofs!Tokens(b, late)
  BY DEF Edge!Tokens, EdgeProofs!Tokens, Edge!AtMostBurst, EdgeProofs!AtMostBurst

LEMMA EdgeWorth ==
    ASSUME NEW b PROVE Edge!Worth(b) = EdgeProofs!Worth(b)
  BY DEF Edge!Worth, EdgeProofs!Worth, Edge!Earned, EdgeProofs!Earned, Edge!Full,
         EdgeProofs!Full

LEMMA EdgeType ==
    /\ Edge!LimiterTypeOK <=> EdgeProofs!LimiterTypeOK
    /\ Edge!LimiterTypeOK' <=> EdgeProofs!LimiterTypeOK'
  BY DEF Edge!LimiterTypeOK, EdgeProofs!LimiterTypeOK, Edge!Buckets, EdgeProofs!Buckets,
         Edge!Earned, EdgeProofs!Earned, Edge!Forgotten, EdgeProofs!Forgotten

LEMMA EdgeLevel ==
    Level = EdgeProofs!Level /\ Level' = EdgeProofs!Level'
  BY EdgeWorth DEF Level, EdgeProofs!Level

\* What may be left of a level, and what a full bucket holds, seen from here.
LEMMA EdgeBounds ==
    /\ \A n : Edge!Metered!Left(n) = EdgeProofs!Metered!Left(n)
    /\ \A n : Edge!Metered!AtMostFull(n) = EdgeProofs!Metered!AtMostFull(n)
  BY DEF Edge!Metered!Left, EdgeProofs!Metered!Left, Edge!Metered!AtMostFull,
         EdgeProofs!Metered!AtMostFull

LEMMA DueType ==
    ASSUME GatewayAssumption, Edge!LimiterTypeOK, elapsed \in Nat, NEW a \in Addresses
    PROVE  Due(a) \in Nat
<1>1. edge[a] \in EdgeProofs!Buckets
  BY EdgeType DEF EdgeProofs!LimiterTypeOK
<1> QED BY <1>1, Settings, EdgeProofs!DueIsNat DEF Due

LEMMA DueTypeNext ==
    ASSUME GatewayAssumption, Edge!LimiterTypeOK', elapsed' \in Nat, NEW a \in Addresses
    PROVE  Due(a)' \in Nat
<1>1. edge'[a] \in EdgeProofs!Buckets
  BY EdgeType DEF EdgeProofs!LimiterTypeOK
<1>2. EdgeProofs!Due(edge'[a], elapsed') \in Nat
  BY <1>1, Settings, EdgeProofs!DueIsNat
<1> QED BY <1>2 DEF Due, EdgeProofs!Due, EdgeProofs!Earned

\* A request takes a token from its address, if there is one.
LEMMA EdgeAllow ==
    ASSUME GatewayAssumption, Edge!LimiterTypeOK, NEW a \in Addresses, elapsed \in Nat,
           NEW late \in Lateness, Edge!Allow(a, late), UNCHANGED elapsed
    PROVE  /\ Edge!LimiterTypeOK'
           /\ Edge!Allowed(a, late) => Edge!Metered!Admit(a)
           /\ ~Edge!Allowed(a, late) => Level' = Level
           /\ \A b \in Addresses :
                Due(b)' <= Due(b) - (IF b = a /\ Edge!Allowed(a, late) THEN 1 ELSE 0)
<1>1. /\ EdgeProofs!RateAssumption /\ EdgeProofs!LimiterTypeOK /\ EdgeProofs!Allow(a, late)
      /\ late \in 0 .. MaxWait /\ late <= elapsed
  BY Settings, EdgeType, EdgeTokens
  DEF Edge!Allow, EdgeProofs!Allow, Edge!Allowed, EdgeProofs!Allowed, Lateness
<1>2. /\ EdgeProofs!LimiterTypeOK'
      /\ EdgeProofs!Allowed(a, late) => EdgeProofs!Metered!Admit(a)
      /\ ~EdgeProofs!Allowed(a, late) => EdgeProofs!Level' = EdgeProofs!Level
      /\ \A b \in Addresses, since \in Nat : late <= since =>
           EdgeProofs!Due(edge'[b], since)
             <= EdgeProofs!Due(edge[b], since)
                  - (IF b = a /\ EdgeProofs!Allowed(a, late) THEN 1 ELSE 0)
  BY <1>1, EdgeProofs!AllowStep
<1>3. EdgeProofs!Metered!Admit(a) => Edge!Metered!Admit(a)
  BY EdgeWorth, EdgeBounds DEF EdgeProofs!Metered!Admit, Edge!Metered!Admit
<1>4. Edge!Allowed(a, late) <=> EdgeProofs!Allowed(a, late)
  BY EdgeTokens DEF Edge!Allowed, EdgeProofs!Allowed
<1>5. \A b \in Addresses : Due(b)' = EdgeProofs!Due(edge'[b], elapsed)
  BY DEF Due, EdgeProofs!Due, EdgeProofs!Earned
<1> QED BY <1>1, <1>2, <1>3, <1>4, <1>5, EdgeType, EdgeLevel DEF Due

\* A refund gives its address a token at most.
LEMMA EdgeRefund ==
    ASSUME GatewayAssumption, Edge!LimiterTypeOK, NEW a \in Addresses, elapsed \in Nat,
           Edge!Refund(a), UNCHANGED elapsed
    PROVE  /\ Edge!LimiterTypeOK' /\ Edge!Metered!Credit(a)
           /\ \A b \in Addresses : Due(b)' <= Due(b) + (IF b = a THEN 1 ELSE 0)
<1>1. EdgeProofs!RateAssumption /\ EdgeProofs!LimiterTypeOK /\ EdgeProofs!Refund(a)
  BY Settings, EdgeType
  DEF Edge!Refund, EdgeProofs!Refund, Edge!AtMostBurst, EdgeProofs!AtMostBurst
<1>2. /\ EdgeProofs!LimiterTypeOK' /\ EdgeProofs!Metered!Credit(a)
      /\ \A b \in Addresses, since \in Nat :
           EdgeProofs!Due(edge'[b], since)
             <= EdgeProofs!Due(edge[b], since) + (IF b = a THEN 1 ELSE 0)
  BY <1>1, EdgeProofs!RefundStep
<1>3. EdgeProofs!Metered!Credit(a) => Edge!Metered!Credit(a)
  BY EdgeWorth, EdgeBounds DEF EdgeProofs!Metered!Credit, Edge!Metered!Credit
<1>4. \A b \in Addresses : Due(b)' = EdgeProofs!Due(edge'[b], elapsed)
  BY DEF Due, EdgeProofs!Due, EdgeProofs!Earned
<1> QED BY <1>2, <1>3, <1>4, EdgeType DEF Due

\* A sweep gives no address anything.
LEMMA EdgeSweep ==
    ASSUME GatewayAssumption, Edge!LimiterTypeOK, elapsed \in Nat, UNCHANGED elapsed,
           NEW late \in 0 .. MaxWait, Edge!Sweep(late)
    PROVE  /\ Edge!LimiterTypeOK' /\ Level' = Level
           /\ \A b \in Addresses : Due(b)' <= Due(b)
<1>1. EdgeProofs!RateAssumption /\ EdgeProofs!LimiterTypeOK /\ EdgeProofs!Sweep(late)
  BY Settings, EdgeType DEF Edge!Sweep, EdgeProofs!Sweep, Edge!Missing, EdgeProofs!Missing
<1>2. /\ EdgeProofs!LimiterTypeOK' /\ EdgeProofs!Level' = EdgeProofs!Level
      /\ \A b \in Addresses, since \in Nat :
           EdgeProofs!Due(edge'[b], since) <= EdgeProofs!Due(edge[b], since)
  BY <1>1, EdgeProofs!SweepStep
<1>3. \A b \in Addresses : Due(b)' = EdgeProofs!Due(edge'[b], elapsed)
  BY DEF Due, EdgeProofs!Due, EdgeProofs!Earned
<1> QED BY <1>2, <1>3, EdgeType, EdgeLevel DEF Due

\* A tick refills every address.
LEMMA EdgeTick ==
    ASSUME GatewayAssumption, Edge!LimiterTypeOK, elapsed \in Nat, elapsed' = elapsed + 1,
           Edge!LimiterTick
    PROVE  /\ Edge!LimiterTypeOK' /\ Edge!Metered!Refill
           /\ \A b \in Addresses : Due(b)' <= Due(b) + EdgeRate
<1>1. EdgeProofs!RateAssumption /\ EdgeProofs!LimiterTypeOK /\ EdgeProofs!LimiterTick
  BY Settings, EdgeType
  DEF Edge!LimiterTick, EdgeProofs!LimiterTick, Edge!Forgotten, EdgeProofs!Forgotten
<1>2. /\ EdgeProofs!LimiterTypeOK' /\ EdgeProofs!Metered!Refill
      /\ \A b \in Addresses, since \in Nat :
           EdgeProofs!Due(edge'[b], since + 1) <= EdgeProofs!Due(edge[b], since) + EdgeRate
  BY <1>1, EdgeProofs!TickStep
<1>3. EdgeProofs!Metered!Refill => Edge!Metered!Refill
  BY EdgeWorth, EdgeBounds DEF EdgeProofs!Metered!Refill, Edge!Metered!Refill
<1>4. \A b \in Addresses : Due(b)' = EdgeProofs!Due(edge'[b], elapsed + 1)
  BY DEF Due, EdgeProofs!Due, EdgeProofs!Earned
<1> QED BY <1>2, <1>3, <1>4, EdgeType DEF Due

\* The other two limiters stay well typed.
LEMMA PerIPSteps ==
    ASSUME GatewayAssumption, PerIP!LimiterTypeOK,
           \/ \E a \in Addresses, late \in 0 .. MaxWait : PerIP!Allow(a, late)
           \/ \E late \in 0 .. MaxWait : PerIP!Sweep(late)
           \/ PerIP!LimiterTick
    PROVE  PerIP!LimiterTypeOK'
<1> USE Settings DEF PerIP!LimiterTypeOK, PerIPProofs!LimiterTypeOK, PerIP!Buckets,
                     PerIPProofs!Buckets, PerIP!Earned, PerIPProofs!Earned,
                     PerIP!Forgotten, PerIPProofs!Forgotten
<1>1. \A b, late : PerIP!Tokens(b, late) = PerIPProofs!Tokens(b, late)
  BY DEF PerIP!Tokens, PerIPProofs!Tokens, PerIP!AtMostBurst, PerIPProofs!AtMostBurst
<1>2. ASSUME NEW a \in Addresses, NEW late \in 0 .. MaxWait, PerIP!Allow(a, late)
      PROVE  PerIPProofs!Allow(a, late)
  BY <1>1, <1>2 DEF PerIP!Allow, PerIPProofs!Allow, PerIP!Allowed, PerIPProofs!Allowed
<1>3. ASSUME NEW late \in 0 .. MaxWait, PerIP!Sweep(late) PROVE PerIPProofs!Sweep(late)
  BY <1>3 DEF PerIP!Sweep, PerIPProofs!Sweep, PerIP!Missing, PerIPProofs!Missing
<1>4. PerIP!LimiterTick => PerIPProofs!LimiterTick
  BY DEF PerIP!LimiterTick, PerIPProofs!LimiterTick
<1>5. PerIPProofs!LimiterTypeOK
  OBVIOUS
<1>6. PerIPProofs!LimiterTypeOK'
  <2>1. ASSUME NEW a \in Addresses, NEW late \in 0 .. MaxWait, PerIP!Allow(a, late)
        PROVE  PerIPProofs!LimiterTypeOK'
    BY <1>2, <1>5, <2>1, PerIPProofs!AllowStep
  <2>2. ASSUME NEW late \in 0 .. MaxWait, PerIP!Sweep(late) PROVE PerIPProofs!LimiterTypeOK'
    BY <1>3, <1>5, <2>2, PerIPProofs!SweepStep
  <2>3. CASE PerIP!LimiterTick
    BY <1>4, <1>5, <2>3, PerIPProofs!TickStep
  <2> QED BY <2>1, <2>2, <2>3
<1> QED BY <1>6

LEMMA PerCredentialSteps ==
    ASSUME GatewayAssumption, PerCredential!LimiterTypeOK,
           \/ \E c \in Credentials, late \in 0 .. MaxWait : PerCredential!Allow(c, late)
           \/ \E late \in 0 .. MaxWait : PerCredential!Sweep(late)
           \/ PerCredential!LimiterTick
    PROVE  PerCredential!LimiterTypeOK'
<1> USE Settings DEF PerCredential!LimiterTypeOK, PerCredentialProofs!LimiterTypeOK,
                     PerCredential!Buckets, PerCredentialProofs!Buckets,
                     PerCredential!Earned, PerCredentialProofs!Earned,
                     PerCredential!Forgotten, PerCredentialProofs!Forgotten
<1>1. \A b, late : PerCredential!Tokens(b, late) = PerCredentialProofs!Tokens(b, late)
  BY DEF PerCredential!Tokens, PerCredentialProofs!Tokens, PerCredential!AtMostBurst,
         PerCredentialProofs!AtMostBurst
<1>2. ASSUME NEW c \in Credentials, NEW late \in 0 .. MaxWait, PerCredential!Allow(c, late)
      PROVE  PerCredentialProofs!Allow(c, late)
  BY <1>1, <1>2 DEF PerCredential!Allow, PerCredentialProofs!Allow, PerCredential!Allowed,
                    PerCredentialProofs!Allowed
<1>3. ASSUME NEW late \in 0 .. MaxWait, PerCredential!Sweep(late)
      PROVE  PerCredentialProofs!Sweep(late)
  BY <1>3 DEF PerCredential!Sweep, PerCredentialProofs!Sweep, PerCredential!Missing,
              PerCredentialProofs!Missing
<1>4. PerCredential!LimiterTick => PerCredentialProofs!LimiterTick
  BY DEF PerCredential!LimiterTick, PerCredentialProofs!LimiterTick
<1>5. PerCredentialProofs!LimiterTypeOK
  OBVIOUS
<1>6. PerCredentialProofs!LimiterTypeOK'
  <2>1. ASSUME NEW c \in Credentials, NEW late \in 0 .. MaxWait, PerCredential!Allow(c, late)
        PROVE  PerCredentialProofs!LimiterTypeOK'
    BY <1>2, <1>5, <2>1, PerCredentialProofs!AllowStep
  <2>2. ASSUME NEW late \in 0 .. MaxWait, PerCredential!Sweep(late)
        PROVE  PerCredentialProofs!LimiterTypeOK'
    BY <1>3, <1>5, <2>2, PerCredentialProofs!SweepStep
  <2>3. CASE PerCredential!LimiterTick
    BY <1>4, <1>5, <2>3, PerCredentialProofs!TickStep
  <2> QED BY <2>1, <2>2, <2>3
<1> QED BY <1>6

-----------------------------------------------------------------------------
(* The routes: what the steps of a request need of theirs, and that no      *)
(* route a read scope opens changes anything.                               *)

WellFormed(r) ==
    /\ r.ids \subseteq 400 .. 499 /\ r.ok \in 200 .. 299 /\ Len(r.events) \in Nat
    /\ r.seam = "tx" => r.mutates

LEMMA IdentityRoutesWellFormed == \A r \in IdentityRoutes : WellFormed(r)
<1> USE DEF WellFormed, Reader, Writer, WithBody, Guarded, Plain, UserId, RoleName, SessionId,
            InvitationId
<1>1. /\ WellFormed(ListUsers) /\ WellFormed(GetUser) /\ WellFormed(ListUserRoles)
      /\ WellFormed(ListUserSessions) /\ WellFormed(ListSessions) /\ WellFormed(ListRoles)
      /\ WellFormed(GetRole) /\ WellFormed(ListRoleUsers) /\ WellFormed(ListInvitations)
  BY DEF ListUsers, GetUser, ListUserRoles, ListUserSessions, ListSessions, ListRoles, GetRole,
         ListRoleUsers, ListInvitations
<1>2. /\ WellFormed(CreateUser) /\ WellFormed(UpdateUser) /\ WellFormed(DeleteUser)
      /\ WellFormed(AssignRolesToUser) /\ WellFormed(UnassignRoleFromUser)
  BY DEF CreateUser, UpdateUser, DeleteUser, AssignRolesToUser, UnassignRoleFromUser
<1>3. /\ WellFormed(ResetUserPassword) /\ WellFormed(SetUserPassword)
      /\ WellFormed(LogoutUserSessions) /\ WellFormed(DeleteSession)
  BY DEF ResetUserPassword, SetUserPassword, LogoutUserSessions, DeleteSession
<1>4. /\ WellFormed(CreateRole) /\ WellFormed(UpdateRole) /\ WellFormed(DeleteRole)
      /\ WellFormed(CreateInvitation) /\ WellFormed(ResendInvitation)
      /\ WellFormed(DeleteInvitation)
  BY DEF CreateRole, UpdateRole, DeleteRole, CreateInvitation, ResendInvitation, DeleteInvitation
<1> HIDE DEF WellFormed
<1> QED BY <1>1, <1>2, <1>3, <1>4 DEF IdentityRoutes

LEMMA ControlRoutesWellFormed == \A r \in ControlRoutes : WellFormed(r)
<1> USE DEF WellFormed, Stored, Transaction, WithBody, ThenCounts, Plain
<1>1. /\ WellFormed(ListWorkspaces) /\ WellFormed(GetWorkspace) /\ WellFormed(ListConnections)
      /\ WellFormed(GetConnection) /\ WellFormed(ProjectScopes) /\ WellFormed(ListProjects)
      /\ WellFormed(GetProject) /\ WellFormed(ListCredentials) /\ WellFormed(ListAuditEvents)
  BY DEF ListWorkspaces, GetWorkspace, ListConnections, GetConnection, ProjectScopes,
         ListProjects, GetProject, ListCredentials, ListAuditEvents
<1>2. /\ WellFormed(CreateWorkspace) /\ WellFormed(UpdateWorkspace)
      /\ WellFormed(ArchiveWorkspace) /\ WellFormed(CreateConnection)
      /\ WellFormed(UpdateConnection) /\ WellFormed(DeleteConnection)
  BY DEF CreateWorkspace, UpdateWorkspace, ArchiveWorkspace, CreateConnection,
         UpdateConnection, DeleteConnection
<1>3. /\ WellFormed(VerifyConnection) /\ WellFormed(ActivateConnection)
      /\ WellFormed(RetireConnection) /\ WellFormed(CreateProject)
  BY DEF VerifyConnection, ActivateConnection, RetireConnection, CreateProject
<1>4. /\ WellFormed(UpdateProject) /\ WellFormed(ArchiveProject)
      /\ WellFormed(CreateCredential) /\ WellFormed(RevokeCredential)
  BY DEF UpdateProject, ArchiveProject, CreateCredential, RevokeCredential
<1> HIDE DEF WellFormed
<1> QED BY <1>1, <1>2, <1>3, <1>4 DEF ControlRoutes

LEMMA AdminRoutesWellFormed == \A r \in AdminRoutes : WellFormed(r)
<1> USE DEF WellFormed, Console, Setting, WithBody, Dropping, Plain
<1>1. /\ WellFormed(AdminListUsers) /\ WellFormed(AdminGetUser)
      /\ WellFormed(AdminListUserRoles) /\ WellFormed(AdminListUserSessions)
      /\ WellFormed(AdminListRoles) /\ WellFormed(AdminGetRole)
      /\ WellFormed(AdminListRoleUsers) /\ WellFormed(AdminListSessions)
      /\ WellFormed(AdminListInvitations) /\ WellFormed(AdminListEvents)
  BY DEF AdminListUsers, AdminGetUser, AdminListUserRoles, AdminListUserSessions,
         AdminListRoles, AdminGetRole, AdminListRoleUsers, AdminListSessions,
         AdminListInvitations, AdminListEvents
<1>2. /\ WellFormed(AdminCreateRole) /\ WellFormed(AdminCreateInvitation)
      /\ WellFormed(AdminUpdateUser) /\ WellFormed(AdminUpdateRole)
      /\ WellFormed(AdminAssignRoles) /\ WellFormed(AdminResetPassword)
      /\ WellFormed(AdminSetPassword)
  BY DEF AdminCreateRole, AdminCreateInvitation, AdminUpdateUser, AdminUpdateRole,
         AdminAssignRoles, AdminResetPassword, AdminSetPassword
<1>3. /\ WellFormed(AdminResendInvitation) /\ WellFormed(AdminDeleteUser)
      /\ WellFormed(AdminUnassignRole) /\ WellFormed(AdminLogoutUser)
      /\ WellFormed(AdminDeleteRole) /\ WellFormed(AdminDeleteSession)
      /\ WellFormed(AdminDeleteInvitation)
  BY DEF AdminResendInvitation, AdminDeleteUser, AdminUnassignRole, AdminLogoutUser,
         AdminDeleteRole, AdminDeleteSession, AdminDeleteInvitation
<1>4. /\ WellFormed(GetSMTP) /\ WellFormed(UpdateSMTP) /\ WellFormed(TestSMTP)
      /\ WellFormed(CreateUserWithPassword) /\ WellFormed(GetEmailTemplates)
      /\ WellFormed(UpdateEmailTemplate) /\ WellFormed(ResetEmailTemplate)
  BY DEF GetSMTP, UpdateSMTP, TestSMTP, CreateUserWithPassword, GetEmailTemplates,
         UpdateEmailTemplate, ResetEmailTemplate
<1> HIDE DEF WellFormed
<1> QED BY <1>1, <1>2, <1>3, <1>4 DEF AdminRoutes

LEMMA RoutesWellFormed ==
    \A r \in V1Routes \cup AdminRoutes \cup {Plain} : WellFormed(r)
<1>1. WellFormed(Plain)
  BY DEF WellFormed, Plain
<1> QED BY <1>1, IdentityRoutesWellFormed, ControlRoutesWellFormed, AdminRoutesWellFormed
        DEF V1Routes

\* What a read scope opens.
Readable == {"ListUsers", "GetUser", "ListUserRoles", "ListRoles", "GetRole", "ListRoleUsers",
             "ListUserSessions", "ListSessions", "ListInvitations", "ListAuditEvents"}

LEMMA ReadScopesOpenReaders ==
    ASSUME NEW route \in V1Routes, route.mutates, NEW s \in ReadScopes,
           route.name \in ScopeRoutes(s)
    PROVE  FALSE
<1>1. route.name \in Readable
  BY DEF ReadScopes, ScopeRoutes, Readable
<1>2. /\ ~ListUsers.mutates /\ ~GetUser.mutates /\ ~ListUserRoles.mutates
      /\ ~ListUserSessions.mutates /\ ~ListSessions.mutates /\ ~ListRoles.mutates
      /\ ~GetRole.mutates /\ ~ListRoleUsers.mutates /\ ~ListInvitations.mutates
  BY DEF ListUsers, GetUser, ListUserRoles, ListUserSessions, ListSessions, ListRoles, GetRole,
         ListRoleUsers, ListInvitations, Reader, Plain
<1>3. /\ ~ListWorkspaces.mutates /\ ~GetWorkspace.mutates /\ ~ListConnections.mutates
      /\ ~GetConnection.mutates /\ ~ProjectScopes.mutates /\ ~ListProjects.mutates
      /\ ~GetProject.mutates /\ ~ListCredentials.mutates /\ ~ListAuditEvents.mutates
  BY DEF ListWorkspaces, GetWorkspace, ListConnections, GetConnection, ProjectScopes,
         ListProjects, GetProject, ListCredentials, ListAuditEvents, Stored, ThenCounts, Plain
<1>4. /\ CreateUser.name \notin Readable /\ UpdateUser.name \notin Readable
      /\ DeleteUser.name \notin Readable /\ AssignRolesToUser.name \notin Readable
      /\ UnassignRoleFromUser.name \notin Readable
      /\ ResetUserPassword.name \notin Readable /\ SetUserPassword.name \notin Readable
  BY DEF Readable, CreateUser, UpdateUser, DeleteUser, AssignRolesToUser,
     UnassignRoleFromUser, ResetUserPassword, SetUserPassword, Writer, WithBody, Guarded, Plain
<1>5. /\ LogoutUserSessions.name \notin Readable /\ DeleteSession.name \notin Readable
      /\ CreateRole.name \notin Readable /\ UpdateRole.name \notin Readable
      /\ DeleteRole.name \notin Readable /\ CreateInvitation.name \notin Readable
      /\ ResendInvitation.name \notin Readable /\ DeleteInvitation.name \notin Readable
  BY DEF Readable, LogoutUserSessions, DeleteSession, CreateRole, UpdateRole, DeleteRole,
     CreateInvitation, ResendInvitation, DeleteInvitation, Writer, WithBody, Plain
<1>6. /\ CreateWorkspace.name \notin Readable /\ UpdateWorkspace.name \notin Readable
      /\ ArchiveWorkspace.name \notin Readable /\ CreateConnection.name \notin Readable
      /\ UpdateConnection.name \notin Readable /\ DeleteConnection.name \notin Readable
      /\ VerifyConnection.name \notin Readable
  BY DEF Readable, CreateWorkspace, UpdateWorkspace, ArchiveWorkspace, CreateConnection,
     UpdateConnection, DeleteConnection, VerifyConnection, Transaction, WithBody, Plain
<1>7. /\ ActivateConnection.name \notin Readable /\ RetireConnection.name \notin Readable
      /\ CreateProject.name \notin Readable /\ UpdateProject.name \notin Readable
      /\ ArchiveProject.name \notin Readable /\ CreateCredential.name \notin Readable
      /\ RevokeCredential.name \notin Readable
  BY DEF Readable, ActivateConnection, RetireConnection, CreateProject, UpdateProject,
     ArchiveProject, CreateCredential, RevokeCredential, Transaction, WithBody, ThenCounts, Plain
<1>8. CASE route \in IdentityRoutes
  BY <1>1, <1>2, <1>4, <1>5, <1>8 DEF IdentityRoutes
<1>9. CASE route \in ControlRoutes
  BY <1>1, <1>3, <1>6, <1>7, <1>9 DEF ControlRoutes
<1> QED BY <1>8, <1>9 DEF V1Routes

-----------------------------------------------------------------------------
(* What a request carries at each stage.                                    *)

\* What the answer of a mutation of the control plane says of its transaction.
Told(q) ==
    /\ q.code < 300 => q.good = 1
    /\ q.code \in 400 .. 499 => ~q.changed /\ q.good = 0
    /\ q.code >= 500 /\ q.attempt # "lost" /\ ~q.route.after => ~q.changed /\ q.good = 0

RequestOK(q) ==
    /\ q.pc = "idle" => ~q.paid
    /\ q.pc \in {"received", "known"} \cup BeingHandled => q.paid
    /\ q.pc \in {"known"} \cup BeingHandled => q.known
    /\ q.known => q.paid
    /\ q.known /\ q.who \in Credentials => q.route \in V1Routes
    /\ q.pc \notin {"called", "answered"} => q.attempt = "none" /\ ~q.changed /\ q.good = 0
    /\ q.pc \in {"written", "recorded"} => q.route.seam = "tx" /\ q.route.mutates
    /\ q.who \in Credentials /\ q.pc \in BeingHandled =>
          /\ q.ws = Bound[q.who] /\ ~OperatorOnly(q.route)
          /\ HasScope(Granted[q.who], q.route)
    /\ q.changed => q.route.mutates
    /\ q.route.seam = "tx" /\ q.changed => q.good = 1
    /\ q.route.seam = "tx" /\ q.pc \in {"called", "answered"} => Told(q)

\* A transaction that changed no row, or one that committed none, repeats an archive.
Repeats(q, done) ==
    q.route.seam = "tx" /\ (\/ q.pc \in {"written", "recorded"} /\ ~q.fresh
                            \/ q.good > 0 /\ ~q.changed) =>
      /\ q.route.name \in {ArchiveWorkspace.name, ArchiveProject.name}
      /\ <<q.route.name, q.ws>> \in done

ReqInv == \A r \in Reqs : RequestOK(req[r]) /\ Repeats(req[r], archived)

\* What is archived stays archived.
LEMMA RepeatsLast ==
    ASSUME NEW q, NEW done, NEW later, done \subseteq later, Repeats(q, done)
    PROVE  Repeats(q, later)
  BY DEF Repeats

\* A step of a request that stays what it was to the edge.
Moved(r) ==
    /\ archived \subseteq archived'
    /\ \E q \in Requests :
         /\ RequestOK(q) /\ Repeats(q, archived') /\ req' = [req EXCEPT ![r] = q]
         /\ q.paid = req[r].paid /\ q.route = req[r].route /\ q.addr = req[r].addr

LEMMA RequestStep ==
    ASSUME GatewayTypeOK, ReqInv, NEW r \in Reqs, NEW q \in Requests, RequestOK(q),
           archived \subseteq archived', Repeats(q, archived'), req' = [req EXCEPT ![r] = q]
    PROVE  req' \in [Reqs -> Requests] /\ ReqInv'
<1>1. req \in [Reqs -> Requests]
  BY DEF GatewayTypeOK
<1>2. \A p \in Reqs : req'[p] = IF p = r THEN q ELSE req[p]
  BY <1>1
<1>3. \A p \in Reqs : RequestOK(req[p]) /\ Repeats(req[p], archived')
  BY RepeatsLast DEF ReqInv
<1> HIDE DEF RequestOK, Repeats
<1>4. \A p \in Reqs : RequestOK(req'[p]) /\ Repeats(req'[p], archived')
  BY <1>2, <1>3
<1> QED BY <1>1, <1>4 DEF ReqInv

LEMMA MovedStep ==
    ASSUME GatewayTypeOK, ReqInv, NEW r \in Reqs, Moved(r)
    PROVE  /\ req' \in [Reqs -> Requests] /\ ReqInv'
           /\ \A a \in Addresses : Held(a)' = Held(a)
<1>1. PICK q \in Requests :
          /\ RequestOK(q) /\ Repeats(q, archived') /\ req' = [req EXCEPT ![r] = q]
          /\ q.paid = req[r].paid /\ q.route = req[r].route /\ q.addr = req[r].addr
  BY DEF Moved
<1>2. req' \in [Reqs -> Requests] /\ ReqInv'
  BY <1>1, RequestStep DEF Moved
<1>3. \A p \in Reqs : /\ req'[p].paid = req[p].paid /\ req'[p].route = req[p].route
                      /\ req'[p].addr = req[p].addr
  BY <1>1 DEF GatewayTypeOK
<1> QED BY <1>2, <1>3 DEF Held, OnV1

\* A request that is answered before it called anything.
LEMMA AnswerMoves ==
    ASSUME GatewayAssumption, GatewayTypeOK, ReqInv, NEW r \in Reqs, NEW code \in Nat,
           req[r].pc \in {"received", "known", "admitted", "calling"}, Answer(r, code),
           req[r].route.seam # "tx" \/ code >= 400, UNCHANGED domain
    PROVE  Moved(r)
<1> DEFINE q == [req[r] EXCEPT !.pc = "answered", !.code = code]
<1>1. req[r] \in Requests /\ RequestOK(req[r])
  BY DEF GatewayTypeOK, ReqInv
<1>2. q \in Requests
  BY <1>1 DEF Requests
<1>3. ~req[r].changed /\ req[r].good = 0
  BY <1>1 DEF RequestOK
<1>4. RequestOK(q) /\ Repeats(q, archived')
  BY <1>1, <1>3 DEF RequestOK, Requests, BeingHandled, Repeats, Told
<1>5. req' = [req EXCEPT ![r] = q]
  BY DEF Answer
<1> QED BY <1>1, <1>2, <1>4, <1>5 DEF Moved, Requests, domain

LEMMA AuthenticateMoves ==
    ASSUME GatewayAssumption, GatewayTypeOK, ReqInv, NEW r \in Reqs, Authenticate(r)
    PROVE  Moved(r)
<1> DEFINE q == [req[r] EXCEPT !.pc = "known", !.known = TRUE]
<1>1. CASE Answer(r, 401) \/ Answer(r, 503)
  BY <1>1, AnswerMoves DEF Authenticate
<1>2. CASE /\ req[r].who = "operator" \/ (Machine(r) /\ OnV1(r))
           /\ req' = [req EXCEPT ![r].pc = "known", ![r].known = TRUE]
  <2>1. req[r] \in Requests /\ RequestOK(req[r]) /\ req[r].pc = "received"
    BY DEF GatewayTypeOK, ReqInv, Authenticate
  <2>2. q \in Requests
    BY <2>1 DEF Requests
  <2>3. req[r].who \in Credentials => req[r].route \in V1Routes
    BY <1>2 DEF Machine, OnV1, GatewayAssumption
  <2>4. RequestOK(q) /\ Repeats(q, archived')
    BY <2>1, <2>3 DEF RequestOK, Requests, BeingHandled, Repeats
  <2>5. req' = [req EXCEPT ![r] = q]
    BY <1>2
  <2> QED BY <2>1, <2>2, <2>4, <2>5 DEF Moved, Requests, Authenticate, domain
<1> QED BY <1>1, <1>2 DEF Authenticate

\* A caller that has been let in: an operator, or a project within its authority.
LEMMA AdmitMoves ==
    ASSUME GatewayAssumption, GatewayTypeOK, ReqInv, NEW r \in Reqs, UNCHANGED domain,
           req[r].pc = "known", req[r].who = "operator" \/ (Machine(r) /\ ProjectMay(r)),
           req' = Becomes(r, "admitted")
    PROVE  Moved(r)
<1> DEFINE q == [req[r] EXCEPT !.pc = "admitted"]
<1>1. req[r] \in Requests /\ RequestOK(req[r])
  BY DEF GatewayTypeOK, ReqInv
<1>2. q \in Requests
  BY <1>1 DEF Requests
<1>3. req[r].who \in Credentials =>
          /\ req[r].ws = Bound[req[r].who] /\ ~OperatorOnly(req[r].route)
          /\ HasScope(Granted[req[r].who], req[r].route)
  BY DEF ProjectMay, GatewayAssumption
<1>4. RequestOK(q) /\ Repeats(q, archived')
  BY <1>1, <1>3 DEF RequestOK, Requests, BeingHandled, Repeats
<1>5. req' = [req EXCEPT ![r] = q]
  BY DEF Becomes
<1> QED BY <1>1, <1>2, <1>4, <1>5 DEF Moved, Requests, domain

LEMMA PrepareMoves ==
    ASSUME GatewayAssumption, GatewayTypeOK, ReqInv, NEW r \in Reqs, Prepare(r)
    PROVE  Moved(r)
<1> DEFINE q == [req[r] EXCEPT !.pc = "calling"]
<1>1. req[r] \in Requests /\ RequestOK(req[r]) /\ req[r].pc = "admitted" /\ UNCHANGED domain
  BY DEF GatewayTypeOK, ReqInv, Prepare
<1>2. WellFormed(req[r].route)
  BY <1>1, RoutesWellFormed DEF Requests
<1>3. CASE \E code \in Refusals(r) : Answer(r, code)
  <2>1. \A code \in req[r].route.ids : code \in 400 .. 499
    BY <1>2 DEF WellFormed
  <2>2. \A code \in Refusals(r) : code \in {400, 403, 404, 409, 500, 502} \cup 400 .. 499
    BY <2>1 DEF Refusals, Unresolved
  <2>3. \A code \in Refusals(r) : code \in Nat /\ code >= 400
    BY <2>2
  <2> QED BY <1>1, <1>3, <2>3, AnswerMoves
<1>4. CASE req' = Becomes(r, "calling")
  <2>1. q \in Requests
    BY <1>1 DEF Requests
  <2>2. RequestOK(q) /\ Repeats(q, archived')
    BY <1>1 DEF RequestOK, Requests, BeingHandled, Repeats
  <2>3. req' = [req EXCEPT ![r] = q]
    BY <1>4 DEF Becomes
  <2> QED BY <1>1, <2>1, <2>2, <2>3 DEF Moved, Requests, domain
<1>5. CASE req[r].route.seam = "static" /\ Answer(r, req[r].route.ok)
  <2>1. req[r].route.ok \in 200 .. 299
    BY <1>2 DEF WellFormed
  <2>2. PICK code \in Nat : code = req[r].route.ok
    BY <2>1
  <2>3. Answer(r, code) /\ req[r].route.seam # "tx"
    BY <1>5, <2>2
  <2> QED BY <1>1, <2>3, AnswerMoves
<1> QED BY <1>3, <1>4, <1>5 DEF Prepare

\* What a call may be answered with.
LEMMA Answers ==
    ASSUME NEW r \in Reqs, WellFormed(req[r].route)
    PROVE  /\ \A code \in Failures(r) : code \in Nat /\ code >= 400
           /\ \A code \in Succeeded(r) :
                /\ code \in 200 .. 299 \/ (code = 500 /\ req[r].route.after)
                /\ code \in Nat
<1>1. req[r].route.ok \in 200 .. 299
  BY DEF WellFormed
<1>2. \A code \in Failures(r) : code \in Nat /\ code >= 400
  BY DEF Failures
<1> QED BY <1>1, <1>2 DEF Succeeded

LEMMA ReadMoves ==
    ASSUME GatewayAssumption, GatewayTypeOK, ReqInv, NEW r \in Reqs, Read(r)
    PROVE  Moved(r)
<1>1. req[r] \in Requests /\ req[r].pc = "calling" /\ ~req[r].route.mutates /\ UNCHANGED domain
  BY DEF GatewayTypeOK, Read
<1>2. WellFormed(req[r].route)
  BY <1>1, RoutesWellFormed DEF Requests
<1>3. req[r].route.seam # "tx"
  BY <1>1, <1>2 DEF WellFormed
<1>4. PICK code \in Succeeded(r) \cup Failures(r) : Answer(r, code)
  BY DEF Read
<1>5. code \in Nat
  BY <1>2, Answers
<1> QED BY <1>1, <1>3, <1>4, <1>5, AnswerMoves

\* A request whose call has returned.
Called(p, attempt, changed, good, code) ==
    [p EXCEPT !.pc = "called", !.attempt = attempt, !.fresh = FALSE, !.changed = changed,
              !.good = good, !.code = code]

LEMMA CalledTyped ==
    ASSUME NEW p \in Requests, NEW attempt \in {"done", "failed", "unrecorded", "lost"},
           NEW changed \in BOOLEAN, NEW good \in {0, 1}, NEW code \in Nat
    PROVE  Called(p, attempt, changed, good, code) \in Requests
<1>1. PICK p1 : p1 = [p EXCEPT !.pc = "called", !.attempt = attempt]
  OBVIOUS
<1>2. p1 \in Requests
  BY <1>1 DEF Requests
<1>3. PICK p2 : p2 = [p1 EXCEPT !.fresh = FALSE, !.changed = changed]
  OBVIOUS
<1>4. p2 \in Requests
  BY <1>2, <1>3 DEF Requests
<1>5. good \in Nat
  OBVIOUS
<1>6. Called(p, attempt, changed, good, code) = [p2 EXCEPT !.good = good, !.code = code]
  BY <1>1, <1>3 DEF Called
<1> QED BY <1>4, <1>5, <1>6 DEF Requests

\* What a call makes of a request: a change goes with its row, only where it may, and
\* the answer says so.
LEMMA OutcomeMoves ==
    ASSUME GatewayTypeOK, ReqInv, NEW r \in Reqs,
           req[r].pc \in {"calling", "written", "recorded"}, req[r].route.mutates,
           NEW attempt \in {"done", "failed", "unrecorded", "lost"}, NEW changed \in BOOLEAN,
           NEW good \in {0, 1}, NEW codes, \A code \in codes : code \in Nat,
           Outcome(r, attempt, changed, good, codes), archived \subseteq archived',
           req[r].route.seam = "tx" =>
             /\ changed => good = 1
             /\ good = 1 /\ ~changed => Archives(r) /\ Target(r) \in archived'
             /\ good = 0 => \A code \in codes : code >= 400
             /\ good = 1 /\ attempt # "lost" => \A code \in codes :
                  code \in 200 .. 299 \/ (code = 500 /\ req[r].route.after)
             /\ attempt = "lost" => codes = {500}
    PROVE  Moved(r)
<1>1. req[r] \in Requests /\ RequestOK(req[r])
  BY DEF GatewayTypeOK, ReqInv
<1>2. PICK code \in codes :
      req' = [req EXCEPT ![r] = [@ EXCEPT !.pc = "called", !.attempt = attempt, !.fresh = FALSE,
                                          !.changed = changed, !.good = good, !.code = code]]
  BY DEF Outcome
<1> DEFINE q == [req[r] EXCEPT !.pc = "called", !.attempt = attempt, !.fresh = FALSE,
                               !.changed = changed, !.good = good, !.code = code]
<1> code \in Nat
  BY <1>2
<1>3. q \in Requests
  <2>1. q = Called(req[r], attempt, changed, good, code)
    BY DEF Called
  <2> HIDE DEF q
  <2> QED BY <1>1, <2>1, CalledTyped
<1>4. req[r].route.seam = "tx" => Told(q)
  BY <1>1 DEF Told, Requests
<1>5. RequestOK(q)
  BY <1>1, <1>4 DEF RequestOK, Requests, BeingHandled
<1>6. Repeats(q, archived')
  BY <1>1 DEF Repeats, Requests, Archives, Target
<1>7. req' = [req EXCEPT ![r] = q]
  BY <1>2
<1>8. q.paid = req[r].paid /\ q.route = req[r].route /\ q.addr = req[r].addr
  BY <1>1 DEF Requests
<1> HIDE DEF q
<1> QED BY <1>3, <1>5, <1>6, <1>7, <1>8 DEF Moved

LEMMA ProviderMoves ==
    ASSUME GatewayAssumption, GatewayTypeOK, ReqInv, NEW r \in Reqs, CallProvider(r)
    PROVE  Moved(r)
<1>1. /\ req[r] \in Requests /\ req[r].pc = "calling" /\ UNCHANGED domain
      /\ req[r].route.mutates /\ req[r].route.seam # "tx"
  BY DEF GatewayTypeOK, CallProvider
<1>2. WellFormed(req[r].route)
  BY <1>1, RoutesWellFormed DEF Requests
<1>3. /\ \A code \in Succeeded(r) : code \in Nat
      /\ \A code \in Failures(r) : code \in Nat
  BY <1>2, Answers
<1>4. PICK changed \in BOOLEAN : \/ Outcome(r, "done", changed, 0, Succeeded(r))
                                 \/ Outcome(r, "failed", changed, 0, Failures(r))
  BY DEF CallProvider
<1> QED BY <1>1, <1>3, <1>4, OutcomeMoves DEF domain

LEMMA WriteMoves ==
    ASSUME GatewayAssumption, GatewayTypeOK, ReqInv, NEW r \in Reqs, TxWrite(r)
    PROVE  Moved(r)
<1>1. /\ req[r] \in Requests /\ RequestOK(req[r]) /\ req[r].pc = "calling"
      /\ UNCHANGED domain /\ req[r].route.seam = "tx"
  BY DEF GatewayTypeOK, ReqInv, TxWrite
<1>2. WellFormed(req[r].route) /\ req[r].route.mutates
  <2>1. WellFormed(req[r].route)
    BY <1>1, RoutesWellFormed DEF Requests
  <2> QED BY <1>1, <2>1 DEF WellFormed
<1>3. CASE Outcome(r, "failed", FALSE, 0, Failures(r))
  <2>1. PICK no \in BOOLEAN : ~no /\ Outcome(r, "failed", no, 0, Failures(r))
    BY <1>3, Zenon
  <2> QED BY <1>1, <1>2, <2>1, Answers, OutcomeMoves DEF domain
<1>4. ASSUME NEW fresh \in BOOLEAN, fresh <=> ~(Archives(r) /\ Target(r) \in archived),
             req' = [req EXCEPT ![r].pc = "written", ![r].fresh = fresh]
      PROVE  Moved(r)
  <2> DEFINE q == [req[r] EXCEPT !.pc = "written", !.fresh = fresh]
  <2>1. q \in Requests
    BY <1>1 DEF Requests
  <2>2. RequestOK(q)
    BY <1>1, <1>2 DEF RequestOK, Requests, BeingHandled
  <2>3. Repeats(q, archived')
    BY <1>1, <1>4 DEF RequestOK, Requests, Repeats, Archives, Target, domain
  <2>4. req' = [req EXCEPT ![r] = q]
    BY <1>4
  <2> QED BY <1>1, <2>1, <2>2, <2>3, <2>4 DEF Moved, Requests, domain
<1>5. CASE req' = [req EXCEPT ![r].pc = "written",
                              ![r].fresh = ~(Archives(r) /\ Target(r) \in archived)]
  <2>1. CASE Archives(r) /\ Target(r) \in archived
    <3>1. req' = [req EXCEPT ![r].pc = "written", ![r].fresh = FALSE]
      BY <1>5, <2>1, Zenon
    <3> QED BY <1>4, <2>1, <3>1
  <2>2. CASE ~(Archives(r) /\ Target(r) \in archived)
    <3>1. (~(Archives(r) /\ Target(r) \in archived)) = TRUE
      BY <2>2
    <3>2. req' = [req EXCEPT ![r].pc = "written", ![r].fresh = TRUE]
      BY <1>5, <3>1, Zenon
    <3> QED BY <1>4, <2>2, <3>2
  <2> QED BY <2>1, <2>2
<1> QED BY <1>3, <1>5 DEF TxWrite

LEMMA RecordMoves ==
    ASSUME GatewayAssumption, GatewayTypeOK, ReqInv, NEW r \in Reqs, TxRecord(r)
    PROVE  Moved(r)
<1>1. /\ req[r] \in Requests /\ RequestOK(req[r]) /\ Repeats(req[r], archived)
      /\ req[r].pc = "written" /\ UNCHANGED domain
  BY DEF GatewayTypeOK, ReqInv, TxRecord
<1>2. req[r].route.mutates /\ req[r].route.seam = "tx"
  BY <1>1 DEF RequestOK
<1>3. CASE Outcome(r, "unrecorded", FALSE, 0, {500})
  <2>1. PICK no \in BOOLEAN : ~no /\ Outcome(r, "unrecorded", no, 0, {500})
    BY <1>3, Zenon
  <2> QED BY <1>1, <1>2, <2>1, OutcomeMoves DEF domain
<1>4. CASE req' = Becomes(r, "recorded")
  <2> DEFINE q == [req[r] EXCEPT !.pc = "recorded"]
  <2>1. q \in Requests
    BY <1>1 DEF Requests
  <2>2. RequestOK(q)
    BY <1>1, <1>2 DEF RequestOK, Requests, BeingHandled
  <2>3. Repeats(q, archived')
    BY <1>1 DEF Requests, Repeats, domain
  <2>4. req' = [req EXCEPT ![r] = q]
    BY <1>4 DEF Becomes
  <2> QED BY <1>1, <2>1, <2>2, <2>3, <2>4 DEF Moved, Requests, domain
<1> QED BY <1>3, <1>4 DEF TxRecord

LEMMA CommitMoves ==
    ASSUME GatewayAssumption, GatewayTypeOK, ReqInv, NEW r \in Reqs, TxCommit(r)
    PROVE  Moved(r)
<1>1. /\ req[r] \in Requests /\ RequestOK(req[r]) /\ Repeats(req[r], archived)
      /\ req[r].pc = "recorded"
  BY DEF GatewayTypeOK, ReqInv, TxCommit
<1>2. req[r].route.mutates /\ req[r].route.seam = "tx" /\ req[r].fresh \in BOOLEAN
  BY <1>1 DEF RequestOK, Requests
<1>3. ~req[r].fresh => Archives(r) /\ Target(r) \in archived
  BY <1>1, <1>2 DEF Repeats, Archives, Target
<1>4. WellFormed(req[r].route)
  BY <1>1, RoutesWellFormed DEF Requests
<1>5. archived \subseteq archived'
  BY DEF TxCommit, Committed, domain
<1>6. CASE Outcome(r, "done", req[r].fresh, 1, Succeeded(r))
  BY <1>1, <1>2, <1>3, <1>4, <1>5, <1>6, Answers, OutcomeMoves
<1>7. CASE Outcome(r, "lost", req[r].fresh, 1, {500})
  BY <1>1, <1>2, <1>3, <1>5, <1>7, OutcomeMoves
<1>8. CASE Outcome(r, "lost", FALSE, 0, {500})
  <2>1. PICK no \in BOOLEAN : ~no /\ Outcome(r, "lost", no, 0, {500})
    BY <1>8, Zenon
  <2> QED BY <1>1, <1>2, <1>5, <2>1, OutcomeMoves
<1> QED BY <1>6, <1>7, <1>8 DEF TxCommit

LEMMA EmitMoves ==
    ASSUME GatewayAssumption, GatewayTypeOK, ReqInv, NEW r \in Reqs, Emit(r)
    PROVE  Moved(r)
<1>1. /\ req[r] \in Requests /\ RequestOK(req[r]) /\ Repeats(req[r], archived)
      /\ req[r].pc = "called" /\ UNCHANGED domain
  BY DEF GatewayTypeOK, ReqInv, Emit
<1>2. PICK n \in NewRows(r) :
         req' = [req EXCEPT ![r].pc = "answered",
                            ![r].good = IF req[r].attempt = "done" THEN @ + n ELSE @,
                            ![r].bad = IF req[r].attempt = "done" THEN @ ELSE @ + n]
  BY DEF Emit
<1> DEFINE good == IF req[r].attempt = "done" THEN req[r].good + n ELSE req[r].good
           bad == IF req[r].attempt = "done" THEN req[r].bad ELSE req[r].bad + n
           q == [req[r] EXCEPT !.pc = "answered", !.good = good, !.bad = bad]
<1>3. Len(req[r].route.events) \in Nat
  BY <1>1, RoutesWellFormed DEF Requests, WellFormed
<1>4. n \in Nat /\ (req[r].route.seam = "tx" /\ req[r].attempt = "done" => n = 0)
  BY <1>2, <1>3 DEF NewRows
<1>5. good \in Nat /\ bad \in Nat
  BY <1>1, <1>4 DEF Requests
<1>6. req[r].route.seam = "tx" => good = req[r].good
  BY <1>1, <1>4 DEF RequestOK, Requests
<1>7. req' = [req EXCEPT ![r] = q]
  BY <1>2
<1> HIDE DEF good, bad
<1>8. q \in Requests
  BY <1>1, <1>5 DEF Requests
<1>9. RequestOK(q)
  BY <1>1, <1>5, <1>6 DEF RequestOK, Requests, Told, BeingHandled
<1>10. Repeats(q, archived')
  BY <1>1, <1>5, <1>6 DEF Repeats, Requests, domain
<1> QED BY <1>1, <1>7, <1>8, <1>9, <1>10 DEF Moved, Requests, domain

LEMMA EmitNothingMoves ==
    ASSUME GatewayAssumption, GatewayTypeOK, ReqInv, NEW r \in Reqs, EmitNothing(r)
    PROVE  Moved(r)
<1> DEFINE q == [req[r] EXCEPT !.pc = "answered"]
<1>1. /\ req[r] \in Requests /\ RequestOK(req[r]) /\ Repeats(req[r], archived)
      /\ req[r].pc = "called" /\ UNCHANGED domain
  BY DEF GatewayTypeOK, ReqInv, EmitNothing
<1>2. q \in Requests
  BY <1>1 DEF Requests
<1>3. RequestOK(q)
  BY <1>1 DEF RequestOK, Requests, Told, BeingHandled
<1>4. Repeats(q, archived')
  BY <1>1 DEF Repeats, Requests, domain
<1>5. req' = [req EXCEPT ![r] = q]
  BY DEF EmitNothing, Becomes
<1> QED BY <1>1, <1>2, <1>3, <1>4, <1>5 DEF Moved, Requests, domain

-----------------------------------------------------------------------------
(* The account of an address at the edge.                                   *)

Accounts ==
    \A a \in Addresses :
      charged[a] + Cardinality(Held(a)) + Due(a) <= EdgeBurst + EdgeRate * elapsed

GatewayInv == GatewayTypeOK /\ ReqInv /\ archived = filed /\ Accounts

LEMMA HeldCounts ==
    ASSUME GatewayAssumption, NEW a
    PROVE  /\ IsFiniteSet(Held(a)) /\ Cardinality(Held(a)) \in Nat
           /\ IsFiniteSet(Held(a))' /\ Cardinality(Held(a))' \in Nat
<1>1. IsFiniteSet(Reqs)
  BY DEF GatewayAssumption
<1>2. Held(a) \subseteq Reqs /\ Held(a)' \subseteq Reqs
  BY DEF Held
<1>3. \A S \in SUBSET Reqs : IsFiniteSet(S) /\ Cardinality(S) \in Nat
  BY <1>1, FS_Subset, FS_CardinalityType
<1> QED BY <1>2, <1>3

\* Whatever else a step does, the edge and the accounts are as they were.
LEMMA NothingAtTheEdge ==
    ASSUME GatewayInv, UNCHANGED <<edge, charged, elapsed>>,
           \A a \in Addresses : Held(a)' = Held(a)
    PROVE  Edge!LimiterTypeOK' /\ Level' = Level /\ Accounts'
<1>1. Edge!LimiterTypeOK' /\ Level' = Level
  BY DEF GatewayInv, GatewayTypeOK, Edge!LimiterTypeOK, Level
<1>2. \A a \in Addresses : Due(a)' = Due(a)
  BY DEF Due, EdgeProofs!Due, EdgeProofs!Earned
<1> QED BY <1>1, <1>2 DEF GatewayInv, Accounts

\* What a step says of the state and of the bucket at the edge.
Kept == GatewayInv' /\ [Edge!Metered!BucketNext]_Level

LEMMA MovedKeeps ==
    ASSUME GatewayAssumption, GatewayInv, NEW r \in Reqs, Moved(r),
           UNCHANGED <<edge, console, charged, elapsed, mix>>,
           PerCredential!LimiterTypeOK', verdict' \in {"none", "admin", "stranger"},
           archived' = filed', archived' \subseteq Archivable
    PROVE  Kept
<1>1. req' \in [Reqs -> Requests] /\ ReqInv' /\ \A a \in Addresses : Held(a)' = Held(a)
  BY MovedStep DEF GatewayInv
<1>2. Edge!LimiterTypeOK' /\ Level' = Level /\ Accounts'
  BY <1>1, NothingAtTheEdge
<1>3. PerIP!LimiterTypeOK'
  BY DEF GatewayInv, GatewayTypeOK, PerIP!LimiterTypeOK
<1>4. GatewayTypeOK'
  BY <1>1, <1>2, <1>3 DEF GatewayInv, GatewayTypeOK
<1> QED BY <1>1, <1>2, <1>4 DEF Kept, GatewayInv

\* What a commit archives is filed with it.
LEMMA CommitFiles ==
    ASSUME GatewayInv, NEW r \in Reqs, TxCommit(r)
    PROVE  archived' = filed' /\ archived' \subseteq Archivable
<1>1. archived = filed /\ archived \subseteq Archivable /\ req[r].ws \in Workspaces
  BY DEF GatewayInv, GatewayTypeOK, Requests
<1>2. Archives(r) => Target(r) \in Archivable
  BY <1>1 DEF Archives, Target, Archivable
<1>3. CASE UNCHANGED domain
  BY <1>1, <1>3 DEF domain
<1>4. CASE Committed(r, 1)
  BY <1>1, <1>2, <1>4 DEF Committed
<1> QED BY <1>3, <1>4 DEF TxCommit

\* A step of a request that touches no limiter.
LEMMA HandlerKeeps ==
    ASSUME GatewayAssumption, GatewayInv, NEW r \in Reqs, UNCHANGED mix,
           \/ Authenticate(r) \/ AdmitOperator(r) \/ Prepare(r) \/ Read(r) \/ CallProvider(r)
           \/ TxWrite(r) \/ TxRecord(r) \/ TxCommit(r) \/ Emit(r) \/ EmitNothing(r)
    PROVE  Kept
<1> USE DEF GatewayInv
<1>1. Moved(r)
  <2>1. CASE AdmitOperator(r)
    <3>1. Answer(r, 403) \/ Answer(r, 503) \/ req' = Becomes(r, "admitted")
      BY <2>1 DEF AdmitOperator
    <3>2. req[r].pc = "known" /\ req[r].who = "operator" /\ UNCHANGED domain
      BY <2>1 DEF AdmitOperator, Seen
    <3> QED BY <3>1, <3>2, AnswerMoves, AdmitMoves
  <2>2. CASE TxWrite(r) \/ TxRecord(r) \/ TxCommit(r)
    BY <2>2, WriteMoves, RecordMoves, CommitMoves
  <2> QED BY <2>1, <2>2, AuthenticateMoves, PrepareMoves, ReadMoves, ProviderMoves, EmitMoves,
             EmitNothingMoves
<1>2. UNCHANGED <<limits, charged, elapsed>>
  BY DEF Authenticate, AdmitOperator, Seen, Prepare, Read, CallProvider, TxWrite, TxRecord,
         TxCommit, Emit, EmitNothing
<1>3. verdict' \in {"none", "admin", "stranger"}
  BY DEF GatewayTypeOK, Authenticate, AdmitOperator, Seen, Prepare, Read, CallProvider,
         TxWrite, TxRecord, TxCommit, Emit, EmitNothing
<1>4. PerCredential!LimiterTypeOK'
  BY <1>2 DEF limits, GatewayTypeOK, PerCredential!LimiterTypeOK
<1>5. archived' = filed' /\ archived' \subseteq Archivable
  <2>1. CASE UNCHANGED domain
    BY <2>1 DEF domain, GatewayTypeOK
  <2>2. CASE TxCommit(r)
    BY <2>2, CommitFiles
  <2> QED BY <2>1, <2>2 DEF Authenticate, AdmitOperator, Seen, Prepare, Read, CallProvider,
                            TxWrite, TxRecord, Emit, EmitNothing
<1> QED BY <1>1, <1>2, <1>3, <1>4, <1>5, MovedKeeps DEF limits

LEMMA AdmitProjectKeeps ==
    ASSUME GatewayAssumption, GatewayInv, NEW r \in Reqs, UNCHANGED mix, AdmitProject(r)
    PROVE  Kept
<1> USE DEF GatewayInv
<1>1. /\ req[r].pc = "known" /\ Machine(r) /\ req[r].who \in Credentials
      /\ \E late \in 0 .. MaxWait : PerCredential!Allow(req[r].who, late)
      /\ UNCHANGED domain
  BY DEF AdmitProject, Machine, Lateness
<1>2. Answer(r, 429) \/ Answer(r, 403) \/ (ProjectMay(r) /\ req' = Becomes(r, "admitted"))
  BY DEF AdmitProject
<1>3. Moved(r)
  BY <1>1, <1>2, AnswerMoves, AdmitMoves
<1>4. PerCredential!LimiterTypeOK'
  BY <1>1, PerCredentialSteps DEF GatewayTypeOK
<1> QED BY <1>1, <1>3, <1>4, MovedKeeps DEF AdmitProject, GatewayTypeOK, domain

-----------------------------------------------------------------------------
\* A slot nobody uses.
LEMMA IdleOK ==
    ASSUME GatewayAssumption
    PROVE  /\ Idle \in Requests /\ RequestOK(Idle) /\ Idle.pc = "idle"
           /\ ~Idle.paid /\ ~Idle.known /\ ~Idle.changed /\ Idle.attempt = "none"
           /\ Idle.good = 0 /\ \A done : Repeats(Idle, done)
<1>1. (CHOOSE a \in Addresses : TRUE) \in Addresses
      /\ (CHOOSE w \in Workspaces : TRUE) \in Workspaces
  BY DEF GatewayAssumption
<1>2. Idle \in Requests
  BY <1>1 DEF Idle, Requests
<1>3. /\ Idle.pc = "idle" /\ ~Idle.paid /\ ~Idle.known /\ ~Idle.changed
      /\ Idle.attempt = "none" /\ Idle.good = 0
  BY DEF Idle
<1>4. RequestOK(Idle) /\ \A done : Repeats(Idle, done)
  BY <1>3 DEF RequestOK, Repeats, BeingHandled
<1> QED BY <1>2, <1>3, <1>4

\* A request as it arrives: it is paid for exactly if the limiter let it through.
LEMMA Arrivals ==
    ASSUME GatewayAssumption, NEW r \in Reqs, NEW route \in V1Routes \cup AdminRoutes,
           NEW a \in Addresses, NEW who \in Credentials \cup {"anonymous", "operator"},
           NEW w \in Workspaces, NEW ok \in BOOLEAN, Arrived(r, route, a, who, w, ok)
    PROVE  \E q \in Requests :
             /\ RequestOK(q) /\ Repeats(q, archived') /\ req' = [req EXCEPT ![r] = q]
             /\ q.paid = ok /\ q.route = route /\ q.addr = a
<1> DEFINE pc == IF ok THEN "received" ELSE "answered"
           code == IF ok THEN 0 ELSE 429
           q == [Idle EXCEPT !.route = route, !.addr = a, !.who = who, !.ws = w, !.paid = ok,
                             !.pc = pc, !.code = code]
<1>1. code \in Nat /\ pc \in {"received", "answered"} /\ (pc = "received" => ok)
      /\ (pc = "answered" => code = 429)
  OBVIOUS
<1>2. req' = [req EXCEPT ![r] = q]
  BY DEF Arrived
<1> HIDE DEF pc, code
<1>3. q \in Requests
  BY <1>1, IdleOK DEF Requests
<1>4. RequestOK(q) /\ Repeats(q, archived')
  BY <1>1, IdleOK DEF RequestOK, Requests, Repeats, Told, BeingHandled
<1>5. q.paid = ok /\ q.route = route /\ q.addr = a
  BY IdleOK DEF Requests
<1> QED BY <1>2, <1>3, <1>4, <1>5

\* A request that arrives holds a token of its address if it was admitted to /v1.
LEMMA ArrivalStep ==
    ASSUME GatewayAssumption, GatewayInv, NEW r \in Reqs, req[r].pc = "idle",
           NEW q \in Requests, RequestOK(q), Repeats(q, archived'), UNCHANGED archived,
           req' = [req EXCEPT ![r] = q]
    PROVE  /\ req' \in [Reqs -> Requests] /\ ReqInv'
           /\ \A b \in Addresses :
                /\ q.paid /\ q.route \in V1Routes /\ q.addr = b =>
                     Cardinality(Held(b))' = Cardinality(Held(b)) + 1
                /\ ~(q.paid /\ q.route \in V1Routes /\ q.addr = b) => Held(b)' = Held(b)
<1>1. req \in [Reqs -> Requests] /\ ~req[r].paid
  BY DEF GatewayInv, GatewayTypeOK, ReqInv, RequestOK
<1>2. req' \in [Reqs -> Requests] /\ ReqInv'
  BY RequestStep DEF GatewayInv
<1>3. \A p \in Reqs : req'[p] = IF p = r THEN q ELSE req[p]
  BY <1>1
<1>4. ASSUME NEW b \in Addresses, q.paid /\ q.route \in V1Routes /\ q.addr = b
      PROVE  Cardinality(Held(b))' = Cardinality(Held(b)) + 1
  <2>1. Held(b)' = Held(b) \cup {r} /\ r \notin Held(b)
    BY <1>1, <1>3, <1>4 DEF Held, OnV1
  <2> QED BY <2>1, HeldCounts, FS_AddElement
<1>5. ASSUME NEW b \in Addresses, ~(q.paid /\ q.route \in V1Routes /\ q.addr = b)
      PROVE  Held(b)' = Held(b)
  BY <1>1, <1>3, <1>5 DEF Held, OnV1
<1> QED BY <1>2, <1>4, <1>5

\* Admitted by the limiter of /v1: one token less, one request more.
LEMMA EdgeArrival ==
    ASSUME GatewayAssumption, GatewayInv, NEW r \in Reqs, req[r].pc = "idle",
           NEW a \in Addresses, NEW late \in Lateness, Edge!Allow(a, late),
           UNCHANGED <<archived, charged, elapsed>>,
           NEW q \in Requests, RequestOK(q), Repeats(q, archived'),
           req' = [req EXCEPT ![r] = q],
           q.route \in V1Routes, q.addr = a, q.paid = Edge!Allowed(a, late)
    PROVE  /\ req' \in [Reqs -> Requests] /\ ReqInv' /\ Edge!LimiterTypeOK' /\ Accounts'
           /\ [Edge!Metered!BucketNext]_Level
<1> USE DEF GatewayInv
<1>1. /\ req' \in [Reqs -> Requests] /\ ReqInv'
      /\ \A b \in Addresses :
           /\ q.paid /\ a = b => Cardinality(Held(b))' = Cardinality(Held(b)) + 1
           /\ ~(q.paid /\ a = b) => Held(b)' = Held(b)
  BY ArrivalStep
<1>2. /\ Edge!LimiterTypeOK'
      /\ Edge!Allowed(a, late) => Edge!Metered!Admit(a)
      /\ ~Edge!Allowed(a, late) => Level' = Level
      /\ \A b \in Addresses :
           Due(b)' <= Due(b) - (IF b = a /\ Edge!Allowed(a, late) THEN 1 ELSE 0)
  BY EdgeAllow DEF GatewayTypeOK
<1>3. [Edge!Metered!BucketNext]_Level
  BY <1>2 DEF Edge!Metered!BucketNext
<1>4. SUFFICES ASSUME NEW b \in Addresses
               PROVE  charged[b] + Cardinality(Held(b))' + Due(b)'
                        <= EdgeBurst + EdgeRate * elapsed
  BY <1>1, <1>2, <1>3 DEF Accounts
<1>5. charged[b] + Cardinality(Held(b)) + Due(b) <= EdgeBurst + EdgeRate * elapsed
  BY DEF Accounts
<1>6. /\ Cardinality(Held(b)) \in Nat /\ Cardinality(Held(b))' \in Nat /\ charged[b] \in Nat
      /\ Due(b) \in Nat /\ Due(b)' \in Nat /\ elapsed \in Nat
      /\ EdgeBurst + EdgeRate * elapsed \in Nat
  <2>1. elapsed \in Nat /\ elapsed' \in Nat /\ charged[b] \in Nat
    BY DEF GatewayTypeOK
  <2>2. Due(b) \in Nat
    BY <2>1, DueType DEF GatewayTypeOK
  <2>3. Due(b)' \in Nat
    BY <1>2, <2>1, DueTypeNext
  <2> QED BY <2>1, <2>2, <2>3, HeldCounts DEF GatewayAssumption
<1>7. Cardinality(Held(b))' = Cardinality(Held(b)) + (IF b = a /\ Edge!Allowed(a, late) THEN 1 ELSE 0)
  BY <1>1, <1>6
<1> DEFINE one == IF b = a /\ Edge!Allowed(a, late) THEN 1 ELSE 0
           limit == EdgeBurst + EdgeRate * elapsed
<1>8. one \in Nat /\ Due(b)' <= Due(b) - one /\ Cardinality(Held(b))' = Cardinality(Held(b)) + one
      /\ limit \in Nat
  BY <1>2, <1>6, <1>7
<1> HIDE DEF one, limit
<1>9. charged[b] + Cardinality(Held(b)) + Due(b) <= limit
  BY <1>5 DEF limit
<1>10. charged[b] + Cardinality(Held(b))' + Due(b)' <= limit
  BY <1>6, <1>8, <1>9
<1> QED BY <1>10 DEF limit

LEMMA ReceiveKeeps ==
    ASSUME GatewayAssumption, GatewayInv, NEW r \in Reqs, UNCHANGED mix, Receive(r)
    PROVE  Kept
<1> USE DEF GatewayInv
<1>1. PICK route \in Mixes[mix].routes, a \in Addresses, late \in Lateness,
           who \in Mixes[mix].callers, w \in Mixes[mix].places :
         IF route \in V1Routes
         THEN /\ Edge!Allow(a, late) /\ UNCHANGED console
              /\ Arrived(r, route, a, who, w, Edge!Allowed(a, late))
         ELSE /\ PerIP!Allow(a, late) /\ UNCHANGED edge
              /\ Arrived(r, route, a, who, w, PerIP!Allowed(a, late))
  BY DEF Receive
<1>2. /\ route \in V1Routes \cup AdminRoutes /\ w \in Workspaces
      /\ who \in Credentials \cup {"anonymous", "operator"}
  BY <1>1 DEF GatewayAssumption, GatewayTypeOK
<1>3. req[r].pc = "idle" /\ UNCHANGED <<machine, verdict, domain, charged, elapsed>>
  BY DEF Receive
<1>4. PerCredential!LimiterTypeOK'
  BY <1>3 DEF GatewayTypeOK, PerCredential!LimiterTypeOK
<1>5. CASE route \in V1Routes
  <2>1. Edge!Allow(a, late) /\ UNCHANGED console /\ Arrived(r, route, a, who, w, Edge!Allowed(a, late))
    BY <1>1, <1>5
  <2>2. Edge!Allowed(a, late) \in BOOLEAN
    BY DEF Edge!Allowed
  <2>3. PICK q \in Requests :
          /\ RequestOK(q) /\ Repeats(q, archived') /\ req' = [req EXCEPT ![r] = q]
          /\ q.paid = Edge!Allowed(a, late) /\ q.route = route /\ q.addr = a
    <3> DEFINE ok == Edge!Allowed(a, late)
    <3>1. ok \in BOOLEAN /\ Arrived(r, route, a, who, w, ok)
      BY <2>1, <2>2
    <3> HIDE DEF ok
    <3>2. \E q \in Requests :
            /\ RequestOK(q) /\ Repeats(q, archived') /\ req' = [req EXCEPT ![r] = q]
            /\ q.paid = ok /\ q.route = route /\ q.addr = a
      BY <1>2, <3>1, Arrivals
    <3> QED BY <3>2 DEF ok
  <2>4. /\ req' \in [Reqs -> Requests] /\ ReqInv' /\ Edge!LimiterTypeOK' /\ Accounts'
        /\ [Edge!Metered!BucketNext]_Level
    BY <1>3, <1>5, <2>1, <2>3, EdgeArrival DEF domain
  <2>5. PerIP!LimiterTypeOK'
    BY <2>1 DEF GatewayTypeOK, PerIP!LimiterTypeOK
  <2>6. GatewayTypeOK'
    BY <1>3, <1>4, <2>4, <2>5 DEF GatewayTypeOK, domain
  <2> QED BY <1>3, <2>4, <2>6 DEF Kept, domain
<1>6. CASE route \notin V1Routes
  <2>1. PerIP!Allow(a, late) /\ UNCHANGED edge /\ Arrived(r, route, a, who, w, PerIP!Allowed(a, late))
    BY <1>1, <1>6
  <2>2. PerIP!Allowed(a, late) \in BOOLEAN
    BY DEF PerIP!Allowed
  <2>3. PICK q \in Requests :
          /\ RequestOK(q) /\ Repeats(q, archived') /\ req' = [req EXCEPT ![r] = q]
          /\ q.route = route
    <3> DEFINE ok == PerIP!Allowed(a, late)
    <3>1. ok \in BOOLEAN /\ Arrived(r, route, a, who, w, ok)
      BY <2>1, <2>2
    <3> HIDE DEF ok
    <3>2. \E q \in Requests :
            /\ RequestOK(q) /\ Repeats(q, archived') /\ req' = [req EXCEPT ![r] = q]
            /\ q.paid = ok /\ q.route = route /\ q.addr = a
      BY <1>2, <3>1, Arrivals
    <3> QED BY <3>2
  <2>4. /\ req' \in [Reqs -> Requests] /\ ReqInv'
        /\ \A b \in Addresses : Held(b)' = Held(b)
    BY <1>3, <1>6, <2>3, ArrivalStep DEF domain
  <2>5. PerIP!LimiterTypeOK'
    BY <2>1, PerIPSteps DEF GatewayTypeOK, Lateness
  <2>6. Edge!LimiterTypeOK' /\ Level' = Level /\ Accounts'
    BY <1>3, <2>1, <2>4, NothingAtTheEdge
  <2>7. GatewayTypeOK'
    BY <1>3, <1>4, <2>4, <2>5, <2>6 DEF GatewayTypeOK, domain
  <2> QED BY <1>3, <2>4, <2>6, <2>7 DEF Kept, domain
<1> QED BY <1>5, <1>6

\* A request that leaves was paid for; its token goes back only if it was a project's.
LEMMA ReleaseKeeps ==
    ASSUME GatewayAssumption, GatewayInv, NEW r \in Reqs, UNCHANGED mix, Release(r)
    PROVE  Kept
<1> USE DEF GatewayInv
<1>1. req[r] \in Requests /\ RequestOK(req[r]) /\ req[r].addr \in Addresses
  BY DEF GatewayTypeOK, ReqInv, Requests
<1> DEFINE a == req[r].addr
           project == IsProject(r) /\ OnV1(r)
           counted == req[r].paid /\ OnV1(r)
<1>2. /\ req' = [req EXCEPT ![r] = Idle]
      /\ IF project THEN Edge!Refund(a) ELSE UNCHANGED edge
      /\ charged' = [charged EXCEPT ![a] = IF counted /\ ~IsProject(r) THEN @ + 1 ELSE @]
      /\ UNCHANGED <<console, machine, verdict, domain, elapsed>>
  BY DEF Release
<1>3. project => counted
  BY <1>1 DEF IsProject, RequestOK
<1>4. req' \in [Reqs -> Requests] /\ ReqInv'
  BY <1>2, IdleOK, RequestStep DEF domain
<1>5. charged' \in [Addresses -> Nat]
  BY <1>1, <1>2 DEF GatewayTypeOK
<1>6. PerIP!LimiterTypeOK' /\ PerCredential!LimiterTypeOK'
  BY <1>2 DEF GatewayTypeOK, PerIP!LimiterTypeOK, PerCredential!LimiterTypeOK
<1>7. elapsed \in Nat /\ elapsed' \in Nat
  BY <1>2 DEF GatewayTypeOK
<1>8. /\ Edge!LimiterTypeOK' /\ [Edge!Metered!BucketNext]_Level
      /\ \A b \in Addresses : Due(b) \in Nat /\ Due(b)' \in Nat
      /\ \A b \in Addresses : Due(b)' <= Due(b) + (IF project /\ a = b THEN 1 ELSE 0)
  <2>1. CASE project
    <3>1. /\ Edge!LimiterTypeOK' /\ Edge!Metered!Credit(a)
          /\ \A b \in Addresses : Due(b)' <= Due(b) + (IF b = a THEN 1 ELSE 0)
      BY <1>1, <1>2, <1>7, <2>1, EdgeRefund DEF GatewayTypeOK
    <3>2. [Edge!Metered!BucketNext]_Level
      BY <1>1, <3>1 DEF Edge!Metered!BucketNext
    <3>3. \A b \in Addresses : Due(b) \in Nat /\ Due(b)' \in Nat
      BY <1>7, <3>1, DueType, DueTypeNext DEF GatewayTypeOK
    <3> HIDE DEF project
    <3> QED BY <2>1, <3>1, <3>2, <3>3
  <2>2. CASE ~project
    <3>1. Edge!LimiterTypeOK' /\ Level' = Level
      BY <1>2, <2>2 DEF GatewayTypeOK, Edge!LimiterTypeOK, Level
    <3>2. \A b \in Addresses : Due(b) \in Nat /\ Due(b)' = Due(b)
      <4>1. \A b \in Addresses : Due(b)' = Due(b)
        BY <1>2, <2>2 DEF Due, EdgeProofs!Due, EdgeProofs!Earned
      <4> QED BY <1>7, <4>1, DueType DEF GatewayTypeOK
    <3> HIDE DEF project
    <3> QED BY <2>2, <3>1, <3>2
  <2> QED BY <2>1, <2>2
<1>9. ASSUME NEW b \in Addresses
      PROVE  Held(b)' = IF counted /\ a = b THEN Held(b) \ {r} ELSE Held(b)
  <2>1. \A p \in Reqs : req'[p] = IF p = r THEN Idle ELSE req[p]
    BY <1>2 DEF GatewayTypeOK
  <2>2. ~Idle.paid
    BY IdleOK
  <2> QED BY <2>1, <2>2 DEF Held, OnV1
<1>10. ASSUME NEW b \in Addresses
       PROVE  /\ counted /\ a = b => Cardinality(Held(b))' = Cardinality(Held(b)) - 1
              /\ ~(counted /\ a = b) => Held(b)' = Held(b)
  <2>1. CASE counted /\ a = b
    <3>1. r \in Held(b) /\ Held(b)' = Held(b) \ {r}
      BY <1>9, <2>1 DEF Held
    <3>2. IsFiniteSet(Held(b))
      BY HeldCounts
    <3>3. Cardinality(Held(b) \ {r}) = Cardinality(Held(b)) - 1
      <4> HIDE DEF counted, a
      <4> QED BY <3>1, <3>2, FS_RemoveElement
    <3> QED BY <2>1, <3>1, <3>3
  <2>2. CASE ~(counted /\ a = b)
    BY <1>9, <2>2
  <2> QED BY <2>1, <2>2
<1>11. Accounts'
  <2>1. SUFFICES ASSUME NEW b \in Addresses
                 PROVE  charged'[b] + Cardinality(Held(b))' + Due(b)'
                          <= EdgeBurst + EdgeRate * elapsed
    BY <1>2 DEF Accounts
  <2>2. charged[b] + Cardinality(Held(b)) + Due(b) <= EdgeBurst + EdgeRate * elapsed
    BY DEF Accounts
  <2>3. EdgeRate * elapsed \in Nat
    BY DEF GatewayAssumption, GatewayTypeOK
  <2>4. /\ charged[b] \in Nat /\ Cardinality(Held(b)) \in Nat /\ Cardinality(Held(b))' \in Nat
        /\ Due(b) \in Nat /\ Due(b)' \in Nat /\ EdgeBurst \in Nat
    BY <1>7, <1>8, HeldCounts DEF GatewayTypeOK, GatewayAssumption
  <2>5. charged'[b] = IF a = b /\ counted /\ ~IsProject(r) THEN charged[b] + 1 ELSE charged[b]
    BY <1>1, <1>2 DEF GatewayTypeOK
  <2>6. counted /\ IsProject(r) => project
    OBVIOUS
  <2>7. CASE a = b /\ counted /\ IsProject(r)
    <3>1. charged'[b] = charged[b] /\ Due(b)' <= Due(b) + 1
          /\ Cardinality(Held(b))' = Cardinality(Held(b)) - 1
      BY <1>8, <1>10, <2>5, <2>6, <2>7
    <3> HIDE DEF a, project, counted
    <3> QED BY <2>2, <2>3, <2>4, <3>1
  <2>8. CASE a = b /\ counted /\ ~IsProject(r)
    <3>1. charged'[b] = charged[b] + 1 /\ Due(b)' <= Due(b)
          /\ Cardinality(Held(b))' = Cardinality(Held(b)) - 1
      BY <1>8, <1>10, <2>4, <2>5, <2>8
    <3> HIDE DEF a, project, counted
    <3> QED BY <2>2, <2>3, <2>4, <3>1
  <2>9. CASE ~(a = b /\ counted)
    <3>1. charged'[b] = charged[b] /\ Due(b)' <= Due(b) /\ Held(b)' = Held(b)
      BY <1>3, <1>8, <1>10, <2>4, <2>5, <2>9
    <3> HIDE DEF a, project, counted
    <3> QED BY <2>2, <2>3, <2>4, <3>1
  <2> QED BY <2>7, <2>8, <2>9
<1>12. GatewayTypeOK'
  BY <1>2, <1>4, <1>5, <1>6, <1>7, <1>8 DEF GatewayTypeOK, domain
<1> QED BY <1>2, <1>4, <1>8, <1>11, <1>12 DEF Kept, domain

LEMMA TickKeeps ==
    ASSUME GatewayAssumption, GatewayInv, UNCHANGED mix, Tick
    PROVE  Kept
<1> USE DEF GatewayInv
<1>1. /\ Edge!LimiterTick /\ PerIP!LimiterTick /\ PerCredential!LimiterTick
      /\ elapsed' = elapsed + 1 /\ UNCHANGED <<verdict, domain, req, charged>>
  BY DEF Tick
<1>2. /\ Edge!LimiterTypeOK' /\ Edge!Metered!Refill
      /\ \A b \in Addresses : Due(b)' <= Due(b) + EdgeRate
  BY <1>1, EdgeTick DEF GatewayTypeOK
<1>3. PerIP!LimiterTypeOK' /\ PerCredential!LimiterTypeOK'
  BY <1>1, PerIPSteps, PerCredentialSteps DEF GatewayTypeOK
<1>4. ReqInv' /\ req' \in [Reqs -> Requests] /\ \A b \in Addresses : Held(b)' = Held(b)
  BY <1>1 DEF GatewayTypeOK, ReqInv, Held, OnV1, domain
<1>5. elapsed \in Nat /\ elapsed' \in Nat
  BY <1>1 DEF GatewayTypeOK
<1>6. \A b \in Addresses : Due(b) \in Nat /\ Due(b)' \in Nat
  BY <1>2, <1>5, DueType, DueTypeNext DEF GatewayTypeOK
<1>7. Accounts'
  <2>1. SUFFICES ASSUME NEW b \in Addresses
                 PROVE  charged[b] + Cardinality(Held(b)) + Due(b)'
                          <= EdgeBurst + EdgeRate * elapsed'
    BY <1>1, <1>4 DEF Accounts
  <2>2. charged[b] + Cardinality(Held(b)) + Due(b) <= EdgeBurst + EdgeRate * elapsed
    BY DEF Accounts
  <2>3. EdgeRate * (elapsed + 1) = EdgeRate * elapsed + EdgeRate /\ EdgeRate * elapsed \in Nat
    <3>1. \A x, y \in Nat : x * (y + 1) = x * y + x /\ x * y \in Nat
      OBVIOUS
    <3> QED BY <1>5, <3>1 DEF GatewayAssumption
  <2>4. /\ charged[b] \in Nat /\ Cardinality(Held(b)) \in Nat /\ Due(b) \in Nat
        /\ Due(b)' \in Nat /\ EdgeBurst \in Nat /\ EdgeRate \in Nat
    BY <1>5, <1>6, HeldCounts DEF GatewayTypeOK, GatewayAssumption
  <2>5. Due(b)' <= Due(b) + EdgeRate
    BY <1>2
  <2> DEFINE refilled == EdgeRate * elapsed
  <2>6. refilled \in Nat /\ EdgeRate * elapsed' = refilled + EdgeRate
        /\ charged[b] + Cardinality(Held(b)) + Due(b) <= EdgeBurst + refilled
    BY <1>1, <2>2, <2>3
  <2> HIDE DEF refilled
  <2> QED BY <2>4, <2>5, <2>6
<1>8. GatewayTypeOK'
  BY <1>1, <1>2, <1>3, <1>4, <1>5 DEF GatewayTypeOK, domain
<1>9. [Edge!Metered!BucketNext]_Level
  BY <1>2 DEF Edge!Metered!BucketNext
<1> QED BY <1>1, <1>4, <1>7, <1>8, <1>9 DEF Kept, domain

\* Nothing happens to a request: a sweep, an expired verdict, a stutter.
LEMMA IdleKeeps ==
    ASSUME GatewayAssumption, GatewayInv, Sweep \/ Expire \/ UNCHANGED gatewayVars, UNCHANGED mix
    PROVE  Kept
<1> USE DEF GatewayInv
<1>1. UNCHANGED <<domain, req, charged, elapsed>> /\ verdict' \in {"none", "admin", "stranger"}
  BY DEF Sweep, Expire, gatewayVars, GatewayTypeOK, domain
<1>2. ReqInv' /\ req' \in [Reqs -> Requests] /\ \A b \in Addresses : Held(b)' = Held(b)
  BY <1>1 DEF GatewayTypeOK, ReqInv, Held, OnV1, domain
<1>3. /\ Edge!LimiterTypeOK' /\ Level' = Level
      /\ \A b \in Addresses : Due(b)' <= Due(b) /\ Due(b) \in Nat /\ Due(b)' \in Nat
  <2> elapsed \in Nat /\ elapsed' \in Nat /\ UNCHANGED elapsed
    BY <1>1 DEF GatewayTypeOK
  <2>1. CASE \E late \in 0 .. MaxWait : Edge!Sweep(late)
    BY <2>1, EdgeSweep, DueType, DueTypeNext DEF GatewayTypeOK
  <2>2. CASE UNCHANGED edge
    <3>1. Edge!LimiterTypeOK' /\ Level' = Level
      BY <2>2 DEF GatewayTypeOK, Edge!LimiterTypeOK, Level
    <3>2. \A b \in Addresses : Due(b)' = Due(b) /\ Due(b) \in Nat
      <4>1. \A b \in Addresses : Due(b)' = Due(b)
        BY <2>2 DEF Due, EdgeProofs!Due, EdgeProofs!Earned
      <4> QED BY <4>1, DueType DEF GatewayTypeOK
    <3> QED BY <3>1, <3>2
  <2> QED BY <2>1, <2>2 DEF Sweep, Expire, limits, gatewayVars
<1>4. PerIP!LimiterTypeOK'
  <2>1. CASE \E late \in 0 .. MaxWait : PerIP!Sweep(late)
    BY <2>1, PerIPSteps DEF GatewayTypeOK
  <2>2. CASE UNCHANGED console
    BY <2>2 DEF GatewayTypeOK, PerIP!LimiterTypeOK
  <2> QED BY <2>1, <2>2 DEF Sweep, Expire, limits, gatewayVars
<1>5. PerCredential!LimiterTypeOK'
  <2>1. CASE \E late \in 0 .. MaxWait : PerCredential!Sweep(late)
    BY <2>1, PerCredentialSteps DEF GatewayTypeOK
  <2>2. CASE UNCHANGED machine
    BY <2>2 DEF GatewayTypeOK, PerCredential!LimiterTypeOK
  <2> QED BY <2>1, <2>2 DEF Sweep, Expire, limits, gatewayVars
<1>6. GatewayTypeOK'
  BY <1>1, <1>2, <1>3, <1>4, <1>5 DEF GatewayTypeOK, domain
<1>7. Accounts'
  <2>1. SUFFICES ASSUME NEW b \in Addresses
                 PROVE  charged[b] + Cardinality(Held(b)) + Due(b)'
                          <= EdgeBurst + EdgeRate * elapsed
    BY <1>1, <1>2 DEF Accounts
  <2>2. /\ charged[b] \in Nat /\ Cardinality(Held(b)) \in Nat
        /\ EdgeBurst + EdgeRate * elapsed \in Nat
    BY HeldCounts DEF GatewayAssumption, GatewayTypeOK
  <2>3. charged[b] + Cardinality(Held(b)) + Due(b) <= EdgeBurst + EdgeRate * elapsed
    BY DEF Accounts
  <2>4. Due(b)' <= Due(b) /\ Due(b) \in Nat /\ Due(b)' \in Nat
    BY <1>3
  <2> DEFINE limit == EdgeBurst + EdgeRate * elapsed
  <2>5. limit \in Nat /\ charged[b] + Cardinality(Held(b)) + Due(b) <= limit
    BY <2>2, <2>3
  <2> HIDE DEF limit
  <2>6. charged[b] + Cardinality(Held(b)) + Due(b)' <= limit
    BY <2>2, <2>4, <2>5
  <2> QED BY <2>6 DEF limit
<1> QED BY <1>1, <1>2, <1>3, <1>6, <1>7 DEF Kept, domain

LEMMA GatewayStart == GatewayAssumption /\ GatewayInit => GatewayInv /\ Edge!Metered!BucketInit
<1> SUFFICES ASSUME GatewayAssumption, GatewayInit
             PROVE  GatewayInv /\ Edge!Metered!BucketInit
  OBVIOUS
<1>1. /\ EdgeProofs!LimiterInit /\ PerIPProofs!LimiterInit /\ PerCredentialProofs!LimiterInit
  BY DEF GatewayInit, Edge!LimiterInit, PerIP!LimiterInit, PerCredential!LimiterInit,
         EdgeProofs!LimiterInit, PerIPProofs!LimiterInit, PerCredentialProofs!LimiterInit,
         Edge!Missing, PerIP!Missing, PerCredential!Missing,
         EdgeProofs!Missing, PerIPProofs!Missing, PerCredentialProofs!Missing
<1>2. Edge!LimiterTypeOK /\ PerIP!LimiterTypeOK /\ PerCredential!LimiterTypeOK
  <2>1. EdgeProofs!LimiterTypeOK
    BY <1>1, Settings, EdgeProofs!MissingIsFull
    DEF EdgeProofs!LimiterInit, EdgeProofs!LimiterTypeOK
  <2>2. PerIPProofs!LimiterTypeOK
    BY <1>1, Settings, PerIPProofs!MissingIsFull
    DEF PerIPProofs!LimiterInit, PerIPProofs!LimiterTypeOK
  <2>3. PerCredentialProofs!LimiterTypeOK
    BY <1>1, Settings, PerCredentialProofs!MissingIsFull
    DEF PerCredentialProofs!LimiterInit, PerCredentialProofs!LimiterTypeOK
  <2>4. PerIP!LimiterTypeOK
    BY <2>2 DEF PerIP!LimiterTypeOK, PerIPProofs!LimiterTypeOK, PerIP!Buckets,
                PerIPProofs!Buckets, PerIP!Earned, PerIPProofs!Earned, PerIP!Forgotten,
                PerIPProofs!Forgotten
  <2>5. PerCredential!LimiterTypeOK
    BY <2>3 DEF PerCredential!LimiterTypeOK, PerCredentialProofs!LimiterTypeOK,
                PerCredential!Buckets, PerCredentialProofs!Buckets, PerCredential!Earned,
                PerCredentialProofs!Earned, PerCredential!Forgotten,
                PerCredentialProofs!Forgotten
  <2> QED BY <2>1, <2>4, <2>5, EdgeType
<1>3. \A a \in Addresses :
        /\ Level[a] = EdgeBurst + EdgeRate * MaxWait
        /\ Due(a) = EdgeBurst
  <2>1. \A a \in Addresses : edge[a] = EdgeProofs!Missing
    BY <1>1 DEF EdgeProofs!LimiterInit
  <2>2. EdgeProofs!Worth(EdgeProofs!Missing) = EdgeBurst + EdgeRate * MaxWait
    BY Settings, EdgeProofs!MissingIsFull DEF EdgeProofs!Full
  <2>3. ~EdgeProofs!Missing.here /\ elapsed = 0
    BY Settings, EdgeProofs!MissingIsFull DEF GatewayInit
  <2>4. (IF 0 < MaxWait THEN 0 ELSE MaxWait) = 0 /\ EdgeRate * 0 = 0 /\ EdgeBurst + 0 = EdgeBurst
    BY DEF GatewayAssumption
  <2>5. \A a \in Addresses : Due(a) = EdgeBurst
    BY <2>1, <2>3, <2>4 DEF Due, EdgeProofs!Due
  <2> QED BY <2>1, <2>2, <2>5, EdgeWorth DEF Level
<1>4. req \in [Reqs -> Requests] /\ \A r \in Reqs : req[r] = Idle
  BY IdleOK DEF GatewayInit
<1>5. GatewayTypeOK
  BY <1>2, <1>4 DEF GatewayInit, GatewayTypeOK
<1>6. ReqInv
  BY <1>4, IdleOK DEF ReqInv
<1>7. Accounts
  <2>1. SUFFICES ASSUME NEW a \in Addresses
                 PROVE  charged[a] + Cardinality(Held(a)) + Due(a)
                          <= EdgeBurst + EdgeRate * elapsed
    BY DEF Accounts
  <2>2. Held(a) = {}
    BY <1>4, IdleOK DEF Held
  <2>3. charged[a] = 0 /\ EdgeRate * elapsed = 0 /\ EdgeBurst \in Nat
    BY DEF GatewayInit, GatewayAssumption
  <2> QED BY <1>3, <2>2, <2>3, FS_EmptySet
<1>8. archived = filed
  BY DEF GatewayInit
<1>9. Edge!Metered!BucketInit
  BY <1>3 DEF Edge!Metered!BucketInit, Level
<1> QED BY <1>5, <1>6, <1>7, <1>8, <1>9 DEF GatewayInv

LEMMA GatewayStep ==
    ASSUME GatewayAssumption, GatewayInv, [GatewayNext]_gatewayVars
    PROVE  Kept
<1>1. CASE UNCHANGED gatewayVars
  BY <1>1, IdleKeeps DEF gatewayVars
<1>2. CASE Tick /\ UNCHANGED mix
  BY <1>2, TickKeeps
<1>3. CASE (Sweep \/ Expire) /\ UNCHANGED mix
  BY <1>3, IdleKeeps
<1>4. ASSUME NEW r \in Reqs, Serve(r), UNCHANGED mix
      PROVE  Kept
  BY <1>4, ReceiveKeeps, AdmitProjectKeeps, HandlerKeeps, ReleaseKeeps DEF Serve
<1> QED BY <1>1, <1>2, <1>3, <1>4 DEF GatewayNext

LEMMA GatewayInvariant == GatewaySpec => []GatewayInv
<1>1. GatewayInit => GatewayInv
  BY GatewayAssumption, GatewayStart
<1>2. GatewayInv /\ [GatewayNext]_gatewayVars => GatewayInv'
  BY GatewayAssumption, GatewayStep DEF Kept
<1> QED BY <1>1, <1>2, PTL DEF GatewaySpec

-----------------------------------------------------------------------------
(* The theorems.                                                            *)

\* The server always is in a state of its type: the three limiters, the verdict
\* and every request (server/router.go).
THEOREM GatewayTypeCorrect == GatewaySpec => []GatewayTypeOK
  BY GatewayInvariant, PTL DEF GatewayInv

\* However many callers, credentials and settings, what the edge let an address
\* spend is one burst and the refill since (server/ratelimit.go RateLimitEdge).
THEOREM FloodMetered == GatewaySpec => []FloodIsMetered
<1>1. GatewayInv => FloodIsMetered
  <2> SUFFICES ASSUME GatewayInv, NEW a \in Addresses
               PROVE  charged[a] + Cardinality(Held(a)) <= EdgeBurst + EdgeRate * elapsed
    BY DEF FloodIsMetered
  <2>1. charged[a] + Cardinality(Held(a)) + Due(a) <= EdgeBurst + EdgeRate * elapsed
    BY DEF GatewayInv, Accounts
  <2>2. Due(a) \in Nat /\ charged[a] \in Nat /\ Cardinality(Held(a)) \in Nat
    BY GatewayAssumption, DueType, HeldCounts
    DEF GatewayAssumption, GatewayInv, GatewayTypeOK
  <2>3. EdgeRate * elapsed \in Nat /\ EdgeBurst \in Nat
    BY GatewayAssumption DEF GatewayAssumption, GatewayInv, GatewayTypeOK
  <2> QED BY <2>1, <2>2, <2>3
<1> QED BY <1>1, GatewayInvariant, PTL

\* Whatever passes through it, the limiter at the edge implements the bucket of
\* TokenBucket (server/ratelimit.go:151).
THEOREM EdgeImplementsBucket == GatewaySpec => EdgeIsABucket
<1>1. GatewayInit => Edge!Metered!BucketInit
  BY GatewayAssumption, GatewayStart
<1>2. GatewayInv /\ [GatewayNext]_gatewayVars => [Edge!Metered!BucketNext]_Level
  BY GatewayAssumption, GatewayStep DEF Kept
<1>3. GatewayInv /\ [GatewayNext]_gatewayVars
        => [Edge!Metered!BucketNext]_[k \in Addresses |-> Edge!Worth(edge[k])]
  BY <1>2 DEF Level
<1> QED BY <1>1, <1>3, GatewayInvariant, PTL
        DEF GatewaySpec, EdgeIsABucket, Edge!MeteredSpec, Edge!Metered!BucketSpec

\* A project never changes a realm that is not its own, nor on a read scope
\* (authz/authorize.go:150, authz/registry.go:54).
THEOREM AuthorityConfined == GatewaySpec => []AuthorityHolds
<1>1. GatewayInv => AuthorityHolds
  <2> SUFFICES ASSUME GatewayInv, NEW r \in Reqs, Machine(r),
                      req[r].pc \in BeingHandled
               PROVE  /\ req[r].ws = Bound[req[r].who] /\ ~OperatorOnly(req[r].route)
                      /\ req[r].changed => ~(Granted[req[r].who] \subseteq ReadScopes)
    BY DEF AuthorityHolds
  <2>1. RequestOK(req[r]) /\ req[r] \in Requests
    BY DEF GatewayInv, GatewayTypeOK, ReqInv
  <2>2. /\ req[r].ws = Bound[req[r].who] /\ ~OperatorOnly(req[r].route)
        /\ HasScope(Granted[req[r].who], req[r].route)
        /\ req[r].changed => req[r].route.mutates
    BY <2>1 DEF RequestOK, Machine
  <2>3. req[r].route \in V1Routes
    BY <2>1 DEF RequestOK, Machine
  <2>4. ASSUME req[r].changed, Granted[req[r].who] \subseteq ReadScopes
        PROVE  FALSE
    BY <2>2, <2>3, <2>4, ReadScopesOpenReaders DEF HasScope
  <2> QED BY <2>2, <2>4
<1> QED BY <1>1, GatewayInvariant, PTL

\* What the trail says was archived is what is archived, and every change of the
\* control plane has its one row of success, for every set of workspaces, repeats of an
\* archive and lost commits included (logging/gin_helpers.go:218, workspace/repository.go:247).
THEOREM TrailTrue == GatewaySpec => []TrailTellsTheTruth
<1>1. GatewayInv => TrailTellsTheTruth
  BY DEF GatewayInv, ReqInv, RequestOK, Repeats, Archives, Target, TrailTellsTheTruth
<1> QED BY <1>1, GatewayInvariant, PTL

\* What a client of the control plane is told holds: a failure means that nothing was
\* changed, whatever the transaction had written when it failed (docs/AUDIT.md:213,
\* database/tx.go:93).
THEOREM FailureSafe == GatewaySpec => []FailureMeansUnchanged
<1>1. GatewayInv => FailureMeansUnchanged
  BY DEF GatewayInv, ReqInv, RequestOK, Told, FailureMeansUnchanged
<1> QED BY <1>1, GatewayInvariant, PTL

=============================================================================
