------------------------------- MODULE Routes -------------------------------
(***************************************************************************)
(* The HTTP surface: one record per handler, saying what the handler asks  *)
(* of a request before it acts, what it acts on, the audit events it       *)
(* emits and the answer of a success.  Gateway runs these records.         *)
(*                                                                         *)
(*   seam    "read"    one call on the provider of the workspace           *)
(*           "write"   the same, behind the write guard of the connection  *)
(*           "store"   one read of the control plane's own tables          *)
(*           "tx"      one transaction over those tables and the trail     *)
(*           "console" one call on the installation's realm (/admin)       *)
(*           "settings" the same, by the handlers that bypass the service  *)
(*   ids     the refusals its path parameters can earn, in order           *)
(*   body    it decodes a request body, and refuses one it cannot read     *)
(*   guard   it refuses a project naming a protected role                  *)
(*   events  what it hands to audit.Record, once per entry                 *)
(*   drops   whose cached admin verdict it invalidates on success          *)
(*   after   it reads once more after a success, and that read may fail    *)
(***************************************************************************)
EXTENDS Naturals, Sequences

Plain == [name |-> "", seam |-> "read", ids |-> {}, body |-> FALSE, guard |-> FALSE,
          mutates |-> FALSE, events |-> <<>>, drops |-> "nobody", after |-> FALSE, ok |-> 200]

Reader(name, ids) == [Plain EXCEPT !.name = name, !.ids = ids]

Writer(name, ids, events, ok) ==
    [Plain EXCEPT !.name = name, !.seam = "write", !.ids = ids, !.mutates = TRUE,
                  !.events = events, !.ok = ok]

Stored(name) == [Plain EXCEPT !.name = name, !.seam = "store"]

Transaction(name, event, ok) ==
    [Plain EXCEPT !.name = name, !.seam = "tx", !.mutates = TRUE, !.events = <<event>>, !.ok = ok]

Console(name, events, ok) ==
    [Plain EXCEPT !.name = name, !.seam = "console", !.mutates = events # <<>>,
                  !.events = events, !.ok = ok]

Setting(name, mutates, ok) ==
    [Plain EXCEPT !.name = name, !.seam = "settings", !.mutates = mutates, !.ok = ok]

WithBody(route) == [route EXCEPT !.body = TRUE]

Guarded(route) == [route EXCEPT !.guard = TRUE]

Dropping(whom, route) == [route EXCEPT !.drops = whom]

ThenCounts(route) == [route EXCEPT !.after = TRUE]

\* pathUserID, pathRoleName, pathSessionID answer 400; pathInvitationID answers 404.
UserId == {400}
RoleName == {400}
SessionId == {400}
InvitationId == {404}

-----------------------------------------------------------------------------
(* /v1, workspace identity: internal/identityruntime                        *)

ListUsers == Reader("ListUsers", {})
GetUser == Reader("GetUser", UserId)
CreateUser == WithBody(Writer("CreateUser", {}, <<"user.created">>, 201))
UpdateUser == WithBody(Writer("UpdateUser", UserId, <<"user.updated">>, 200))
DeleteUser == Writer("DeleteUser", UserId, <<"user.deleted">>, 204)

ListUserRoles == Reader("ListUserRoles", UserId)
AssignRolesToUser ==
    Guarded(WithBody(Writer("AssignRolesToUser", UserId, <<"user.roles_granted">>, 204)))
UnassignRoleFromUser ==
    Guarded(Writer("UnassignRoleFromUser", UserId \cup RoleName, <<"user.role_revoked">>, 204))

ResetUserPassword == Writer("ResetUserPassword", UserId, <<"user.password_reset">>, 202)
SetUserPassword == WithBody(Writer("SetUserPassword", UserId, <<"user.password_reset">>, 204))

ListUserSessions == Reader("ListUserSessions", UserId)
LogoutUserSessions == Writer("LogoutUserSessions", UserId, <<"user.sessions_logged_out">>, 204)
ListSessions == Reader("ListSessions", {})
DeleteSession == Writer("DeleteSession", SessionId, <<"session.revoked">>, 204)

ListRoles == Reader("ListRoles", {})
GetRole == Reader("GetRole", RoleName)
ListRoleUsers == Reader("ListRoleUsers", RoleName)
CreateRole == WithBody(Writer("CreateRole", {}, <<"role.created">>, 201))
UpdateRole == WithBody(Writer("UpdateRole", RoleName, <<"role.updated">>, 200))
DeleteRole == Writer("DeleteRole", RoleName, <<"role.deleted">>, 204)

ListInvitations == Reader("ListInvitations", {})
CreateInvitation ==
    WithBody(Writer("CreateInvitation", {}, <<"invitation.created", "user.created">>, 201))
ResendInvitation == Writer("ResendInvitation", InvitationId, <<"invitation.resent">>, 200)
DeleteInvitation == Writer("DeleteInvitation", InvitationId, <<"invitation.revoked">>, 204)

IdentityRoutes ==
    {ListUsers, GetUser, CreateUser, UpdateUser, DeleteUser, ListUserRoles, AssignRolesToUser,
     UnassignRoleFromUser, ResetUserPassword, SetUserPassword, ListUserSessions,
     LogoutUserSessions, ListSessions, DeleteSession, ListRoles, GetRole, ListRoleUsers,
     CreateRole, UpdateRole, DeleteRole, ListInvitations, CreateInvitation, ResendInvitation,
     DeleteInvitation}

-----------------------------------------------------------------------------
(* /v1, control plane: internal/workspace, connection, project, auditlog    *)

ListWorkspaces == Stored("ListWorkspaces")
GetWorkspace == Stored("GetWorkspace")
CreateWorkspace == WithBody(Transaction("CreateWorkspace", "workspace.created", 201))
UpdateWorkspace == WithBody(Transaction("UpdateWorkspace", "workspace.renamed", 200))
ArchiveWorkspace == Transaction("ArchiveWorkspace", "workspace.archived", 200)

ListConnections == Stored("ListConnections")
GetConnection == Stored("GetConnection")
CreateConnection == WithBody(Transaction("CreateConnection", "connection.created", 201))
UpdateConnection == WithBody(Transaction("UpdateConnection", "connection.updated", 200))
DeleteConnection == Transaction("DeleteConnection", "connection.deleted", 204)
VerifyConnection == Transaction("VerifyConnection", "connection.verified", 200)
ActivateConnection == Transaction("ActivateConnection", "connection.activated", 200)
RetireConnection == Transaction("RetireConnection", "connection.retired", 200)

ProjectScopes == [Stored("ProjectScopes") EXCEPT !.seam = "static"]
ListProjects == Stored("ListProjects")
GetProject == ThenCounts(Stored("GetProject"))
CreateProject == WithBody(Transaction("CreateProject", "project.created", 201))
UpdateProject == ThenCounts(WithBody(Transaction("UpdateProject", "project.renamed", 200)))
ArchiveProject == Transaction("ArchiveProject", "project.archived", 200)
ListCredentials == Stored("ListCredentials")
CreateCredential == WithBody(Transaction("CreateCredential", "project_credential.created", 201))
RevokeCredential == Transaction("RevokeCredential", "project_credential.revoked", 200)

ListAuditEvents == Stored("ListAuditEvents")

ControlRoutes ==
    {ListWorkspaces, GetWorkspace, CreateWorkspace, UpdateWorkspace, ArchiveWorkspace,
     ListConnections, GetConnection, CreateConnection, UpdateConnection, DeleteConnection,
     VerifyConnection, ActivateConnection, RetireConnection, ProjectScopes, ListProjects,
     GetProject, CreateProject, UpdateProject, ArchiveProject, ListCredentials,
     CreateCredential, RevokeCredential, ListAuditEvents}

V1Routes == IdentityRoutes \cup ControlRoutes

-----------------------------------------------------------------------------
(* /admin: internal/identity, and the two settings handlers of server       *)

AdminListUsers == Console("AdminListUsers", <<>>, 200)
AdminGetUser == Console("AdminGetUser", <<>>, 200)
AdminListUserRoles == Console("AdminListUserRoles", <<>>, 200)
AdminListUserSessions == Console("AdminListUserSessions", <<>>, 200)
AdminListRoles == Console("AdminListRoles", <<>>, 200)
AdminGetRole == Console("AdminGetRole", <<>>, 200)
AdminListRoleUsers == Console("AdminListRoleUsers", <<>>, 200)
AdminListSessions == Console("AdminListSessions", <<>>, 200)
AdminListInvitations == Console("AdminListInvitations", <<>>, 200)
AdminCreateRole == WithBody(Console("AdminCreateRole", <<"role.created">>, 201))
AdminCreateInvitation ==
    WithBody(Console("AdminCreateInvitation", <<"invitation.created", "user.created">>, 201))
AdminUpdateUser ==
    Dropping("target", WithBody(Console("AdminUpdateUser", <<"user.updated">>, 200)))
AdminUpdateRole == WithBody(Console("AdminUpdateRole", <<"role.updated">>, 200))
AdminAssignRoles ==
    Dropping("target", WithBody(Console("AdminAssignRoles", <<"user.roles_granted">>, 204)))
AdminResetPassword == Console("AdminResetPassword", <<"user.password_reset">>, 204)
AdminSetPassword == WithBody(Console("AdminSetPassword", <<"user.password_reset">>, 204))
AdminResendInvitation == Console("AdminResendInvitation", <<"invitation.resent">>, 200)
AdminDeleteUser == Dropping("target", Console("AdminDeleteUser", <<"user.deleted">>, 204))
AdminUnassignRole ==
    Dropping("target", Console("AdminUnassignRole", <<"user.role_revoked">>, 204))
AdminLogoutUser == Console("AdminLogoutUser", <<"user.sessions_logged_out">>, 204)
AdminDeleteRole == Dropping("everyone", Console("AdminDeleteRole", <<"role.deleted">>, 204))
AdminDeleteSession == Console("AdminDeleteSession", <<"session.revoked">>, 204)
AdminDeleteInvitation ==
    Dropping("target", Console("AdminDeleteInvitation", <<"invitation.revoked">>, 204))
AdminListEvents == [Console("AdminListEvents", <<>>, 200) EXCEPT !.seam = "static"]

GetSMTP == Setting("GetSMTP", FALSE, 200)
UpdateSMTP == WithBody(Setting("UpdateSMTP", TRUE, 200))
TestSMTP == WithBody(Setting("TestSMTP", FALSE, 200))
CreateUserWithPassword == WithBody(Setting("CreateUserWithPassword", TRUE, 201))
GetEmailTemplates == Setting("GetEmailTemplates", FALSE, 200)
UpdateEmailTemplate ==
    [WithBody(Setting("UpdateEmailTemplate", TRUE, 200)) EXCEPT !.ids = {400}]
ResetEmailTemplate == [Setting("ResetEmailTemplate", TRUE, 200) EXCEPT !.ids = {400}]

AdminRoutes ==
    {AdminListUsers, AdminGetUser, AdminListUserRoles, AdminListUserSessions, AdminListRoles,
     AdminGetRole, AdminListRoleUsers, AdminListSessions, AdminListInvitations,
     AdminCreateRole, AdminCreateInvitation, AdminUpdateUser, AdminUpdateRole,
     AdminAssignRoles, AdminResetPassword, AdminSetPassword, AdminResendInvitation,
     AdminDeleteUser, AdminUnassignRole, AdminLogoutUser, AdminDeleteRole,
     AdminDeleteSession, AdminDeleteInvitation, AdminListEvents, GetSMTP, UpdateSMTP,
     TestSMTP, CreateUserWithPassword, GetEmailTemplates, UpdateEmailTemplate,
     ResetEmailTemplate}

-----------------------------------------------------------------------------
(* What a caller must hold: internal/authz/registry.go                      *)

AllScopes == {"users:read", "users:write", "roles:read", "roles:write", "sessions:read",
              "sessions:revoke", "invitations:read", "invitations:write", "audit:read"}

ScopeRoutes(s) ==
    CASE s = "users:read" -> {"ListUsers", "GetUser"}
      [] s = "users:write" -> {"CreateUser", "UpdateUser", "DeleteUser", "ResetUserPassword"}
      [] s = "roles:read" -> {"ListUserRoles", "ListRoles", "GetRole", "ListRoleUsers"}
      [] s = "roles:write" -> {"AssignRolesToUser", "UnassignRoleFromUser", "CreateRole",
                               "UpdateRole", "DeleteRole"}
      [] s = "sessions:read" -> {"ListUserSessions", "ListSessions"}
      [] s = "sessions:revoke" -> {"LogoutUserSessions", "DeleteSession"}
      [] s = "invitations:read" -> {"ListInvitations"}
      [] s = "invitations:write" -> {"CreateInvitation", "DeleteInvitation",
                                     "ResendInvitation"}
      [] s = "audit:read" -> {"ListAuditEvents"}

\* Every route no scope grants is classified operatorOnly.
OperatorOnly(route) == \A s \in AllScopes : route.name \notin ScopeRoutes(s)

HasScope(granted, route) == \E s \in granted : route.name \in ScopeRoutes(s)

ReadScopes == {"users:read", "roles:read", "sessions:read", "invitations:read", "audit:read"}

=============================================================================
