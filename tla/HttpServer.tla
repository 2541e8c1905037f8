------------------------------ MODULE HttpServer ------------------------------
(***************************************************************************)
(* internal/httpapi/server.go: the middleware that names the caller, and   *)
(* for every operation the response it makes of what Service returns.      *)
(*                                                                         *)
(* The handlers' "body is required" is unreachable: strictHandler always   *)
(* sets Body, or has refused the request.                                  *)
(***************************************************************************)
EXTENDS ApiServer

\* The errors of Service, as far as httpapi can tell them apart: it compares
\* with ErrForbidden, ErrNotFound and ErrConflict.  The others are kept apart
\* as invalid input and as a database or an engine that failed.
Errors == {"forbidden", "not_found", "conflict", "invalid", "unavailable"}

\* A switch over the error: a status for each comparison, one for the rest.
\* 0 is a nil response.
Switch(forbidden, notFound, conflict, rest) ==
  [forbidden |-> forbidden, not_found |-> notFound, conflict |-> conflict,
   invalid |-> rest, unavailable |-> rest]
Always(status) == Switch(status, status, status, status)

listUsersError == Switch(403, 0, 0, 0)
createUserError == Switch(403, 400, 409, 400)
listGroupsError == Switch(403, 0, 0, 0)
createGroupError == Switch(403, 400, 409, 400)
addGroupMemberError == Switch(403, 404, 400, 400)
removeGroupMemberError == Switch(403, 404, 400, 400)
listRolesError == Switch(403, 0, 0, 0)
createRoleError == Switch(403, 400, 409, 400)
getRoleError == Switch(403, 404, 404, 404)
previewRoleError == Switch(403, 404, 409, 400)
\* Faulty variant of updateRoleError: whatever is not told apart is a conflict.
updateRoleErrorConflict == Switch(403, 404, 409, 409)
updateRoleError == Switch(403, 404, 409, 400)
listBindingsError == Switch(403, 0, 0, 0)
createBindingError == Switch(403, 404, 409, 400)
\* Faulty variant of deleteBindingError: the response list operations have.
deleteBindingErrorNil == Switch(403, 0, 0, 0)
deleteBindingError == Switch(403, 404, 404, 404)
grantLegacyError == Switch(403, 404, 400, 400)
revokeLegacyError == Switch(403, 404, 400, 400)
createResourceError == Switch(403, 404, 409, 400)
getResourceError == Switch(403, 404, 404, 404)
deleteResourceError == Switch(403, 404, 409, 404)
getConfigError == Switch(403, 404, 404, 404)
updateConfigError == Switch(403, 404, 404, 404)
sshUnitError == Switch(403, 404, 404, 404)
sshMachineError == Switch(403, 404, 404, 404)

-------------------------------------------------------------------------------
(* The handlers: the status of success, and what an error becomes *)

Handler(success, failure) == [success |-> success, failure |-> failure]

GetHealth == Handler(200, Always(503))
ListPermissions == Handler(200, Always(0))      \* calls nothing that fails
ListUsers == Handler(200, listUsersError)
CreateUser == Handler(201, createUserError)
ListGroups == Handler(200, listGroupsError)
CreateGroup == Handler(201, createGroupError)
AddGroupMember == Handler(204, addGroupMemberError)
RemoveGroupMember == Handler(204, removeGroupMemberError)
ListRoles == Handler(200, listRolesError)
CreateRole == Handler(201, createRoleError)
GetRole == Handler(200, getRoleError)
PreviewRoleUpdate == Handler(200, previewRoleError)
UpdateRole == Handler(200, updateRoleError)
ListBindings == Handler(200, listBindingsError)
CreateBinding == Handler(201, createBindingError)
DeleteBinding == Handler(204, deleteBindingError)
CheckAuthorization == Handler(200, Always(503))
CheckAuthorizationBatch == Handler(200, Always(503))
GrantLegacyAccess == Handler(200, grantLegacyError)
RevokeLegacyAccess == Handler(200, revokeLegacyError)
ListResources == Handler(200, Always(503))
CreateResource == Handler(201, createResourceError)
GetResource == Handler(200, getResourceError)
DeleteResource == Handler(204, deleteResourceError)
GetApplicationConfig == Handler(200, getConfigError)
UpdateApplicationConfig == Handler(200, updateConfigError)
SSHUnit == Handler(200, sshUnitError)
SSHMachine == Handler(200, sshMachineError)

Implementation ==
  [GetHealth |-> GetHealth, ListPermissions |-> ListPermissions,
   ListUsers |-> ListUsers, CreateUser |-> CreateUser,
   ListGroups |-> ListGroups, CreateGroup |-> CreateGroup,
   AddGroupMember |-> AddGroupMember, RemoveGroupMember |-> RemoveGroupMember,
   ListRoles |-> ListRoles, CreateRole |-> CreateRole, GetRole |-> GetRole,
   PreviewRoleUpdate |-> PreviewRoleUpdate, UpdateRole |-> UpdateRole,
   ListBindings |-> ListBindings, CreateBinding |-> CreateBinding,
   DeleteBinding |-> DeleteBinding, CheckAuthorization |-> CheckAuthorization,
   CheckAuthorizationBatch |-> CheckAuthorizationBatch,
   GrantLegacyAccess |-> GrantLegacyAccess, RevokeLegacyAccess |-> RevokeLegacyAccess,
   ListResources |-> ListResources, CreateResource |-> CreateResource,
   GetResource |-> GetResource, DeleteResource |-> DeleteResource,
   GetApplicationConfig |-> GetApplicationConfig,
   UpdateApplicationConfig |-> UpdateApplicationConfig,
   SSHUnit |-> SSHUnit, SSHMachine |-> SSHMachine]

\* result is "ok" or an error.
Handled(op, result) ==
  LET handler == Implementation[op]
      status == IF result = "ok" THEN handler.success ELSE handler.failure[result]
  IN  IF status = 0 THEN Nil ELSE Response(op, status)

-------------------------------------------------------------------------------
(* DemoIdentityMiddleware *)

\* The cases of unauthorized; the type of what it returns is not checked by the
\* compiler.
Refusable == {
  "ListPermissions", "ListUsers", "CreateUser", "ListGroups", "CreateGroup",
  "AddGroupMember", "RemoveGroupMember", "ListRoles", "CreateRole", "GetRole",
  "UpdateRole", "PreviewRoleUpdate", "ListBindings", "CreateBinding", "DeleteBinding",
  "CheckAuthorization", "CheckAuthorizationBatch", "GrantLegacyAccess",
  "RevokeLegacyAccess", "ListResources", "CreateResource", "GetResource",
  "DeleteResource", "GetApplicationConfig", "UpdateApplicationConfig", "SSHUnit",
  "SSHMachine"}

\* Faulty variant of unauthorized: a case is missing.
unauthorizedButForBatch(op) ==
  IF op \in Refusable \ {"CheckAuthorizationBatch"} THEN Response(op, 401) ELSE Nil
unauthorized(op) == IF op \in Refusable THEN Response(op, 401) ELSE Nil

\* Whether the middleware passes a request on.
Admits(op, user) == op = "GetHealth" \/ user # ""
===============================================================================
