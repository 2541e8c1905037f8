------------------------------- MODULE Outcomes -------------------------------
(***************************************************************************)
(* What a caller of internal/service/service.go can see of it: for every   *)
(* operation, whether it changes state, the errors it may return with      *)
(* nothing changed, and those it may return after its change was made.     *)
(* PermissionService has the same operations step by step; here their      *)
(* checks and their data are left to chance.                               *)
(***************************************************************************)
EXTENDS HttpServer

Reads(errors) == [writes |-> FALSE, before |-> errors, after |-> {}]
Writes(before, after) == [writes |-> TRUE, before |-> before, after |-> after]

\* require on the controller, which is there; on another resource, which may
\* be gone, or not be named at all.
Denied == {"forbidden", "unavailable"}
DeniedOn == Denied \cup {"not_found"}

\* The errors of Sync, which only runs after a change: a query or OpenFGA fails,
\* a binding or its role has gone (ListBindings), a binding has no tuples.
SyncFails == {"unavailable", "not_found", "invalid"}

CheckOutcomes ==
  [GetHealth |-> Reads({"unavailable"}),
   CheckAuthorization |-> Reads({"invalid", "not_found", "unavailable"}),
   CheckAuthorizationBatch |-> Reads({"invalid", "not_found", "unavailable"})]
UserOutcomes ==
  [ListUsers |-> Reads(Denied),
   CreateUser |-> Writes(Denied \cup {"invalid", "conflict"}, {})]
GroupOutcomes ==
  [ListGroups |-> Reads(Denied),
   CreateGroup |-> Writes(Denied \cup {"invalid", "conflict"}, {}),
   AddGroupMember |-> Writes(DeniedOn, SyncFails),
   RemoveGroupMember |-> Writes(DeniedOn, SyncFails)]
RoleOutcomes ==
  [ListRoles |-> Reads(Denied),
   GetRole |-> Reads(DeniedOn),
   CreateRole |-> Writes(Denied \cup {"invalid", "conflict"}, {"unavailable"}),
   PreviewRoleUpdate |-> Reads(Errors),
   UpdateRole |-> Writes(Errors, SyncFails)]
BindingOutcomes ==
  [ListBindings |-> Reads(DeniedOn),
   CreateBinding |-> Writes(Errors, SyncFails),
   DeleteBinding |-> Writes(DeniedOn \cup {"invalid"}, SyncFails)]
LegacyOutcomes ==
  [GrantLegacyAccess |-> Writes(DeniedOn \cup {"invalid"}, SyncFails),
   RevokeLegacyAccess |-> Writes(DeniedOn \cup {"invalid"}, SyncFails)]
ResourceOutcomes ==
  [ListResources |-> Reads({"unavailable", "not_found"}),
   GetResource |-> Reads(DeniedOn),
   CreateResource |-> Writes(Errors, SyncFails),
   DeleteResource |-> Writes(DeniedOn \cup {"conflict"}, SyncFails)]
ApplicationOutcomes ==
  [GetApplicationConfig |-> Reads(DeniedOn),
   UpdateApplicationConfig |-> Writes(DeniedOn, {}),
   SSHUnit |-> Reads(DeniedOn),
   SSHMachine |-> Reads(DeniedOn)]
\* ListPermissions asks the catalogue, not the service.
CatalogOutcomes == [ListPermissions |-> Reads({})]

Service ==
  [GetHealth |-> CheckOutcomes.GetHealth,
   CheckAuthorization |-> CheckOutcomes.CheckAuthorization,
   CheckAuthorizationBatch |-> CheckOutcomes.CheckAuthorizationBatch,
   ListUsers |-> UserOutcomes.ListUsers, CreateUser |-> UserOutcomes.CreateUser,
   ListGroups |-> GroupOutcomes.ListGroups, CreateGroup |-> GroupOutcomes.CreateGroup,
   AddGroupMember |-> GroupOutcomes.AddGroupMember,
   RemoveGroupMember |-> GroupOutcomes.RemoveGroupMember,
   ListRoles |-> RoleOutcomes.ListRoles, GetRole |-> RoleOutcomes.GetRole,
   CreateRole |-> RoleOutcomes.CreateRole,
   PreviewRoleUpdate |-> RoleOutcomes.PreviewRoleUpdate,
   UpdateRole |-> RoleOutcomes.UpdateRole,
   ListBindings |-> BindingOutcomes.ListBindings,
   CreateBinding |-> BindingOutcomes.CreateBinding,
   DeleteBinding |-> BindingOutcomes.DeleteBinding,
   GrantLegacyAccess |-> LegacyOutcomes.GrantLegacyAccess,
   RevokeLegacyAccess |-> LegacyOutcomes.RevokeLegacyAccess,
   ListResources |-> ResourceOutcomes.ListResources,
   GetResource |-> ResourceOutcomes.GetResource,
   CreateResource |-> ResourceOutcomes.CreateResource,
   DeleteResource |-> ResourceOutcomes.DeleteResource,
   GetApplicationConfig |-> ApplicationOutcomes.GetApplicationConfig,
   UpdateApplicationConfig |-> ApplicationOutcomes.UpdateApplicationConfig,
   SSHUnit |-> ApplicationOutcomes.SSHUnit,
   SSHMachine |-> ApplicationOutcomes.SSHMachine,
   ListPermissions |-> CatalogOutcomes.ListPermissions]

Mutations == {op \in DOMAIN Service : Service[op].writes}
===============================================================================
