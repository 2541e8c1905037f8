-------------------------- MODULE MCPermissionService -------------------------
(***************************************************************************)
(* Small instances of PermissionService.  The seed is that of store.seed   *)
(* with one resource of each kind the requests use and with the roles cut  *)
(* down to the permissions that the requests need and a few they do not.   *)
(***************************************************************************)
EXTENDS PermissionService, TLC

production == <<"model", "production">>
payments == <<"application", "payments">>

policyManage == <<"policy", "manage">>
modelRead == <<"model", "read">>
applicationRead == <<"application", "read">>

MCUserId == {"admin", "ann"}
MCGroupId == {"ops"}
MCRoleId == {"controller-superuser", "model-reader", "model-writer", "model-admin", "viewer"}
MCResourceName == {"production", "payments", "shop"}

MCSeedUsers == {"admin"}

BuiltIn(id, permissions) ==
  [id |-> id, builtIn |-> TRUE, revision |-> 1, permissions |-> permissions]

MCSeedRoles ==
  {BuiltIn("controller-superuser",
           {policyManage, <<"application", "create">>, <<"application", "delete">>,
            <<"model", "delete">>}),
   BuiltIn("model-reader", {modelRead}),
   BuiltIn("model-writer", {modelRead, <<"application", "create">>}),
   BuiltIn("model-admin", {modelRead, policyManage})}

MCSeedBindings ==
  {[id |-> "bootstrap-admin", subject |-> <<"user", "admin">>, role |-> "controller-superuser",
    scope |-> ControllerRef, match |-> "scope", resources |-> <<>>, compatibility |-> TRUE]}

SeedModel == [ref |-> production, name |-> "production", parent |-> ControllerRef]
SeedApplication == [ref |-> payments, name |-> "payments", parent |-> production]

-------------------------------------------------------------------------------
(* Requests *)

By(actor, r) == [actor |-> actor] @@ r

CreateAnn == By("admin", [op |-> "CreateUser", user |-> "ann"])
CreateOps == By("admin", [op |-> "CreateGroup", group |-> "ops"])
AddAnn == By("admin", [op |-> "AddGroupMember", group |-> "ops", user |-> "ann"])
RemoveAnn == By("admin", [op |-> "RemoveGroupMember", group |-> "ops", user |-> "ann"])
CreateViewer(permissions) ==
  By("admin", [op |-> "CreateRole", role |-> "viewer", permissions |-> permissions])
UpdateViewer(expected, permissions) ==
  By("admin", [op |-> "UpdateRole", role |-> "viewer", expected |-> expected,
               permissions |-> permissions])
Bind(subject, role, scope) ==
  By("admin", [op |-> "CreateBinding", subject |-> subject, role |-> role, scope |-> scope,
               match |-> "scope", resources |-> <<>>])
BindExactly(subject, role, scope, refs) ==
  By("admin", [op |-> "CreateBinding", subject |-> subject, role |-> role, scope |-> scope,
               match |-> "exact", resources |-> refs])
Unbind(id) == By("admin", [op |-> "DeleteBinding", binding |-> id])
Grant(actor, access) ==
  By(actor, [op |-> "GrantLegacy", user |-> "ann", model |-> "production", access |-> access])
Revoke(actor, access) ==
  By(actor, [op |-> "RevokeLegacy", user |-> "ann", model |-> "production", access |-> access])
CreateApplication(actor, name) ==
  By(actor, [op |-> "CreateResource", type |-> "application", name |-> name,
             parent |-> production])
Delete(actor, ref) == By(actor, [op |-> "DeleteResource", resource |-> ref])

PolicyRequests ==
  {CreateAnn, CreateOps, AddAnn, RemoveAnn,
   CreateViewer({modelRead}), UpdateViewer(1, {applicationRead}),
   UpdateViewer(1, {<<"model", "create">>}),
   Bind(<<"group", "ops">>, "viewer", production), Unbind("b1"),
   BindExactly(<<"user", "ann">>, "viewer", production, <<production, payments>>)}

PolicyBindingId == {"bootstrap-admin", "b1", "b2"}
ManyBindingId == {"bootstrap-admin", "b1", "b2", "b3"}
PolicyResourceId == {"production", "payments"}
PolicySeedResources == {SeedModel, SeedApplication}

GrantRequests ==
  {CreateAnn, Grant("admin", "read"), Grant("admin", "admin"), Grant("ann", "write"),
   Revoke("admin", "read"), Revoke("admin", "admin"), Revoke("ann", "write"),
   CreateApplication("ann", "shop"), CreateApplication("admin", "shop"),
   Delete("admin", payments), Delete("admin", production), Delete("admin", <<"application", "r1">>)}

GrantBindingId == {"bootstrap-admin", "b1", "b2"}
GrantResourceId == {"production", "payments", "r1", "r2"}

\* One of each request that is followed by a Sync.
ProgressRequests ==
  {CreateAnn, CreateOps, AddAnn, RemoveAnn, CreateViewer({modelRead}),
   UpdateViewer(1, {applicationRead}), Bind(<<"group", "ops">>, "viewer", production),
   Unbind("b1"), Grant("admin", "write"), Revoke("admin", "write"), Revoke("admin", "read"),
   CreateApplication("admin", "shop"), Delete("admin", payments)}

ProgressBindingId == {"bootstrap-admin", "b1", "b2"}
ProgressResourceId == {"production", "payments", "r1"}

\* Grants and revokes of one user's access to one model, by several clients.
GrantsOfAnn == {Grant("admin", "write"), Revoke("admin", "write"), Revoke("admin", "read")}
SeedAnn == {"admin", "ann"}
ModelOnly == {SeedModel}

\* The same while the seeded binding, which gives the right to make them and
\* which the next start inserts again, is deleted.
RacingRequests == GrantsOfAnn \cup {Unbind("bootstrap-admin")}

-------------------------------------------------------------------------------
(* The requests of the runs that end in a violation *)

JoinAndLeave == {CreateAnn, CreateOps, AddAnn, RemoveAnn}
BindMismatch == {BindExactly(<<"user", "ann">>, "viewer", production, <<production>>)}
SeedSsh == MCSeedRoles \cup
  {[id |-> "viewer", builtIn |-> FALSE, revision |-> 1, permissions |-> {<<"machine", "ssh">>}]}
RevokeRequests == {Grant("admin", "admin"), Revoke("admin", "admin"), Revoke("admin", "write")}
===============================================================================
