------------------------------ MODULE ApiServer -------------------------------
(***************************************************************************)
(* The server half of api/api.gen.go: which operation a request reaches,   *)
(* what is read from the request before the middleware and the handler     *)
(* run, and what becomes of the response they return.  The tables follow   *)
(* the sections of the file.  The router is net/http's ServeMux.           *)
(***************************************************************************)
EXTENDS SequencesExt, Naturals, Tables

-------------------------------------------------------------------------------
(* Routing *)

Wildcards == {"{applicationId}", "{bindingId}", "{groupId}", "{machineId}",
              "{resourceType}", "{resourceId}", "{roleId}", "{unitId}"}

\* HandlerWithOptions: method and pattern of every operation, below the base URL.
Routes ==
  [GetHealth               |-> <<"GET", "health">>,
   ListPermissions         |-> <<"GET", "permissions">>,
   ListUsers               |-> <<"GET", "users">>,
   CreateUser              |-> <<"POST", "users">>,
   ListGroups              |-> <<"GET", "groups">>,
   CreateGroup             |-> <<"POST", "groups">>,
   RemoveGroupMember       |-> <<"DELETE", "groups", "{groupId}", "members">>,
   AddGroupMember          |-> <<"POST", "groups", "{groupId}", "members">>,
   ListRoles               |-> <<"GET", "roles">>,
   CreateRole              |-> <<"POST", "roles">>,
   GetRole                 |-> <<"GET", "roles", "{roleId}">>,
   UpdateRole              |-> <<"PUT", "roles", "{roleId}">>,
   PreviewRoleUpdate       |-> <<"POST", "roles", "{roleId}", "preview">>,
   ListBindings            |-> <<"GET", "bindings">>,
   CreateBinding           |-> <<"POST", "bindings">>,
   DeleteBinding           |-> <<"DELETE", "bindings", "{bindingId}">>,
   CheckAuthorization      |-> <<"POST", "authorize">>,
   CheckAuthorizationBatch |-> <<"POST", "authorize", "batch">>,
   GrantLegacyAccess       |-> <<"POST", "legacy", "grants">>,
   RevokeLegacyAccess      |-> <<"POST", "legacy", "revokes">>,
   ListResources           |-> <<"GET", "resources">>,
   CreateResource          |-> <<"POST", "resources">>,
   DeleteResource          |-> <<"DELETE", "resources", "{resourceType}", "{resourceId}">>,
   GetResource             |-> <<"GET", "resources", "{resourceType}", "{resourceId}">>,
   GetApplicationConfig    |-> <<"GET", "applications", "{applicationId}", "config">>,
   UpdateApplicationConfig |-> <<"PUT", "applications", "{applicationId}", "config">>,
   SSHUnit                 |-> <<"POST", "units", "{unitId}", "ssh">>,
   SSHMachine              |-> <<"POST", "machines", "{machineId}", "ssh">>]

Pattern(op) == <<"v1">> \o Tail(Routes[op])

\* A wildcard stands for one segment that is not empty.
Matches(pattern, path) ==
  /\ Len(pattern) = Len(path)
  /\ \A i \in DOMAIN path :
       pattern[i] = path[i] \/ (pattern[i] \in Wildcards /\ path[i] # "")

OnPath(path) == {op \in DOMAIN Routes : Matches(Pattern(op), path)}
Routed(request) == {op \in OnPath(request.path) : Head(Routes[op]) = request.method}

\* The mux answers a path with empty segments in it with a redirect to the path
\* without them: as a 307, or, in other versions of net/http, as a 301, which
\* the client follows with a GET.
Named(path) ==
  LET named[i \in 0..Len(path)] ==
        IF i = 0 THEN <<>>
        ELSE IF path[i] = "" THEN named[i - 1] ELSE Append(named[i - 1], path[i])
  IN  named

Clean(path) ==
  LET named == Named(path)[Len(path)]
  IN  IF Last(path) = "" THEN Append(named, "") ELSE named

Redirections(request) ==
  LET there == [request EXCEPT !.path = Clean(request.path)]
  IN  {there, [there EXCEPT !.method = "GET", !.body = "none"]}

-------------------------------------------------------------------------------
(* ServerInterfaceWrapper: the values bound from the path and the header *)

\* The wildcards that the wrapper of an operation binds, in order.
ApplicationParameters ==
  [GetApplicationConfig |-> <<"{applicationId}">>,
   UpdateApplicationConfig |-> <<"{applicationId}">>]
AuthorizationParameters == [CheckAuthorization |-> <<>>, CheckAuthorizationBatch |-> <<>>]
BindingParameters ==
  [ListBindings |-> <<>>, CreateBinding |-> <<>>, DeleteBinding |-> <<"{bindingId}">>]
GroupParameters == [ListGroups |-> <<>>, CreateGroup |-> <<>>]
MemberParameters ==
  [RemoveGroupMember |-> <<"{groupId}">>, AddGroupMember |-> <<"{groupId}">>]
HealthParameters == [GetHealth |-> <<>>]
LegacyParameters == [GrantLegacyAccess |-> <<>>, RevokeLegacyAccess |-> <<>>]
MachineParameters == [SSHMachine |-> <<"{machineId}">>]
PermissionParameters == [ListPermissions |-> <<>>]
ResourceParameters == [ListResources |-> <<>>, CreateResource |-> <<>>]
\* Faulty variant of OneResourceParameters: type and id in the wrong order.
OneResourceParametersSwapped ==
  [DeleteResource |-> <<"{resourceId}", "{resourceType}">>,
   GetResource |-> <<"{resourceId}", "{resourceType}">>]
OneResourceParameters ==
  [DeleteResource |-> <<"{resourceType}", "{resourceId}">>,
   GetResource |-> <<"{resourceType}", "{resourceId}">>]
RoleParameters == [ListRoles |-> <<>>, CreateRole |-> <<>>, GetRole |-> <<"{roleId}">>]
RoleUpdateParameters ==
  [UpdateRole |-> <<"{roleId}">>, PreviewRoleUpdate |-> <<"{roleId}">>]
UnitParameters == [SSHUnit |-> <<"{unitId}">>]
UserParameters == [ListUsers |-> <<>>, CreateUser |-> <<>>]

Parameters ==
  Joined({ApplicationParameters, AuthorizationParameters, BindingParameters,
          GroupParameters, MemberParameters, HealthParameters, LegacyParameters,
          MachineParameters, PermissionParameters, ResourceParameters,
          OneResourceParameters, RoleParameters, RoleUpdateParameters,
          UnitParameters, UserParameters})

\* r.PathValue of each of them.
PathValues(op, path) ==
  [k \in DOMAIN Parameters[op] |->
     path[CHOOSE i \in DOMAIN path : Pattern(op)[i] = Parameters[op][k]]]

\* If-Match is the one required header.  (A value is never empty: see Matches.)
NeedsIfMatch == {"UpdateRole", "PreviewRoleUpdate"}
Binds(op, request) == op \in NeedsIfMatch => request.ifMatch

-------------------------------------------------------------------------------
(* strictHandler: the operations whose handler decodes a JSON body first *)

ApplicationBodies == {"UpdateApplicationConfig"}
AuthorizationBodies == {"CheckAuthorization", "CheckAuthorizationBatch"}
BindingBodies == {"CreateBinding"}
GroupBodies == {"CreateGroup"}
MemberBodies == {"RemoveGroupMember", "AddGroupMember"}
LegacyBodies == {"GrantLegacyAccess", "RevokeLegacyAccess"}
ResourceBodies == {"CreateResource"}
RoleBodies == {"CreateRole", "UpdateRole", "PreviewRoleUpdate"}
UserBodies == {"CreateUser"}

TakesBody ==
  ApplicationBodies \cup AuthorizationBodies \cup BindingBodies \cup GroupBodies
  \cup MemberBodies \cup LegacyBodies \cup ResourceBodies \cup RoleBodies \cup UserBodies

Decodes(op, request) == op \in TakesBody => request.body = "json"

-------------------------------------------------------------------------------
(* Responses: the statuses that have a Visit<Operation>Response *)

ApplicationResponses ==
  [GetApplicationConfig |-> {200, 401, 403, 404, 503},
   UpdateApplicationConfig |-> {200, 400, 401, 403, 404, 503}]
AuthorizationResponses ==
  [CheckAuthorization |-> {200, 400, 401, 503},
   CheckAuthorizationBatch |-> {200, 400, 401, 503}]
BindingResponses ==
  [ListBindings |-> {200, 401, 403},
   CreateBinding |-> {201, 400, 401, 403, 404, 409},
   DeleteBinding |-> {204, 401, 403, 404}]
GroupResponses ==
  [ListGroups |-> {200, 401, 403},
   CreateGroup |-> {201, 400, 401, 403, 409}]
MemberResponses ==
  [RemoveGroupMember |-> {204, 400, 401, 403, 404},
   AddGroupMember |-> {204, 400, 401, 403, 404}]
HealthResponses ==
  [GetHealth |-> {200, 400, 503}]
LegacyResponses ==
  [GrantLegacyAccess |-> {200, 400, 401, 403, 404},
   RevokeLegacyAccess |-> {200, 400, 401, 403, 404}]
MachineResponses ==
  [SSHMachine |-> {200, 401, 403, 404, 503}]
PermissionResponses ==
  [ListPermissions |-> {200, 401}]
ResourceResponses ==
  [ListResources |-> {200, 401, 503},
   CreateResource |-> {201, 400, 401, 403, 404, 409, 503}]
OneResourceResponses ==
  [DeleteResource |-> {204, 401, 403, 404, 409, 503},
   GetResource |-> {200, 401, 403, 404, 503}]
RoleResponses ==
  [ListRoles |-> {200, 401, 403},
   CreateRole |-> {201, 400, 401, 403, 409},
   GetRole |-> {200, 401, 403, 404}]
RoleUpdateResponses ==
  [UpdateRole |-> {200, 400, 401, 403, 404, 409},
   PreviewRoleUpdate |-> {200, 400, 401, 403, 404, 409}]
UnitResponses ==
  [SSHUnit |-> {200, 401, 403, 404, 503}]
UserResponses ==
  [ListUsers |-> {200, 401, 403},
   CreateUser |-> {201, 400, 401, 403, 409}]

Visitors ==
  Joined({ApplicationResponses, AuthorizationResponses, BindingResponses,
          GroupResponses, MemberResponses, HealthResponses, LegacyResponses,
          MachineResponses, PermissionResponses, ResourceResponses,
          OneResourceResponses, RoleResponses, RoleUpdateResponses, UnitResponses,
          UserResponses})

\* A response object is of a type of one operation, for one status.
Response(op, status) == [of |-> op, status |-> status]
Nil == [of |-> "nil", status |-> 0]

Answer(status, body) == [status |-> status, body |-> body]
\* http.Error
Text(status) == Answer(status, "text")

\* The end of strictHandler.<Operation>: a response of the operation is written,
\* with JSON unless it is a 204; another one is an internal error; nil writes
\* nothing at all, which net/http completes to an empty 200.
Written(op, response) ==
  IF response = Nil THEN Answer(200, "none")
  ELSE IF response.of = op /\ response.status \in Visitors[op]
  THEN Answer(response.status, IF response.status = 204 THEN "none" ELSE "json")
  ELSE Text(500)
===============================================================================
