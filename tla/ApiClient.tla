------------------------------ MODULE ApiClient -------------------------------
(***************************************************************************)
(* The client half of api/api.gen.go: the request that each operation      *)
(* sends, and the answers that it decodes.  The tables follow the sections *)
(* of the file, where operations are sorted by path.                       *)
(*                                                                         *)
(* A path is the sequence of its segments below the server's root.  The    *)
(* values put into a path are escaped, so that a "/" in one does not split *)
(* the segment; a segment that is empty, "." or ".." is what it is.        *)
(***************************************************************************)
EXTENDS SequencesExt, Naturals, Tables

\* What New<Operation>Request fixes: the method, the template of the path, and
\* whether there is a body and an If-Match header.
Bare(method, path) == [method |-> method, path |-> path, body |-> FALSE, ifMatch |-> FALSE]
WithBody(method, path) == [Bare(method, path) EXCEPT !.body = TRUE]
Conditional(method, path) == [WithBody(method, path) EXCEPT !.ifMatch = TRUE]

ApplicationRequests ==
  [GetApplicationConfig |-> Bare("GET", <<"applications", "%s", "config">>),
   UpdateApplicationConfig |-> WithBody("PUT", <<"applications", "%s", "config">>)]
AuthorizationRequests ==
  [CheckAuthorization |-> WithBody("POST", <<"authorize">>),
   CheckAuthorizationBatch |-> WithBody("POST", <<"authorize", "batch">>)]
BindingRequests ==
  [ListBindings |-> Bare("GET", <<"bindings">>),
   CreateBinding |-> WithBody("POST", <<"bindings">>),
   DeleteBinding |-> Bare("DELETE", <<"bindings", "%s">>)]
GroupRequests ==
  [ListGroups |-> Bare("GET", <<"groups">>),
   CreateGroup |-> WithBody("POST", <<"groups">>)]
MemberRequests ==
  [RemoveGroupMember |-> WithBody("DELETE", <<"groups", "%s", "members">>),
   AddGroupMember |-> WithBody("POST", <<"groups", "%s", "members">>)]
HealthRequests ==
  [GetHealth |-> Bare("GET", <<"health">>)]
LegacyRequests ==
  [GrantLegacyAccess |-> WithBody("POST", <<"legacy", "grants">>),
   RevokeLegacyAccess |-> WithBody("POST", <<"legacy", "revokes">>)]
MachineRequests ==
  [SSHMachine |-> Bare("POST", <<"machines", "%s", "ssh">>)]
PermissionRequests ==
  [ListPermissions |-> Bare("GET", <<"permissions">>)]
ResourceRequests ==
  [ListResources |-> Bare("GET", <<"resources">>),
   CreateResource |-> WithBody("POST", <<"resources">>)]
OneResourceRequests ==
  [DeleteResource |-> Bare("DELETE", <<"resources", "%s", "%s">>),
   GetResource |-> Bare("GET", <<"resources", "%s", "%s">>)]
RoleRequests ==
  [ListRoles |-> Bare("GET", <<"roles">>),
   CreateRole |-> WithBody("POST", <<"roles">>),
   GetRole |-> Bare("GET", <<"roles", "%s">>)]
RoleUpdateRequests ==
  [UpdateRole |-> Conditional("PUT", <<"roles", "%s">>),
   PreviewRoleUpdate |-> Conditional("POST", <<"roles", "%s", "preview">>)]
UnitRequests ==
  [SSHUnit |-> Bare("POST", <<"units", "%s", "ssh">>)]
UserRequests ==
  [ListUsers |-> Bare("GET", <<"users">>),
   CreateUser |-> WithBody("POST", <<"users">>)]

Builders ==
  Joined({ApplicationRequests, AuthorizationRequests, BindingRequests, GroupRequests,
          MemberRequests, HealthRequests, LegacyRequests, MachineRequests,
          PermissionRequests, ResourceRequests, OneResourceRequests, RoleRequests,
          RoleUpdateRequests, UnitRequests, UserRequests})

Ops == DOMAIN Builders

\* How many values an operation takes in its path.
Arity(op) == Cardinality({i \in DOMAIN Builders[op].path : Builders[op].path[i] = "%s"})

-------------------------------------------------------------------------------
(* Building a request *)

\* The values go into the template in order, each styled and escaped.
OperationPath(template, args) ==
  [i \in DOMAIN template |->
     IF template[i] = "%s"
     THEN args[Cardinality({j \in 1..i : template[j] = "%s"})]
     ELSE template[i]]

\* url.Parse resolves the path, relative to the server's "/v1/": "." goes, ".."
\* takes its predecessor along, and either leaves a "/" at the end.
Enter(dir, segment) ==
  CASE segment = "."  -> dir
    [] segment = ".." -> IF dir = <<>> THEN dir ELSE Front(dir)
    [] OTHER          -> Append(dir, segment)

\* The directory after each segment, from the server's on.
Directories(path) ==
  LET dir[i \in 0..Len(path)] == IF i = 0 THEN <<"v1">> ELSE Enter(dir[i - 1], path[i])
  IN  dir

Resolve(path) ==
  LET dir == Directories(path)[Len(path)]
  IN  IF Last(path) \in {".", ".."} THEN Append(dir, "") ELSE dir

\* A call of the client: the values for the path; what is given as the body
\* (one built from the typed value is always JSON) and as the parameters that
\* hold If-Match, which may be nil; whether X-Demo-User is empty.
NewRequest(call) ==
  LET builder == Builders[call.op]
  IN  [method  |-> builder.method,
       path    |-> Resolve(OperationPath(builder.path, call.args)),
       body    |-> IF builder.body THEN call.body ELSE "none",
       ifMatch |-> builder.ifMatch /\ call.ifMatch,
       user    |-> call.user]

-------------------------------------------------------------------------------
(* Decoding an answer: the statuses with a case in Parse<Operation>ClientResponse *)

ApplicationReplies ==
  [GetApplicationConfig |-> {200, 401, 403, 404, 503},
   UpdateApplicationConfig |-> {200, 400, 401, 403, 404, 503}]
AuthorizationReplies ==
  [CheckAuthorization |-> {200, 400, 401, 503},
   CheckAuthorizationBatch |-> {200, 400, 401, 503}]
BindingReplies ==
  [ListBindings |-> {200, 401, 403},
   CreateBinding |-> {201, 400, 401, 403, 404, 409},
   DeleteBinding |-> {204, 401, 403, 404}]
GroupReplies ==
  [ListGroups |-> {200, 401, 403},
   CreateGroup |-> {201, 400, 401, 403, 409}]
MemberReplies ==
  [RemoveGroupMember |-> {204, 400, 401, 403, 404},
   AddGroupMember |-> {204, 400, 401, 403, 404}]
HealthReplies ==
  [GetHealth |-> {200, 400, 503}]
LegacyReplies ==
  [GrantLegacyAccess |-> {200, 400, 401, 403, 404},
   RevokeLegacyAccess |-> {200, 400, 401, 403, 404}]
MachineReplies ==
  [SSHMachine |-> {200, 401, 403, 404, 503}]
PermissionReplies ==
  [ListPermissions |-> {200, 401}]
ResourceReplies ==
  [ListResources |-> {200, 401, 503},
   CreateResource |-> {201, 400, 401, 403, 404, 409, 503}]
\* Faulty variant of OneResourceReplies: no case for the conflict.
OneResourceRepliesWithoutConflict ==
  [DeleteResource |-> {204, 401, 403, 404, 503},
   GetResource |-> {200, 401, 403, 404, 503}]
OneResourceReplies ==
  [DeleteResource |-> {204, 401, 403, 404, 409, 503},
   GetResource |-> {200, 401, 403, 404, 503}]
RoleReplies ==
  [ListRoles |-> {200, 401, 403},
   CreateRole |-> {201, 400, 401, 403, 409},
   GetRole |-> {200, 401, 403, 404}]
RoleUpdateReplies ==
  [UpdateRole |-> {200, 400, 401, 403, 404, 409},
   PreviewRoleUpdate |-> {200, 400, 401, 403, 404, 409}]
UnitReplies ==
  [SSHUnit |-> {200, 401, 403, 404, 503}]
UserReplies ==
  [ListUsers |-> {200, 401, 403},
   CreateUser |-> {201, 400, 401, 403, 409}]

Parsers ==
  Joined({ApplicationReplies, AuthorizationReplies, BindingReplies, GroupReplies,
          MemberReplies, HealthReplies, LegacyReplies, MachineReplies,
          PermissionReplies, ResourceReplies, OneResourceReplies, RoleReplies,
          RoleUpdateReplies, UnitReplies, UserReplies})

\* Whether the answer becomes a value of the operation's own.
Decoded(op, answer) == answer.body = "json" /\ answer.status \in Parsers[op]
===============================================================================
