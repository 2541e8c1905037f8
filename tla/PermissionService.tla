--------------------------- MODULE PermissionService --------------------------
(***************************************************************************)
(* The permission service (internal/service/service.go) over its two       *)
(* stores: the SQLite tables, which hold the policy and the tuples last    *)
(* recorded as synchronized, and OpenFGA, which holds the tuples that      *)
(* decisions are made from.                                                *)
(*                                                                         *)
(* Every handler runs in a goroutine of its own; nothing but the single    *)
(* database connection serializes them.  One action is one call on SQLite  *)
(* or on OpenFGA.  Consecutive reads of rows that are written once and     *)
(* can then only disappear are one action: reading them at different times *)
(* has no outcome that reading them together has not.                      *)
(*                                                                         *)
(* Main is the start of the process, which seeds the database and runs     *)
(* Sync before it listens.                                                 *)
(***************************************************************************)
EXTENDS Store, FiniteSets

CONSTANTS
  Handlers,       \* how many requests are handled at the same time
  Main,           \* the startup of the server
  Requests,       \* the mutations that clients send
  UserId, GroupId, RoleId, ResourceName,  \* the names clients give to things
  BindingId, ResourceId,                  \* the uuids there are: the bound on creations
  SeedUsers, SeedRoles, SeedBindings, SeedResources,  \* what store.seed inserts
  Faults          \* which of "error", "lost-record", "crash" may happen

Ref == (Kinds \X ResourceId) \cup {ControllerRef}
Subject == ({"user"} \X UserId) \cup ({"group"} \X GroupId)
Access == {"read", "write", "admin"}

Role == [id : RoleId, builtIn : BOOLEAN, revision : Nat, permissions : SUBSET Permissions]
Binding == [id : BindingId, subject : Subject, role : RoleId, scope : Ref,
            match : {"scope", "exact"}, resources : Seq(Ref), compatibility : BOOLEAN]
Resource == [ref : Kinds \X ResourceId, name : ResourceName, parent : Ref]

\* The requests that change state.  Ill-typed ones are refused before they
\* read anything and are left out.
Request ==
  [op : {"CreateUser"}, actor : UserId, user : UserId]
  \cup [op : {"CreateGroup"}, actor : UserId, group : GroupId]
  \cup [op : {"AddGroupMember", "RemoveGroupMember"}, actor : UserId,
        group : GroupId, user : UserId]
  \cup [op : {"CreateRole"}, actor : UserId, role : RoleId, permissions : SUBSET Permissions]
  \cup [op : {"UpdateRole"}, actor : UserId, role : RoleId, expected : Nat,
        permissions : SUBSET Permissions]
  \cup [op : {"CreateBinding"}, actor : UserId, subject : Subject, role : RoleId,
        scope : Ref, match : {"scope", "exact"}, resources : Seq(Ref)]
  \cup [op : {"DeleteBinding"}, actor : UserId, binding : BindingId]
  \cup [op : {"GrantLegacy", "RevokeLegacy"}, actor : UserId, user : UserId,
        model : ResourceId, access : Access]
  \cup [op : {"CreateResource"}, actor : UserId, type : Kinds, name : ResourceName, parent : Ref]
  \cup [op : {"DeleteResource"}, actor : UserId, resource : Kinds \X ResourceId]

ASSUME RequestsAssumption == Requests \subseteq Request
ASSUME ProcessAssumption == Main \notin Handlers
ASSUME SeedAssumption ==
  /\ SeedUsers \subseteq UserId
  /\ SeedRoles \subseteq Role /\ SeedBindings \subseteq Binding
  /\ SeedResources \subseteq Resource
ASSUME SeedKeysAssumption ==
  /\ \A r, s \in SeedRoles : r.id = s.id => r = s
  /\ \A b, c \in SeedBindings : b.id = c.id => b = c
  /\ \A r, s \in SeedResources : r.ref = s.ref => r = s
ASSUME SeedCompatibilityAssumption ==
  \A b, c \in SeedBindings :
    /\ b.compatibility => b.scope = ControllerRef
    /\ (b.compatibility /\ c.compatibility /\ b.subject = c.subject) => b = c
ASSUME SeedSoundAssumption ==
  \A b \in SeedBindings : \E role \in SeedRoles :
    role.id = b.role /\ Projectable(b, role.permissions)
ASSUME SeedTreeAssumption ==
  \A row \in SeedResources :
    /\ row.parent[1] \in ParentRule(row.ref[1])
    /\ row.parent = ControllerRef \/ Exists(SeedResources, row.parent)
ASSUME CompatibilityRolesAssumption ==
  {"model-reader", "model-writer", "model-admin"} \subseteq {r.id : r \in SeedRoles}
ASSUME FaultsAssumption == Faults \subseteq {"error", "lost-record", "crash"}

Procs == Handlers \cup {Main}

VARIABLES
  users, groups, members, roles, bindings, resources,  \* the policy, in SQLite
  synced,      \* the table synced_tuples, in SQLite
  issued,      \* the ids used so far: those of the seed and the uuids generated
  fga,         \* the tuples in OpenFGA
  server,      \* whether the process is down, starting or serving
  pc,          \* the next call of each goroutine
  req,         \* the request a handler works on
  local        \* the other local variables of a goroutine

policyVars == <<users, groups, members, roles, bindings, resources, issued>>
stores == <<policyVars, synced, fga>>
vars == <<stores, server, pc, req, local>>

policy == [members |-> members, roles |-> roles, bindings |-> bindings,
           resources |-> resources]

\* on: where a permission is needed.  left: ids listed and not yet fetched.
\* rows: rows fetched and not yet used.  desired: the tuples collected so
\* far; repeated: whether the list of them has one twice.  current: the
\* tuples read from synced_tuples.
Blank == [on |-> {}, left |-> {}, rows |-> {},
          desired |-> {}, repeated |-> FALSE, current |-> {}]
NoRequest == [op |-> "none"]

Init ==
  /\ users = {} /\ groups = {} /\ members = {}
  /\ roles = {} /\ bindings = {} /\ resources = {}
  /\ issued = {b.id : b \in SeedBindings} \cup {r.ref[2] : r \in SeedResources}
  /\ synced = {} /\ fga = {}
  /\ server = "down"
  /\ pc = [p \in Procs |-> "idle"]
  /\ req = [p \in Procs |-> NoRequest]
  /\ local = [p \in Procs |-> Blank]

\* Goroutine p goes on to the given call, its local variables as given.
Goto(p, stage, vals) ==
  /\ pc' = [pc EXCEPT ![p] = stage]
  /\ local' = [local EXCEPT ![p] = vals]
  /\ UNCHANGED <<server, req>>

\* Goroutine p returns; the server is then in the given state.
Return(p, state) ==
  /\ pc' = [pc EXCEPT ![p] = "idle"]
  /\ req' = [req EXCEPT ![p] = NoRequest]
  /\ local' = [local EXCEPT ![p] = Blank]
  /\ server' = state

\* An error ends a request with an error response, and startup with log.Fatal.
Fail(p) ==
  /\ Return(p, IF p = Main THEN "down" ELSE server)
  /\ UNCHANGED stores

-------------------------------------------------------------------------------
(* The process *)

\* store.seed: rows that violate a key are ignored.  (The permissions of a
\* role that is there are inserted again; built-in roles are never changed,
\* so they are there too.)
Seed ==
  /\ users' = users \cup SeedUsers
  /\ roles' = roles \cup {r \in SeedRoles : RowsWithId(roles, r.id) = {}}
  /\ bindings' = bindings \cup
       {b \in SeedBindings : \A c \in bindings : c.id # b.id /\ ~SameKey(b, c)}
  /\ resources' = resources \cup
       {r \in SeedResources : \A c \in resources :
          c.ref # r.ref /\ <<c.ref[1], c.name>> # <<r.ref[1], r.name>>}
  /\ UNCHANGED <<groups, members, synced, issued, fga, req, local>>

\* Faulty variant of Start: the server listens before its Sync has ended.
StartListening ==
  /\ server = "down" /\ server' = "serving"
  /\ pc' = [pc EXCEPT ![Main] = "ListResources"]
  /\ Seed

\* main opens and seeds the database, which may be new or one that a crash
\* has left, and runs Sync.
Start ==
  /\ server = "down" /\ server' = "starting"
  /\ pc' = [pc EXCEPT ![Main] = "ListResources"]
  /\ Seed

\* The process ends at any point, killed or told to stop: main returns as
\* soon as the listener is closed and does not wait for handlers.
Crash ==
  /\ "crash" \in Faults
  /\ server # "down"
  /\ server' = "down"
  /\ pc' = [p \in Procs |-> "idle"]
  /\ req' = [p \in Procs |-> NoRequest]
  /\ local' = [p \in Procs |-> Blank]
  /\ UNCHANGED stores

\* A call of p fails: the client went away and its context is cancelled,
\* OpenFGA does not answer, SQLite reports an error.  "lost-record" is such a
\* failure between the write to OpenFGA and the record of it.
Abort(p) ==
  /\ pc[p] # "idle"
  /\ (IF pc[p] = "ReplaceSyncedTuples" THEN "lost-record" ELSE "error") \in Faults
  /\ Fail(p)

-------------------------------------------------------------------------------
(* Requests *)

Mints(r) == IF r.op \in {"CreateBinding", "GrantLegacy", "RevokeLegacy"} THEN BindingId
            ELSE IF r.op = "CreateResource" THEN ResourceId ELSE {}

\* The bound on uuids: a request that may need one is only sent while there
\* is one left for it whatever the other handlers do.
Room(r) ==
  Mints(r) # {} =>
    Cardinality(Mints(r) \ issued) > Cardinality({h \in Handlers : pc[h] # "idle"})

FirstCall(r) ==
  IF r.op \in {"CreateBinding", "CreateResource"} THEN "Validate" ELSE "Authorize"

Receive(h) ==
  /\ server = "serving"
  /\ pc[h] = "idle"
  /\ \E r \in Requests :
       /\ Room(r)
       /\ req' = [req EXCEPT ![h] = r]
       /\ pc' = [pc EXCEPT ![h] = FirstCall(r)]
  /\ UNCHANGED <<stores, server, local>>

-------------------------------------------------------------------------------
(* Authorization *)

\* The permission a request needs.
Needs(r) ==
  CASE r.op = "CreateResource" -> CreatePermission(r.type)
    [] r.op = "DeleteResource" -> DeletePermission(r.resource[1])
    [] OTHER -> <<"policy", "manage">>

\* Where it needs it: empty when a row the code looks up is missing.
NeedsOn(r) ==
  CASE r.op = "CreateBinding" -> ManagementScopes(resources, r.scope)
    [] r.op = "DeleteBinding" ->
         UNION {ManagementScopes(resources, b.scope) : b \in RowsWithId(bindings, r.binding)}
    [] r.op \in {"GrantLegacy", "RevokeLegacy"} -> {<<"model", r.model>>}
    [] r.op = "CreateResource" -> {r.parent}
    [] r.op = "DeleteResource" -> {r.resource}
    [] OTHER -> {ControllerRef}

\* The resource, of the kinds that have rows, must be there ...
Authorize(h) ==
  LET on == NeedsOn(req[h]) IN
  /\ pc[h] = "Authorize"
  /\ IF \E ref \in on : ref = ControllerRef \/ Exists(resources, ref)
     THEN Goto(h, "Check", [Blank EXCEPT !.on = on]) /\ UNCHANGED stores
     ELSE Fail(h)

AfterCheck(r) ==
  CASE r.op = "UpdateRole" -> "Preview"
    [] r.op \in {"GrantLegacy", "RevokeLegacy", "DeleteResource"} -> "Validate"
    [] OTHER -> "Commit"

\* ... and OpenFGA decides.
Check(h) ==
  LET r == req[h] IN
  /\ pc[h] = "Check"
  /\ IF \E ref \in local[h].on : Allows(fga, r.actor, Needs(r), ref)
     THEN Goto(h, AfterCheck(r), Blank) /\ UNCHANGED stores
     ELSE Fail(h)

-------------------------------------------------------------------------------
(* What each request checks before it writes *)

SubjectExists(subject) ==
  \/ subject[1] = "user" /\ subject[2] \in users
  \/ subject[1] = "group" /\ subject[2] \in groups

ValidBinding(r) ==
  /\ RowsWithId(roles, r.role) # {}
  /\ SubjectExists(r.subject)
  /\ r.scope[1] = "controller" \/ Exists(resources, r.scope)
  /\ IF r.match = "scope" THEN r.resources = <<>>
     ELSE /\ r.resources # <<>>
          /\ \A ref \in Listed(r) :
               Exists(resources, ref) /\ r.scope \in Lineage(resources, ref)

ValidParent(r) ==
  /\ r.parent[1] \in ParentRule(r.type)
  /\ r.parent[1] = "controller" \/ Exists(resources, r.parent)

ValidGrant(r) == r.user \in users /\ Exists(resources, <<"model", r.model>>)

\* Faulty variant of RevokedBindings: the level named is not compared.
RevokedWhateverLevel(r) == CompatibilityBindings(bindings, r.user, r.model)

\* RevokeLegacy reads the binding it is to change and remembers its id.
RevokedBindings(r) ==
  {b \in CompatibilityBindings(bindings, r.user, r.model) :
     b.role = CompatibilityRole(r.access)}

Valid(r) ==
  CASE r.op = "CreateBinding" -> ValidBinding(r)
    [] r.op = "CreateResource" -> ValidParent(r)
    [] r.op = "GrantLegacy" -> ValidGrant(r)
    [] r.op = "RevokeLegacy" -> RevokedBindings(r) # {}
    [] r.op = "DeleteResource" -> ~HasChildren(resources, r.resource)

\* Faulty variant of AfterValidate: a valid request is not authorized.
AfterValidateCommit(r) == "Commit"

AfterValidate(r) == IF FirstCall(r) = "Validate" THEN "Authorize" ELSE "Commit"

Validate(h) ==
  LET r == req[h]
      revoked == IF r.op = "RevokeLegacy" THEN {b.id : b \in RevokedBindings(r)} ELSE {}
  IN
  /\ pc[h] = "Validate"
  /\ IF Valid(r)
     THEN Goto(h, AfterValidate(r), [Blank EXCEPT !.left = revoked]) /\ UNCHANGED stores
     ELSE Fail(h)

\* PreviewRoleUpdate: the role may be changed from the expected revision (with
\* the two statements of GetRole in one; see RoleEditing) ...
Updatable(r) ==
  /\ r.permissions # {}
  /\ \E role \in RowsWithId(roles, r.role) : ~role.builtIn /\ role.revision = r.expected

PreviewRole(h) ==
  /\ pc[h] = "Preview"
  /\ IF Updatable(req[h])
     THEN /\ Goto(h, "PreviewBindings", [Blank EXCEPT !.left = {b.id : b \in bindings}])
          /\ UNCHANGED stores
     ELSE Fail(h)

\* Faulty variant of PreviewBindings: the bindings are counted, not tried.
PreviewWithoutBindings(h) ==
  /\ pc[h] = "PreviewBindings"
  /\ Goto(h, "Commit", Blank) /\ UNCHANGED stores

\* ... and every binding to it accepts the new permissions.
PreviewBindings(h) ==
  LET r == req[h]
      listed == {b \in bindings : b.id \in local[h].left}
  IN
  /\ pc[h] = "PreviewBindings"
  /\ IF /\ {b.id : b \in listed} = local[h].left
        /\ \A b \in listed : b.role = r.role => Projectable(b, r.permissions)
     THEN Goto(h, "Commit", Blank) /\ UNCHANGED stores
     ELSE Fail(h)

-------------------------------------------------------------------------------
(* The writes.  Each is one statement or one transaction on SQLite; a      *)
(* request whose write has no effect on the projection is then answered,   *)
(* the others go on to Sync.                                               *)

Committing(h, op) == pc[h] = "Commit" /\ req[h].op = op

\* Faulty variant of Respond: the response is written, the handler goes on.
RespondAndGoOn(h) ==
  /\ req' = [req EXCEPT ![h] = NoRequest]
  /\ UNCHANGED <<pc, local, server>>

Respond(h) == Return(h, server)

\* Faulty variant of Synchronize: the projection is left to the next request.
AnswerWithoutSync(h) == Respond(h)

Synchronize(h) == Goto(h, "ListResources", Blank)

CreateUser(h) ==
  /\ Committing(h, "CreateUser")
  /\ IF req[h].user \in users THEN Fail(h)
     ELSE /\ users' = users \cup {req[h].user}
          /\ Respond(h)
          /\ UNCHANGED <<groups, members, roles, bindings, resources, issued, synced, fga>>

CreateGroup(h) ==
  /\ Committing(h, "CreateGroup")
  /\ IF req[h].group \in groups THEN Fail(h)
     ELSE /\ groups' = groups \cup {req[h].group}
          /\ Respond(h)
          /\ UNCHANGED <<users, members, roles, bindings, resources, issued, synced, fga>>

CreateRole(h) ==
  LET r == req[h] IN
  /\ Committing(h, "CreateRole")
  /\ IF r.permissions = {} \/ RowsWithId(roles, r.role) # {} THEN Fail(h)
     ELSE /\ roles' = roles \cup {[id |-> r.role, builtIn |-> FALSE, revision |-> 1,
                                  permissions |-> r.permissions]}
          /\ Respond(h)
          /\ UNCHANGED <<users, groups, members, bindings, resources, issued, synced, fga>>

AddGroupMember(h) ==
  LET r == req[h] IN
  /\ Committing(h, "AddGroupMember")
  /\ IF r.group \in groups /\ r.user \in users
     THEN /\ members' = members \cup {<<r.group, r.user>>}
          /\ Synchronize(h)
          /\ UNCHANGED <<users, groups, roles, bindings, resources, issued, synced, fga>>
     ELSE Fail(h)

RemoveGroupMember(h) ==
  LET r == req[h] IN
  /\ Committing(h, "RemoveGroupMember")
  /\ IF <<r.group, r.user>> \in members
     THEN /\ members' = members \ {<<r.group, r.user>>}
          /\ Synchronize(h)
          /\ UNCHANGED <<users, groups, roles, bindings, resources, issued, synced, fga>>
     ELSE Fail(h)

\* Compare and swap on the revision, after the preview.
UpdateRole(h) ==
  LET r == req[h] IN
  /\ Committing(h, "UpdateRole")
  /\ IF Updatable(r)
     THEN /\ roles' = {IF role.id # r.role THEN role
                       ELSE [role EXCEPT !.revision = @ + 1, !.permissions = r.permissions] :
                         role \in roles}
          /\ Synchronize(h)
          /\ UNCHANGED <<users, groups, members, bindings, resources, issued, synced, fga>>
     ELSE Fail(h)

CreateBinding(h) ==
  LET r == req[h] IN
  /\ Committing(h, "CreateBinding")
  /\ \E id \in BindingId \ issued :
       LET new == [id |-> id, subject |-> r.subject, role |-> r.role, scope |-> r.scope,
                   match |-> r.match, resources |-> r.resources, compatibility |-> FALSE]
       IN IF \E b \in bindings : SameKey(b, new) THEN Fail(h)
          ELSE /\ bindings' = bindings \cup {new}
               /\ issued' = issued \cup {id}
               /\ Synchronize(h)
               /\ UNCHANGED <<users, groups, members, roles, resources, synced, fga>>

\* The delete of the row with one of the given ids.
RemoveBinding(h, ids) ==
  IF \E b \in bindings : b.id \in ids
  THEN /\ bindings' = {b \in bindings : b.id \notin ids}
       /\ Synchronize(h)
       /\ UNCHANGED <<users, groups, members, roles, resources, issued, synced, fga>>
  ELSE Fail(h)

DeleteBinding(h) ==
  Committing(h, "DeleteBinding") /\ RemoveBinding(h, {req[h].binding})

\* UpsertCompatibilityBinding: one transaction, which leaves in left the id
\* of the row it wrote, to be read again.
Upsert(h, user, role, model) ==
  /\ \/ \E b \in CompatibilityBindings(bindings, user, model) :
          /\ bindings' = (bindings \ {b}) \cup {[b EXCEPT !.role = role]}
          /\ issued' = issued
          /\ Goto(h, "GetUpserted", [Blank EXCEPT !.left = {b.id}])
     \/ /\ CompatibilityBindings(bindings, user, model) = {}
        /\ \E id \in BindingId \ issued :
             /\ bindings' = bindings \cup
                  {[id |-> id, subject |-> <<"user", user>>, role |-> role,
                    scope |-> <<"model", model>>, match |-> "scope", resources |-> <<>>,
                    compatibility |-> TRUE]}
             /\ issued' = issued \cup {id}
             /\ Goto(h, "GetUpserted", [Blank EXCEPT !.left = {id}])
  /\ UNCHANGED <<users, groups, members, roles, resources, synced, fga>>

GrantLegacy(h) ==
  LET r == req[h] IN
  /\ Committing(h, "GrantLegacy")
  /\ Upsert(h, r.user, CompatibilityRole(r.access), r.model)

\* The deletion is by the id read before, the downgrade by user and model.
RevokeLegacy(h) ==
  LET r == req[h] IN
  /\ Committing(h, "RevokeLegacy")
  /\ IF NextAccess(r.access) = "none" THEN RemoveBinding(h, local[h].left)
     ELSE Upsert(h, r.user, CompatibilityRole(NextAccess(r.access)), r.model)

\* Faulty variant of GetUpserted: it answers with the row, without Sync.
AnswerUpserted(h) == pc[h] = "GetUpserted" /\ Respond(h) /\ UNCHANGED stores

\* The row is read again after the commit; if it is gone the request fails
\* before Sync.
GetUpserted(h) ==
  /\ pc[h] = "GetUpserted"
  /\ IF \E b \in bindings : b.id \in local[h].left
     THEN Synchronize(h) /\ UNCHANGED stores
     ELSE Fail(h)

CreateResource(h) ==
  LET r == req[h] IN
  /\ Committing(h, "CreateResource")
  /\ IF \E row \in resources : row.ref[1] = r.type /\ row.name = r.name THEN Fail(h)
     ELSE \E id \in ResourceId \ issued :
            /\ resources' = resources \cup
                 {[ref |-> <<r.type, id>>, name |-> r.name, parent |-> r.parent]}
            /\ issued' = issued \cup {id}
            /\ Synchronize(h)
            /\ UNCHANGED <<users, groups, members, roles, bindings, synced, fga>>

DeleteResource(h) ==
  LET r == req[h] IN
  /\ Committing(h, "DeleteResource")
  /\ IF Exists(resources, r.resource)
     THEN /\ resources' = {row \in resources : row.ref # r.resource}
          /\ Synchronize(h)
          /\ UNCHANGED <<users, groups, members, roles, bindings, issued, synced, fga>>
     ELSE Fail(h)

-------------------------------------------------------------------------------
(* Service.Sync: collect the tuples the policy asks for, write to OpenFGA  *)
(* what distinguishes them from the tuples last recorded, record them.     *)

\* The references of all resources; each row is then fetched by itself.
ListResources(p) ==
  /\ pc[p] = "ListResources"
  /\ Goto(p, "GetResources", [Blank EXCEPT !.rows = resources])
  /\ UNCHANGED stores

\* A resource that is gone when it is fetched fails the Sync.
GetResources(p) ==
  /\ pc[p] = "GetResources"
  /\ IF local[p].rows \subseteq resources
     THEN /\ Goto(p, "ListMemberships", [Blank EXCEPT !.desired = ParentTuples(local[p].rows)])
          /\ UNCHANGED stores
     ELSE Fail(p)

\* Faulty variant of ListMemberships: they are not among the desired tuples.
ForgetMemberships(p) ==
  /\ pc[p] = "ListMemberships"
  /\ Goto(p, "ListBindings", local[p])
  /\ UNCHANGED stores

ListMemberships(p) ==
  /\ pc[p] = "ListMemberships"
  /\ Goto(p, "ListBindings", [local[p] EXCEPT !.desired = @ \cup MembershipTuples(members)])
  /\ UNCHANGED stores

ListBindings(p) ==
  /\ pc[p] = "ListBindings"
  /\ Goto(p, "Bindings", [local[p] EXCEPT !.left = {b.id : b \in bindings}])
  /\ UNCHANGED stores

\* Faulty variant of GetBinding: the loop does not advance.
GetSameBinding(p) ==
  /\ pc[p] = "Bindings"
  /\ \E id \in local[p].left :
       /\ Goto(p, "Bindings", [local[p] EXCEPT !.rows = @ \cup RowsWithId(bindings, id)])
       /\ UNCHANGED stores

\* Faulty variant of GetBinding: a binding that is gone is asked for again.
AwaitBinding(p) ==
  /\ pc[p] = "Bindings"
  /\ \E id \in local[p].left :
       /\ RowsWithId(bindings, id) # {}
       /\ Goto(p, "Bindings",
               [local[p] EXCEPT !.left = @ \ {id}, !.rows = @ \cup RowsWithId(bindings, id)])
       /\ UNCHANGED stores

\* The next binding listed is fetched, as it is by now.  Their order, that
\* of their uuids, is any order.
GetBinding(p) ==
  /\ pc[p] = "Bindings"
  /\ \E id \in local[p].left :
       IF RowsWithId(bindings, id) = {} THEN Fail(p)
       ELSE /\ Goto(p, "Bindings",
                    [local[p] EXCEPT !.left = @ \ {id}, !.rows = @ \cup RowsWithId(bindings, id)])
            /\ UNCHANGED stores

\* The next binding fetched becomes tuples, with the permissions its role
\* has by now.
CompileBinding(p) ==
  /\ pc[p] = "Bindings" /\ local[p].left = {}
  /\ \E b \in local[p].rows :
       IF \E role \in RowsWithId(roles, b.role) : Projectable(b, role.permissions)
       THEN /\ \E role \in RowsWithId(roles, b.role) :
                 Goto(p, "Bindings",
                      [local[p] EXCEPT !.rows = @ \ {b},
                                       !.desired = @ \cup BindingTuples(b, role),
                                       !.repeated = @ \/ Repeats(b, role.permissions)])
            /\ UNCHANGED stores
       ELSE Fail(p)

\* Faulty variant of ListSyncedTuples: the record is made before the write.
RecordFirst(p) ==
  /\ pc[p] = "Bindings" /\ local[p].left = {} /\ local[p].rows = {}
  /\ Goto(p, "Write", [local[p] EXCEPT !.current = synced])
  /\ synced' = local[p].desired
  /\ UNCHANGED <<policyVars, fga>>

ListSyncedTuples(p) ==
  /\ pc[p] = "Bindings" /\ local[p].left = {} /\ local[p].rows = {}
  /\ Goto(p, "Write", [local[p] EXCEPT !.current = synced])
  /\ UNCHANGED stores

\* Faulty variants of Applied: deletes are forgotten; the error of a write is.
AppliedWrites(tuples, writes, deletes) == tuples \cup writes
AppliedNothing(tuples, writes, deletes) == tuples

\* What a transaction does: OpenFGA ignores writes of tuples it has and
\* deletes of tuples it has not.
Applied(tuples, writes, deletes) == (tuples \cup writes) \ deletes

\* tupleDiff and Engine.Write.  OpenFGA refuses a transaction with a tuple
\* its model has no place for.
Write(p) ==
  LET writes == local[p].desired \ local[p].current
      deletes == local[p].current \ local[p].desired
  IN
  /\ pc[p] = "Write"
  /\ IF \A t \in writes : Accepted(t)
     THEN /\ fga' = Applied(fga, writes, deletes)
          /\ Goto(p, "ReplaceSyncedTuples", local[p])
          /\ UNCHANGED <<policyVars, synced>>
     ELSE Fail(p)

\* One transaction, which the key of the table fails if a tuple is repeated.
ReplaceSyncedTuples(p) ==
  /\ pc[p] = "ReplaceSyncedTuples"
  /\ IF local[p].repeated THEN Fail(p)
     ELSE /\ synced' = local[p].desired
          /\ Return(p, IF p = Main THEN "serving" ELSE server)
          /\ UNCHANGED <<policyVars, fga>>

-------------------------------------------------------------------------------

Sync(p) ==
  \/ ListResources(p) \/ GetResources(p) \/ ListMemberships(p) \/ ListBindings(p)
  \/ GetBinding(p) \/ CompileBinding(p) \/ ListSyncedTuples(p)
  \/ Write(p) \/ ReplaceSyncedTuples(p)

Handle(h) ==
  \/ Authorize(h) \/ Check(h) \/ Validate(h) \/ PreviewRole(h) \/ PreviewBindings(h)
  \/ CreateUser(h) \/ CreateGroup(h) \/ CreateRole(h)
  \/ AddGroupMember(h) \/ RemoveGroupMember(h) \/ UpdateRole(h)
  \/ CreateBinding(h) \/ DeleteBinding(h)
  \/ GrantLegacy(h) \/ RevokeLegacy(h) \/ GetUpserted(h)
  \/ CreateResource(h) \/ DeleteResource(h)

Next ==
  \/ Start \/ Crash
  \/ \E h \in Handlers : Receive(h) \/ Handle(h)
  \/ \E p \in Procs : Sync(p) \/ Abort(p)

Spec == Init /\ [][Next]_vars

\* The Go scheduler runs every goroutine that can run, the database lets
\* every connection request through in turn, OpenFGA answers; a process that
\* has ended is started again.
FairSpec ==
  /\ Spec
  /\ WF_vars(Start)
  /\ \A h \in Handlers : WF_vars(Handle(h))
  /\ \A p \in Procs : WF_vars(Sync(p))

-------------------------------------------------------------------------------
(* Types *)

\* "model:production", "grant:b1#subject", "unit_read": see Translation.
OpenFGATypes == {"user", "group", "grant", "controller", "model", "application", "unit",
                 "machine", "cloud_credential"}
UserTypes == OpenFGATypes \cup {"group#member", "grant#subject"}
Relations ==
  {"", "policy", "model", "application", "unit", "machine", "cloud_credential"}
    \X {"read", "create", "delete", "manage", "config_read", "config_write", "ssh",
        "parent", "member", "subject"}
Id == UserId \cup GroupId \cup BindingId \cup ResourceId \cup {"juju"}
TupleType == [user : UserTypes \X Id, relation : Relations, object : OpenFGATypes \X Id]

Locals == [on : SUBSET Ref, left : SUBSET BindingId, rows : SUBSET (Binding \cup Resource),
           desired : SUBSET TupleType, repeated : BOOLEAN, current : SUBSET TupleType]

\* The rows that a goroutine holds: ListResources lists resources, GetBinding
\* fetches bindings.
RowsAt(call) == IF call = "GetResources" THEN Resource ELSE Binding

Calls == {"idle", "Authorize", "Check", "Validate", "Preview", "PreviewBindings", "Commit",
          "GetUpserted", "ListResources", "GetResources", "ListMemberships", "ListBindings", "Bindings",
          "Write", "ReplaceSyncedTuples"}

StoresOK ==
  /\ users \subseteq UserId
  /\ groups \subseteq GroupId
  /\ members \subseteq GroupId \X UserId
  /\ roles \subseteq Role
  /\ bindings \subseteq Binding
  /\ resources \subseteq Resource
  /\ issued \subseteq BindingId \cup ResourceId
  /\ synced \subseteq TupleType
  /\ fga \subseteq TupleType

ProcessesOK ==
  /\ server \in {"down", "starting", "serving"}
  /\ pc \in [Procs -> Calls]
  /\ req \in [Procs -> Requests \cup {NoRequest}]
  /\ local \in [Procs -> Locals]
  /\ \A p \in Procs : local[p].rows \subseteq RowsAt(pc[p])
  /\ req[Main] = NoRequest
  /\ pc[Main] # "idle" => server = "starting"
  /\ \A h \in Handlers : pc[h] # "idle" => req[h] \in Requests /\ server = "serving"

\* The tables hold rows of their types, OpenFGA and synced_tuples hold
\* tuples, a busy handler has a request, and startup and handlers never
\* run at the same time.
TypeOK == StoresOK /\ ProcessesOK

-------------------------------------------------------------------------------
(* The projection of the policy in OpenFGA *)

Projected == Sound(policy) /\ fga = Project(policy)

Idle == \A p \in Procs : pc[p] = "idle"

\* Handler h writes its change to the policy in this step.
Commits(h, op) == Committing(h, op) /\ pc'[h] # "Commit" /\ policyVars' # policyVars

\* Synchronizing p succeeds in this step.
Succeeds(p) == ReplaceSyncedTuples(p) /\ ~local[p].repeated

\* With one handler, what OpenFGA holds is at every moment either what was
\* last recorded or the projection of the present policy: no failure or
\* restart leaves it with part of one and part of the other.
Exact == fga = synced \/ Projected

\* With one handler, OpenFGA's tuples change only by moving, in one step, to
\* the projection of the policy of that moment.
P == INSTANCE Projection WITH authority <- fga
Implements == P!Spec

\* With one handler, a request answered with success is in force: OpenFGA
\* holds the projection of the policy that it has led to.
SuccessIsEnforced == [][\A h \in Handlers : Succeeds(h) => Projected']_vars

\* When startup's Sync has succeeded OpenFGA holds the projection of the
\* policy, whatever happened before: README.md, "Startup reconciliation
\* repairs the tuple projection".
StartupRepairs == [][Succeeds(Main) => Projected']_vars

\* Whatever happened before, startup's Sync records the projection of the
\* policy as synchronized: nothing changes the policy while it runs.
StartupRecords == [][Succeeds(Main) => synced' = Project(policy)']_vars

\* Without failures, OpenFGA holds the projection of the policy whenever no
\* request is in progress.
EnforcedAtRest == (server = "serving" /\ Idle) => Projected

\* Every answer of OpenFGA is the one the policy means.
DecidesAsPolicy ==
  \A user \in UserId, p \in Permissions, ref \in Ref :
    Supports(p, ref[1]) => (Allows(fga, user, p, ref) <=> Granted(policy, user, p, ref))

\* Without failures, OpenFGA decides as the policy says whenever no request
\* is in progress.
DecidesAtRest == (server = "serving" /\ Idle) => DecidesAsPolicy

\* Every binding stored can be projected: PERMISSIONS_API.md, "Every role
\* permission must match at least one selected resource type".
BindingsProjectable == Sound(policy)

-------------------------------------------------------------------------------
(* The policy *)

\* The actor of a request has the permission it needs, where it needs it.
Permitted(r) ==
  \E ref \in NeedsOn(r) :
    /\ ref = ControllerRef \/ Exists(resources, ref)
    /\ Allows(fga, r.actor, Needs(r), ref)

\* A request changes the policy only if, at that moment, its actor has the
\* permission it needs.
AuthorizedChange ==
  [][\A h \in Handlers : Commits(h, req[h].op) => Permitted(req[h])]_vars

\* A role update leaves every binding with a projection.
UpdateKeepsSound == [][(roles' # roles /\ Sound(policy)) => Sound(policy)']_vars

\* A user has at most one compatibility binding on a model.
OneCompatibilityBinding ==
  \A b, c \in bindings :
    (b.compatibility /\ c.compatibility /\ b.subject = c.subject /\ b.scope = c.scope) => b = c

\* A revoke leaves the user with less than before: PERMISSIONS_API.md, "This
\* prevents a mismatched revoke from accidentally upgrading access".
Rank == [role \in {"model-reader", "model-writer", "model-admin"} |->
           CASE role = "model-reader" -> 1 [] role = "model-writer" -> 2
             [] role = "model-admin" -> 3]

RevokeLowers ==
  [][\A h \in Handlers :
       Commits(h, "RevokeLegacy") =>
         \A new \in CompatibilityBindings(bindings', req[h].user, req[h].model) :
           \E old \in CompatibilityBindings(bindings, req[h].user, req[h].model) :
             Rank[new.role] < Rank[old.role]]_vars

\* Every resource has its parent: only leaves are deleted.
TreeIntact ==
  \A row \in resources : row.parent = ControllerRef \/ Exists(resources, row.parent)

-------------------------------------------------------------------------------
(* Progress *)

\* Whatever a goroutine does, it comes to an end.
Answered == \A p \in Procs : pc[p] # "idle" ~> pc[p] = "idle"

\* Without failures, a policy that has a projection and is not in force
\* comes into force.
Converges == ~Projected ~> Projected
===============================================================================
