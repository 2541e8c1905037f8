------------------------ MODULE PermissionService_proofs ----------------------
(***************************************************************************)
(* Theorems about PermissionService for every value of its constants: any  *)
(* number of handlers, any requests, any seed, any of the failures; in its *)
(* second half, from Established on, of what one handler at a time keeps.  *)
(***************************************************************************)
EXTENDS PermissionService, Translation_proofs

-------------------------------------------------------------------------------
(* The tuples of well-typed rows are well-typed. *)

\* An API resource has an OpenFGA name, as an object and as a user (Catalog.ResourceObject).
LEMMA ObjectType ==
  ASSUME NEW ref \in Ref
  PROVE  /\ ResourceObject(ref) \in OpenFGATypes \X Id
         /\ ResourceObject(ref) \in UserTypes \X Id
<1>1. CASE ref = ControllerRef
  BY <1>1 DEF ControllerRef, ResourceObject, OpenFGAType, Id, OpenFGATypes, UserTypes
<1>2. CASE ref \in Kinds \X ResourceId
  <2>1. ref[1] \in Kinds /\ ref[2] \in ResourceId
    BY <1>2
  <2>2. OpenFGAType(ref[1]) \in OpenFGATypes
    BY <2>1 DEF Kinds, OpenFGAType, OpenFGATypes
  <2> QED BY <2>1, <2>2 DEF ResourceObject, Id, UserTypes
<1> QED BY <1>1, <1>2 DEF Ref

\* Every permission is granted by one of the relations of model.fga.
LEMMA RelationType ==
  ASSUME NEW p \in Permissions, NEW type
  PROVE  RelationAtScope(p, type) \in Relations
<1>1. InheritedRelation(p) \in Relations
  <2>1. OpenFGAType(p[1]) \in {"policy", "model", "application", "unit", "machine",
                               "cloud_credential"}
    BY PermissionParts DEF OpenFGAType, Kinds
  <2> QED BY <2>1, PermissionParts DEF InheritedRelation, Relations
<1>2. Relation(p) \in Relations
  BY <1>1, PermissionParts DEF Relation, Relations
<1> QED BY <1>1, <1>2 DEF RelationAtScope

\* A binding targets API resources: its scope or the resources it lists.
LEMMA TargetsType ==
  ASSUME NEW b \in Binding
  PROVE  Targets(b) \subseteq Ref
<1>1. b.scope \in Ref /\ b.resources \in Seq(Ref)
  BY DEF Binding
<1>2. Listed(b) \subseteq Ref
  BY <1>1 DEF Listed
<1> QED BY <1>1, <1>2 DEF Targets

\* The parent tuples that Sync writes for rows of the resources table.
LEMMA ParentTuplesType ==
  ASSUME NEW rows, rows \subseteq Resource
  PROVE  ParentTuples(rows) \subseteq TupleType
<1> SUFFICES ASSUME NEW r \in Resource PROVE ParentTuple(r) \in TupleType
  BY DEF ParentTuples
<1>1. r.ref \in Ref /\ r.parent \in Ref
  BY DEF Resource, Ref
<1>2. <<"", "parent">> \in Relations
  BY DEF Relations
<1> QED BY <1>1, <1>2, ObjectType DEF ParentTuple, Tuple, TupleType

\* The membership tuples that Sync writes for rows of group_members.
LEMMA MembershipTuplesType ==
  ASSUME NEW ms, ms \subseteq GroupId \X UserId
  PROVE  MembershipTuples(ms) \subseteq TupleType
<1> SUFFICES ASSUME NEW m \in GroupId \X UserId
             PROVE  MembershipTuple(m[1], m[2]) \in TupleType
  BY DEF MembershipTuples
<1>1. <<"user", m[2]>> \in UserTypes \X Id /\ <<"group", m[1]>> \in OpenFGATypes \X Id
  BY DEF UserTypes, OpenFGATypes, Id
<1>2. <<"", "member">> \in Relations
  BY DEF Relations
<1> QED BY <1>1, <1>2 DEF MembershipTuple, Tuple, TupleType

\* The subject and permission tuples that Sync writes for a binding.
LEMMA BindingTuplesType ==
  ASSUME NEW b \in Binding, NEW role \in Role
  PROVE  BindingTuples(b, role) \subseteq TupleType
<1>1. b.id \in BindingId /\ b.subject \in Subject /\ role.permissions \subseteq Permissions
  BY DEF Binding, Role
<1>2. SubjectTuple(b) \in TupleType
  <2>1. /\ b.subject[1] \in {"user", "group"}
        /\ b.subject[2] \in Id
        /\ b.subject = <<b.subject[1], b.subject[2]>>
    BY <1>1 DEF Subject, Id
  <2>2. (IF b.subject[1] = "group" THEN <<"group#member", b.subject[2]>> ELSE b.subject)
          \in UserTypes \X Id
    BY <2>1 DEF UserTypes, OpenFGATypes
  <2>3. <<"", "subject">> \in Relations
    BY DEF Relations
  <2>4. <<"grant", b.id>> \in OpenFGATypes \X Id
    BY <1>1 DEF OpenFGATypes, Id
  <2> QED BY <2>2, <2>3, <2>4 DEF SubjectTuple, Tuple, TupleType
<1>3. PermissionTuples(b, role.permissions) \subseteq TupleType
  <2> SUFFICES ASSUME NEW p \in role.permissions, NEW ref \in Targets(b)
               PROVE  Tuple(<<"grant#subject", b.id>>, RelationAtScope(p, ref[1]),
                            ResourceObject(ref)) \in TupleType
    BY DEF PermissionTuples
  <2>1. ResourceObject(ref) \in OpenFGATypes \X Id
    BY TargetsType, ObjectType
  <2>2. RelationAtScope(p, ref[1]) \in Relations
    BY <1>1, RelationType
  <2>3. <<"grant#subject", b.id>> \in UserTypes \X Id
    BY <1>1 DEF UserTypes, Id
  <2> QED BY <2>1, <2>2, <2>3 DEF Tuple, TupleType
<1> QED BY <1>2, <1>3 DEF BindingTuples

-------------------------------------------------------------------------------
(* Control: how a step leaves the processes well-typed. *)

\* The local variables of a goroutine that has just begun its call.
LEMMA BlankType == Blank \in Locals /\ Blank.rows = {}
BY DEF Blank, Locals

\* Local variables that hold nothing but ids of bindings.
LEMMA LeftType ==
  ASSUME NEW ids, ids \subseteq BindingId
  PROVE  [Blank EXCEPT !.left = ids] \in Locals /\ [Blank EXCEPT !.left = ids].rows = {}
BY DEF Blank, Locals

\* A goroutine that holds no rows may be at any call.
LEMMA NoRowsType ==
  ASSUME NEW vals, vals.rows = {}, NEW stage
  PROVE  vals.rows \subseteq RowsAt(stage)
OBVIOUS

\* The ids of rows of bindings, which ListBindings collects.
LEMMA IdsType ==
  ASSUME NEW rows, rows \subseteq Binding
  PROVE  {b.id : b \in rows} \subseteq BindingId
BY DEF Binding

\* A goroutine that goes on to another call leaves the processes well-typed.
LEMMA GotoType ==
  ASSUME ProcessesOK, NEW p \in Procs, pc[p] # "idle",
         NEW stage \in Calls, NEW vals \in Locals, vals.rows \subseteq RowsAt(stage),
         Goto(p, stage, vals)
  PROVE  ProcessesOK'
BY DEF ProcessesOK, Goto

\* A goroutine that returns does, and only startup changes the state of the server.
LEMMA ReturnType ==
  ASSUME ProcessesOK, NEW p \in Procs, pc[p] # "idle",
         NEW state \in {"down", "starting", "serving"}, p = Main \/ state = server,
         Return(p, state)
  PROVE  ProcessesOK'
<1>1. /\ pc' \in [Procs -> Calls] /\ server' \in {"down", "starting", "serving"}
      /\ req' \in [Procs -> Requests \cup {NoRequest}] /\ local' \in [Procs -> Locals]
      /\ req'[Main] = NoRequest
  BY BlankType, ProcessAssumption DEF ProcessesOK, Return, Procs, Calls
<1>2. ASSUME NEW q \in Procs PROVE local'[q].rows \subseteq RowsAt(pc'[q])
  BY <1>2, BlankType DEF ProcessesOK, Return
<1>3. \A h \in Handlers : pc'[h] # "idle" => req'[h] \in Requests /\ server' = "serving"
  BY ProcessAssumption DEF ProcessesOK, Return, Procs
<1>4. pc'[Main] # "idle" => server' = "starting"
  BY ProcessAssumption DEF ProcessesOK, Return, Procs
<1> QED BY <1>1, <1>2, <1>3, <1>4 DEF ProcessesOK

\* An error response, and log.Fatal at startup, leave everything well-typed.
LEMMA FailType ==
  ASSUME TypeOK, NEW p \in Procs, pc[p] # "idle", Fail(p)
  PROVE  TypeOK'
<1>1. ProcessesOK'
  BY ReturnType DEF TypeOK, Fail, ProcessesOK
<1>2. StoresOK'
  BY DEF TypeOK, Fail, StoresOK, stores, policyVars
<1> QED BY <1>1, <1>2 DEF TypeOK

\* A step of p that leaves the stores alone and goes on.
LEMMA ReadType ==
  ASSUME TypeOK, NEW p \in Procs, pc[p] # "idle",
         NEW stage \in Calls, NEW vals \in Locals, vals.rows \subseteq RowsAt(stage),
         Goto(p, stage, vals), UNCHANGED stores
  PROVE  TypeOK'
<1>1. ProcessesOK'
  BY GotoType DEF TypeOK
<1>2. StoresOK'
  BY DEF TypeOK, StoresOK, stores, policyVars
<1> QED BY <1>1, <1>2 DEF TypeOK

-------------------------------------------------------------------------------
(* The actions outside Sync. *)

\* The fields of a request, by its operation.
LEMMA RequestParts ==
  ASSUME NEW r \in Requests
  PROVE  /\ r.op = "CreateUser" => r.user \in UserId
         /\ r.op = "CreateGroup" => r.group \in GroupId
         /\ r.op \in {"AddGroupMember", "RemoveGroupMember"} =>
              r.group \in GroupId /\ r.user \in UserId
         /\ r.op \in {"CreateRole", "UpdateRole"} =>
              r.role \in RoleId /\ r.permissions \subseteq Permissions
         /\ r.op = "CreateBinding" =>
              /\ r.subject \in Subject /\ r.role \in RoleId /\ r.scope \in Ref
              /\ r.match \in {"scope", "exact"} /\ r.resources \in Seq(Ref)
         /\ r.op \in {"GrantLegacy", "RevokeLegacy"} =>
              r.user \in UserId /\ r.model \in ResourceId /\ r.access \in Access
         /\ r.op = "CreateResource" =>
              r.type \in Kinds /\ r.name \in ResourceName /\ r.parent \in Ref
BY RequestsAssumption DEF Request

\* A handler is a goroutine other than startup.
LEMMA HandlerType ==
  ASSUME NEW h \in Handlers
  PROVE  h \in Procs /\ h # Main
BY ProcessAssumption DEF Procs

\* Opening and seeding the database inserts rows of their types.
LEMMA StartType == TypeOK /\ Start => TypeOK'
<1> SUFFICES ASSUME TypeOK, Start PROVE TypeOK'
  OBVIOUS
<1> USE DEF TypeOK, Start, Seed
<1>1. StoresOK'
  BY SeedAssumption DEF StoresOK
<1>2. \A p \in Procs : pc[p] = "idle"
  BY DEF ProcessesOK, Procs
<1>3. ASSUME NEW p \in Procs PROVE local'[p].rows \subseteq RowsAt(pc'[p])
  BY <1>2, <1>3 DEF ProcessesOK, RowsAt
<1>4. ProcessesOK'
  BY <1>2, <1>3, ProcessAssumption DEF ProcessesOK, Procs, Calls
<1> QED BY <1>1, <1>4

\* The end of the process forgets the variables of its goroutines.
LEMMA CrashType == TypeOK /\ Crash => TypeOK'
<1> SUFFICES ASSUME TypeOK, Crash PROVE TypeOK'
  OBVIOUS
<1>1. StoresOK'
  BY DEF TypeOK, Crash, StoresOK, stores, policyVars
<1>2. ProcessesOK'
  BY BlankType DEF TypeOK, Crash, ProcessesOK, Procs, Calls
<1> QED BY <1>1, <1>2 DEF TypeOK

\* A handler takes a request only while the server is serving.
LEMMA ReceiveType ==
  ASSUME TypeOK, NEW h \in Handlers, Receive(h)
  PROVE  TypeOK'
<1>1. StoresOK'
  BY DEF TypeOK, Receive, StoresOK, stores, policyVars
<1>2. PICK r \in Requests : /\ req' = [req EXCEPT ![h] = r]
                             /\ pc' = [pc EXCEPT ![h] = FirstCall(r)]
  BY DEF Receive
<1>3. FirstCall(r) \in Calls \ {"GetResources"}
  BY DEF FirstCall, Calls
<1>4. ASSUME NEW p \in Procs PROVE local'[p].rows \subseteq RowsAt(pc'[p])
  BY <1>2, <1>3, <1>4 DEF TypeOK, Receive, ProcessesOK, RowsAt
<1>5. ProcessesOK'
  BY <1>2, <1>3, <1>4, HandlerType DEF TypeOK, Receive, ProcessesOK
<1> QED BY <1>1, <1>5 DEF TypeOK

\* A request needs its permission on an API resource (managementScope and the handlers).
LEMMA NeedsOnType ==
  ASSUME StoresOK, NEW r \in Requests
  PROVE  NeedsOn(r) \subseteq Ref
<1>1. ControllerRef \in Ref /\ \A row \in resources : row.parent \in Ref
  BY DEF StoresOK, Resource, Ref
<1>2. ASSUME NEW ref \in Ref PROVE ManagementScopes(resources, ref) \subseteq Ref
  BY <1>1 DEF ManagementScopes, ParentsOf
<1>3. \A b \in bindings : b.scope \in Ref
  BY DEF StoresOK, Binding
<1>4. CASE r.op = "CreateBinding"
  BY <1>2, <1>4, RequestParts DEF NeedsOn
<1>5. CASE r.op = "DeleteBinding"
  BY <1>2, <1>3, <1>5 DEF NeedsOn, RowsWithId
<1>6. CASE r.op \in {"GrantLegacy", "RevokeLegacy"}
  BY <1>6, RequestParts DEF NeedsOn, Ref, Kinds
<1>7. CASE r.op = "CreateResource"
  BY <1>7, RequestParts DEF NeedsOn
<1>8. CASE r.op = "DeleteResource"
  BY <1>8, RequestsAssumption DEF NeedsOn, Request, Ref
<1>9. CASE r.op \notin {"CreateBinding", "DeleteBinding", "GrantLegacy", "RevokeLegacy",
                       "CreateResource", "DeleteResource"}
  BY <1>1, <1>9 DEF NeedsOn
<1> QED BY <1>4, <1>5, <1>6, <1>7, <1>8, <1>9

\* What a handler checks before it writes changes no store.
LEMMA CheckType ==
  ASSUME TypeOK, NEW h \in Handlers,
         Authorize(h) \/ Check(h) \/ Validate(h) \/ PreviewRole(h) \/ PreviewBindings(h)
  PROVE  TypeOK'
<1> USE HandlerType
<1>0. pc[h] # "idle"
  BY DEF Authorize, Check, Validate, PreviewRole, PreviewBindings
<1>1. CASE Fail(h)
  BY <1>0, <1>1, FailType
<1>2. CASE ~Fail(h)
  <2>1. PICK stage \in Calls, vals \in Locals :
          /\ pc[h] # "idle" /\ vals.rows \subseteq RowsAt(stage)
          /\ Goto(h, stage, vals) /\ UNCHANGED stores
    <3>1. CASE Authorize(h)
      <4> DEFINE vals == [Blank EXCEPT !.on = NeedsOn(req[h])]
      <4>1. NeedsOn(req[h]) \subseteq Ref
        BY <3>1, NeedsOnType DEF Authorize, TypeOK, ProcessesOK
      <4>2. vals \in Locals /\ vals.rows = {}
        BY <4>1 DEF Blank, Locals
      <4>3. vals.rows \subseteq RowsAt("Check")
        BY <4>2, NoRowsType
      <4>4. Goto(h, "Check", vals) /\ UNCHANGED stores /\ "Check" \in Calls
        BY <1>2, <3>1 DEF Authorize, Calls
      <4> QED BY <1>0, <4>2, <4>3, <4>4
    <3>5. CASE Check(h)
      <4>1. AfterCheck(req[h]) \in Calls
        BY DEF AfterCheck, Calls
      <4> QED BY <1>2, <3>5, <4>1, BlankType, NoRowsType DEF Check
    <3>2. CASE Validate(h)
      <4> DEFINE revoked == IF req[h].op = "RevokeLegacy" THEN {b.id : b \in RevokedBindings(req[h])}
                            ELSE {}
      <4>1. AfterValidate(req[h]) \in Calls
        BY DEF AfterValidate, Calls
      <4>2. revoked \subseteq BindingId
        BY DEF TypeOK, StoresOK, RevokedBindings, CompatibilityBindings, Binding
      <4> DEFINE vals == [Blank EXCEPT !.left = revoked]
      <4>3. vals \in Locals /\ vals.rows \subseteq RowsAt(AfterValidate(req[h]))
        BY <4>2, LeftType, NoRowsType
      <4>4. Goto(h, AfterValidate(req[h]), vals) /\ UNCHANGED stores
        BY <1>2, <3>2 DEF Validate
      <4> QED BY <1>0, <4>1, <4>3, <4>4
    <3>3. CASE PreviewRole(h)
      <4> DEFINE vals == [Blank EXCEPT !.left = {b.id : b \in bindings}]
      <4>1. vals \in Locals /\ vals.rows \subseteq RowsAt("PreviewBindings")
        BY IdsType, LeftType, NoRowsType DEF TypeOK, StoresOK
      <4>2. Goto(h, "PreviewBindings", vals) /\ UNCHANGED stores
        BY <1>2, <3>3 DEF PreviewRole
      <4>3. "PreviewBindings" \in Calls
        BY DEF Calls
      <4> QED BY <1>0, <4>1, <4>2, <4>3
    <3>4. CASE PreviewBindings(h)
      BY <1>2, <3>4, BlankType DEF PreviewBindings, Calls
    <3> QED BY <3>1, <3>2, <3>3, <3>4, <3>5
  <2> QED BY <2>1, ReadType
<1> QED BY <1>1, <1>2

\* A write of a handler: it ends in an error, goes on, or is answered.
LEMMA WriteType ==
  ASSUME TypeOK, NEW h \in Handlers, pc[h] # "idle", StoresOK',
         \/ Synchronize(h)
         \/ Respond(h)
         \/ \E id \in BindingId : Goto(h, "GetUpserted", [Blank EXCEPT !.left = {id}])
  PROVE  TypeOK'
<1> USE HandlerType
<1>1. CASE Synchronize(h)
  BY <1>1, GotoType, BlankType DEF TypeOK, Synchronize, Calls
<1>2. CASE Respond(h)
  BY <1>2, ReturnType DEF TypeOK, ProcessesOK, Respond
<1>3. CASE \E id \in BindingId : Goto(h, "GetUpserted", [Blank EXCEPT !.left = {id}])
  <2> PICK id \in BindingId : Goto(h, "GetUpserted", [Blank EXCEPT !.left = {id}])
    BY <1>3
  <2> DEFINE vals == [Blank EXCEPT !.left = {id}]
  <2>1. vals \in Locals /\ vals.rows \subseteq RowsAt("GetUpserted")
    <3>1. {id} \subseteq BindingId
      OBVIOUS
    <3>2. vals \in Locals /\ vals.rows = {}
      BY <3>1, LeftType
    <3> QED BY <3>2, NoRowsType
  <2>2. Goto(h, "GetUpserted", vals) /\ "GetUpserted" \in Calls
    BY DEF Calls
  <2> QED BY <2>1, <2>2, GotoType DEF TypeOK
<1> QED BY <1>1, <1>2, <1>3

\* Each write of a handler stores a row of its table's type.
LEMMA CommitType ==
  ASSUME TypeOK, NEW h \in Handlers,
         \/ CreateUser(h) \/ CreateGroup(h) \/ CreateRole(h)
         \/ AddGroupMember(h) \/ RemoveGroupMember(h) \/ UpdateRole(h)
         \/ CreateBinding(h) \/ DeleteBinding(h) \/ GrantLegacy(h) \/ RevokeLegacy(h)
         \/ CreateResource(h) \/ DeleteResource(h)
  PROVE  TypeOK'
<1> USE HandlerType
<1> DEFINE r == req[h]
<1>0. pc[h] = "Commit" /\ r \in Requests
  BY DEF TypeOK, ProcessesOK, Committing, CreateUser, CreateGroup, CreateRole, AddGroupMember,
         RemoveGroupMember, UpdateRole, CreateBinding, DeleteBinding, GrantLegacy, RevokeLegacy,
         CreateResource, DeleteResource
<1> USE <1>0, RequestParts
<1>1. CASE Fail(h)
  BY <1>1, FailType
<1>2. CASE CreateUser(h) /\ ~Fail(h)
  <2>1. StoresOK' BY <1>2 DEF TypeOK, StoresOK, CreateUser, Committing
  <2> QED BY <1>2, <2>1, WriteType DEF CreateUser
<1>3. CASE CreateGroup(h) /\ ~Fail(h)
  <2>1. StoresOK' BY <1>3 DEF TypeOK, StoresOK, CreateGroup, Committing
  <2> QED BY <1>3, <2>1, WriteType DEF CreateGroup
<1>4. CASE CreateRole(h) /\ ~Fail(h)
  <2>1. [id |-> r.role, builtIn |-> FALSE, revision |-> 1, permissions |-> r.permissions] \in Role
    BY <1>4 DEF CreateRole, Committing, Role
  <2>2. StoresOK' BY <1>4, <2>1 DEF TypeOK, StoresOK, CreateRole
  <2> QED BY <1>4, <2>2, WriteType DEF CreateRole
<1>5. CASE AddGroupMember(h) /\ ~Fail(h)
  <2>1. StoresOK' BY <1>5 DEF TypeOK, StoresOK, AddGroupMember, Committing
  <2> QED BY <1>5, <2>1, WriteType DEF AddGroupMember
<1>6. CASE RemoveGroupMember(h) /\ ~Fail(h)
  <2>1. StoresOK' BY <1>6 DEF TypeOK, StoresOK, RemoveGroupMember
  <2> QED BY <1>6, <2>1, WriteType DEF RemoveGroupMember
<1>7. CASE UpdateRole(h) /\ ~Fail(h)
  <2> DEFINE Updated(role) ==
               [role EXCEPT !.revision = @ + 1, !.permissions = r.permissions]
  <2>1. r.permissions \subseteq Permissions
    BY <1>7 DEF UpdateRole, Committing
  <2>2. ASSUME NEW role \in Role PROVE Updated(role) \in Role
    <3>1. role.revision + 1 \in Nat
      BY DEF Role
    <3> QED BY <2>1, <3>1 DEF Role
  <2>3. /\ roles' = {IF role.id # r.role THEN role ELSE Updated(role) : role \in roles}
        /\ Synchronize(h)
        /\ UNCHANGED <<users, groups, members, bindings, resources, issued, synced, fga>>
    BY <1>7 DEF UpdateRole
  <2> HIDE DEF Updated
  <2>4. roles' \subseteq Role
    BY <2>2, <2>3 DEF TypeOK, StoresOK
  <2>5. StoresOK' BY <2>3, <2>4 DEF TypeOK, StoresOK
  <2> QED BY <2>3, <2>5, WriteType
<1>8. CASE CreateBinding(h) /\ ~Fail(h)
  <2>1. PICK id \in BindingId \ issued :
          /\ bindings' = bindings \cup
               {[id |-> id, subject |-> r.subject, role |-> r.role, scope |-> r.scope,
                 match |-> r.match, resources |-> r.resources, compatibility |-> FALSE]}
          /\ issued' = issued \cup {id}
          /\ Synchronize(h)
          /\ UNCHANGED <<users, groups, members, roles, resources, synced, fga>>
    BY <1>8 DEF CreateBinding
  <2>2. [id |-> id, subject |-> r.subject, role |-> r.role, scope |-> r.scope,
         match |-> r.match, resources |-> r.resources, compatibility |-> FALSE] \in Binding
    BY <1>8 DEF CreateBinding, Committing, Binding
  <2>3. StoresOK' BY <2>1, <2>2 DEF TypeOK, StoresOK
  <2> QED BY <2>1, <2>3, WriteType
<1>9. ASSUME NEW ids, RemoveBinding(h, ids), ~Fail(h) PROVE TypeOK'
  <2>1. StoresOK' BY <1>9 DEF TypeOK, StoresOK, RemoveBinding
  <2> QED BY <1>9, <2>1, WriteType DEF RemoveBinding
<1>10. CASE DeleteBinding(h) /\ ~Fail(h)
  BY <1>9, <1>10 DEF DeleteBinding
<1>11. ASSUME NEW user \in UserId, NEW role \in RoleId, NEW model \in ResourceId,
              Upsert(h, user, role, model)
       PROVE  TypeOK'
  <2>1. CASE \E b \in CompatibilityBindings(bindings, user, model) :
          /\ bindings' = (bindings \ {b}) \cup {[b EXCEPT !.role = role]}
          /\ issued' = issued
          /\ Goto(h, "GetUpserted", [Blank EXCEPT !.left = {b.id}])
    <3> PICK b \in CompatibilityBindings(bindings, user, model) :
          /\ bindings' = (bindings \ {b}) \cup {[b EXCEPT !.role = role]}
          /\ issued' = issued
          /\ Goto(h, "GetUpserted", [Blank EXCEPT !.left = {b.id}])
      BY <2>1
    <3>1. b \in Binding BY DEF CompatibilityBindings, TypeOK, StoresOK
    <3>2. [b EXCEPT !.role = role] \in Binding /\ b.id \in BindingId
      BY <3>1 DEF Binding
    <3>3. StoresOK' BY <1>11, <3>2 DEF TypeOK, StoresOK, Upsert
    <3> QED BY <3>2, <3>3, WriteType
  <2>2. CASE \E id \in BindingId \ issued :
             /\ bindings' = bindings \cup
                  {[id |-> id, subject |-> <<"user", user>>, role |-> role,
                    scope |-> <<"model", model>>, match |-> "scope", resources |-> <<>>,
                    compatibility |-> TRUE]}
             /\ issued' = issued \cup {id}
             /\ Goto(h, "GetUpserted", [Blank EXCEPT !.left = {id}])
    <3> PICK id \in BindingId \ issued :
             /\ bindings' = bindings \cup
                  {[id |-> id, subject |-> <<"user", user>>, role |-> role,
                    scope |-> <<"model", model>>, match |-> "scope", resources |-> <<>>,
                    compatibility |-> TRUE]}
             /\ issued' = issued \cup {id}
             /\ Goto(h, "GetUpserted", [Blank EXCEPT !.left = {id}])
      BY <2>2
    <3>1. <<"model", model>> \in Ref /\ <<"user", user>> \in Subject
      BY DEF Ref, Kinds, Subject
    <3>2. [id |-> id, subject |-> <<"user", user>>, role |-> role,
           scope |-> <<"model", model>>, match |-> "scope", resources |-> <<>>,
           compatibility |-> TRUE] \in Binding
      BY <3>1 DEF Binding
    <3>3. StoresOK' BY <1>11, <3>2 DEF TypeOK, StoresOK, Upsert
    <3> QED BY <3>3, WriteType
  <2> QED BY <1>11, <2>1, <2>2 DEF Upsert
<1>12. ASSUME NEW access \in Access PROVE CompatibilityRole(access) \in RoleId
  <2>1. {"model-reader", "model-writer", "model-admin"} \subseteq RoleId
    BY CompatibilityRolesAssumption, SeedAssumption DEF Role
  <2> QED BY <1>12, <2>1 DEF CompatibilityRole, Access
<1>13. CASE GrantLegacy(h)
  BY <1>11, <1>12, <1>13 DEF GrantLegacy, Committing
<1>14. CASE RevokeLegacy(h) /\ ~Fail(h)
  <2>1. CASE NextAccess(r.access) = "none"
    BY <1>9, <1>14, <2>1 DEF RevokeLegacy
  <2>2. CASE NextAccess(r.access) # "none"
    <3>1. NextAccess(r.access) \in Access
      BY <1>14, <2>2 DEF RevokeLegacy, Committing, NextAccess, Access
    <3> QED BY <1>11, <1>12, <1>14, <2>2, <3>1 DEF RevokeLegacy, Committing
  <2> QED BY <2>1, <2>2
<1>15. CASE CreateResource(h) /\ ~Fail(h)
  <2>1. PICK id \in ResourceId \ issued :
          /\ resources' = resources \cup
               {[ref |-> <<r.type, id>>, name |-> r.name, parent |-> r.parent]}
          /\ issued' = issued \cup {id}
          /\ Synchronize(h)
          /\ UNCHANGED <<users, groups, members, roles, bindings, synced, fga>>
    BY <1>15 DEF CreateResource
  <2>2. [ref |-> <<r.type, id>>, name |-> r.name, parent |-> r.parent] \in Resource
    BY <1>15 DEF CreateResource, Committing, Resource
  <2>3. StoresOK' BY <2>1, <2>2 DEF TypeOK, StoresOK
  <2> QED BY <2>1, <2>3, WriteType
<1>16. CASE DeleteResource(h) /\ ~Fail(h)
  <2>1. StoresOK' BY <1>16 DEF TypeOK, StoresOK, DeleteResource
  <2> QED BY <1>16, <2>1, WriteType DEF DeleteResource
<1> QED BY <1>1, <1>2, <1>3, <1>4, <1>5, <1>6, <1>7, <1>8, <1>10, <1>13, <1>14, <1>15, <1>16

\* Reading the upserted row again changes no store.
LEMMA GetUpsertedType ==
  ASSUME TypeOK, NEW h \in Handlers, GetUpserted(h)
  PROVE  TypeOK'
<1> USE HandlerType
<1>0. pc[h] # "idle"
  BY DEF GetUpserted
<1>1. CASE Fail(h)
  BY <1>0, <1>1, FailType
<1>2. CASE Synchronize(h) /\ UNCHANGED stores
  BY <1>0, <1>2, ReadType, BlankType, NoRowsType DEF Synchronize, Calls
<1> QED BY <1>1, <1>2 DEF GetUpserted

-------------------------------------------------------------------------------
(* Sync *)

\* Sync collects well-typed tuples, writes them to OpenFGA and records them.
LEMMA SyncType ==
  ASSUME TypeOK, NEW p \in Procs, Sync(p)
  PROVE  TypeOK'
<1>0. /\ pc[p] # "idle"
      /\ local[p] \in Locals /\ local[p].rows \subseteq RowsAt(pc[p])
      /\ "GetResources" \in Calls /\ "ListMemberships" \in Calls /\ "ListBindings" \in Calls
      /\ "Bindings" \in Calls /\ "Write" \in Calls /\ "ReplaceSyncedTuples" \in Calls
  BY DEF TypeOK, ProcessesOK, Calls, Sync, ListResources, GetResources, ListMemberships,
         ListBindings, GetBinding, CompileBinding, ListSyncedTuples, Write, ReplaceSyncedTuples
<1>1. CASE Fail(p)
  BY <1>0, <1>1, FailType
<1>2. CASE ListResources(p)
  <2> DEFINE vals == [Blank EXCEPT !.rows = resources]
  <2>1. vals \in Locals /\ vals.rows \subseteq RowsAt("GetResources")
    BY DEF TypeOK, StoresOK, Blank, Locals, RowsAt
  <2> QED BY <1>0, <1>2, <2>1, ReadType DEF ListResources
<1>3. CASE GetResources(p) /\ ~Fail(p)
  <2> DEFINE vals == [Blank EXCEPT !.desired = ParentTuples(local[p].rows)]
  <2>1. local[p].rows \subseteq Resource
    BY <1>0, <1>3 DEF GetResources, RowsAt
  <2>2. ParentTuples(local[p].rows) \subseteq TupleType
    BY <2>1, ParentTuplesType
  <2>3. vals \in Locals /\ vals.rows \subseteq RowsAt("ListMemberships")
    BY <2>2 DEF Blank, Locals
  <2> QED BY <1>0, <1>3, <2>3, ReadType DEF GetResources
<1>4. CASE ListMemberships(p)
  <2> DEFINE vals == [local[p] EXCEPT !.desired = @ \cup MembershipTuples(members)]
  <2>1. MembershipTuples(members) \subseteq TupleType
    BY MembershipTuplesType DEF TypeOK, StoresOK
  <2>2. vals \in Locals /\ vals.rows \subseteq RowsAt("ListBindings")
    BY <1>0, <1>4, <2>1 DEF ListMemberships, Locals, RowsAt
  <2> QED BY <1>0, <1>4, <2>2, ReadType DEF ListMemberships
<1>5. CASE ListBindings(p)
  <2> DEFINE vals == [local[p] EXCEPT !.left = {b.id : b \in bindings}]
  <2>1. {b.id : b \in bindings} \subseteq BindingId
    BY IdsType DEF TypeOK, StoresOK
  <2>2. vals \in Locals /\ vals.rows \subseteq RowsAt("Bindings")
    BY <1>0, <1>5, <2>1 DEF ListBindings, Locals, RowsAt
  <2> QED BY <1>0, <1>5, <2>2, ReadType DEF ListBindings
<1>6. CASE GetBinding(p) /\ ~Fail(p)
  <2>1. PICK id \in local[p].left :
          /\ Goto(p, "Bindings", [local[p] EXCEPT !.left = @ \ {id},
                                                 !.rows = @ \cup RowsWithId(bindings, id)])
          /\ UNCHANGED stores
    BY <1>6 DEF GetBinding
  <2> DEFINE vals == [local[p] EXCEPT !.left = @ \ {id},
                                      !.rows = @ \cup RowsWithId(bindings, id)]
  <2>2. RowsWithId(bindings, id) \subseteq Binding
    BY DEF TypeOK, StoresOK, RowsWithId
  <2>3. vals \in Locals /\ vals.rows \subseteq RowsAt("Bindings")
    BY <1>0, <1>6, <2>2 DEF GetBinding, Locals, RowsAt
  <2> QED BY <1>0, <2>1, <2>3, ReadType
<1>7. CASE CompileBinding(p) /\ ~Fail(p)
  <2>0. PICK b \in local[p].rows : \E role \in RowsWithId(roles, b.role) :
          /\ Goto(p, "Bindings",
                  [local[p] EXCEPT !.rows = @ \ {b},
                                   !.desired = @ \cup BindingTuples(b, role),
                                   !.repeated = @ \/ Repeats(b, role.permissions)])
          /\ UNCHANGED stores
    BY <1>7 DEF CompileBinding
  <2>1. PICK role \in RowsWithId(roles, b.role) :
          /\ Goto(p, "Bindings",
                  [local[p] EXCEPT !.rows = @ \ {b},
                                   !.desired = @ \cup BindingTuples(b, role),
                                   !.repeated = @ \/ Repeats(b, role.permissions)])
          /\ UNCHANGED stores
    BY <2>0
  <2>2. b \in Binding /\ role \in Role
    BY <1>0, <1>7 DEF CompileBinding, RowsAt, TypeOK, StoresOK, RowsWithId
  <2>3. BindingTuples(b, role) \subseteq TupleType
    BY <2>2, BindingTuplesType
  <2>4. (local[p].repeated \/ Repeats(b, role.permissions)) \in BOOLEAN
    OBVIOUS
  <2> DEFINE vals == [local[p] EXCEPT !.rows = @ \ {b},
                                      !.desired = @ \cup BindingTuples(b, role),
                                      !.repeated = @ \/ Repeats(b, role.permissions)]
  <2>5. vals \in Locals /\ vals.rows \subseteq RowsAt("Bindings")
    BY <1>0, <1>7, <2>3, <2>4 DEF CompileBinding, Locals, RowsAt
  <2> QED BY <1>0, <2>1, <2>5, ReadType
<1>8. CASE ListSyncedTuples(p)
  <2> DEFINE vals == [local[p] EXCEPT !.current = synced]
  <2>1. vals \in Locals /\ vals.rows \subseteq RowsAt("Write")
    BY <1>0, <1>8 DEF ListSyncedTuples, Locals, RowsAt, TypeOK, StoresOK
  <2> QED BY <1>0, <1>8, <2>1, ReadType DEF ListSyncedTuples
<1>9. CASE Write(p) /\ ~Fail(p)
  <2>1. local[p].rows \subseteq RowsAt("ReplaceSyncedTuples")
    BY <1>0, <1>9 DEF Write, RowsAt
  <2>2. ProcessesOK'
    BY <1>0, <1>9, <2>1, GotoType DEF Write, TypeOK
  <2>3. StoresOK'
    BY <1>0, <1>9 DEF Write, Applied, policyVars, TypeOK, StoresOK, Locals
  <2> QED BY <2>2, <2>3 DEF TypeOK
<1>10. CASE ReplaceSyncedTuples(p) /\ ~Fail(p)
  <2>1. ProcessesOK'
    BY <1>0, <1>10, ReturnType DEF ReplaceSyncedTuples, TypeOK, ProcessesOK
  <2>2. StoresOK'
    BY <1>0, <1>10 DEF ReplaceSyncedTuples, policyVars, TypeOK, StoresOK, Locals
  <2> QED BY <2>1, <2>2 DEF TypeOK
<1> QED BY <1>1, <1>2, <1>3, <1>4, <1>5, <1>6, <1>7, <1>8, <1>9, <1>10 DEF Sync

-------------------------------------------------------------------------------
(* The rows of the tables, the tuples in OpenFGA and the variables of every *)
(* goroutine keep their types, and startup never overlaps a request.        *)
THEOREM TypeCorrect == Spec => []TypeOK
<1>1. Init => TypeOK
  BY SeedAssumption, BlankType, ProcessAssumption
     DEF Init, TypeOK, StoresOK, ProcessesOK, Procs, Calls, Binding, Resource
<1>2. TypeOK /\ [Next]_vars => TypeOK'
  <2> SUFFICES ASSUME TypeOK, [Next]_vars PROVE TypeOK'
    OBVIOUS
  <2>1. CASE Start
    BY <2>1, StartType
  <2>2. CASE Crash
    BY <2>2, CrashType
  <2>3. ASSUME NEW h \in Handlers, Receive(h) PROVE TypeOK'
    BY <2>3, ReceiveType
  <2>4. ASSUME NEW h \in Handlers, Handle(h) PROVE TypeOK'
    BY <2>4, CheckType, CommitType, GetUpsertedType DEF Handle
  <2>5. ASSUME NEW p \in Procs, Sync(p) PROVE TypeOK'
    BY <2>5, SyncType
  <2>6. ASSUME NEW p \in Procs, Abort(p) PROVE TypeOK'
    BY <2>6, FailType DEF Abort
  <2>7. CASE UNCHANGED vars
    BY <2>7 DEF vars, stores, policyVars, TypeOK, StoresOK, ProcessesOK
  <2> QED BY <2>1, <2>2, <2>3, <2>4, <2>5, <2>6, <2>7 DEF Next
<1> QED BY <1>1, <1>2, PTL DEF Spec

-------------------------------------------------------------------------------
(* Compatibility bindings *)

\* Beside the seeded ones there are only those on models.
CompatibilityOnModels ==
  \A b \in bindings : b.compatibility => b.scope[1] = "model" \/ b \in SeedBindings

CompatibilityInv == OneCompatibilityBinding /\ CompatibilityOnModels

\* store.seed inserts the bootstrap binding, the only one it marks as a compatibility binding.
LEMMA SeedCompatibility ==
  ASSUME TypeOK, CompatibilityInv, Seed
  PROVE  CompatibilityInv'
<1> USE DEF CompatibilityInv, OneCompatibilityBinding, CompatibilityOnModels
<1>1. bindings' \subseteq bindings \cup SeedBindings
  BY DEF Seed
<1>2. ControllerRef[1] # "model"
  BY DEF ControllerRef
<1>3. ASSUME NEW b \in bindings', NEW c \in bindings', b.compatibility, c.compatibility,
             b.subject = c.subject, b.scope = c.scope
      PROVE  b = c
  <2>1. CASE b \in bindings /\ c \in bindings
    BY <1>3, <2>1
  <2>2. CASE b \in SeedBindings \/ c \in SeedBindings
    <3>1. b.scope = ControllerRef
      BY <1>3, <2>2, SeedCompatibilityAssumption
    <3>2. b \in SeedBindings /\ c \in SeedBindings
      BY <1>1, <1>2, <1>3, <3>1
    <3> QED BY <1>3, <3>2, SeedCompatibilityAssumption
  <2> QED BY <1>1, <2>1, <2>2
<1> QED BY <1>1, <1>3

\* The upsert's transaction updates the one row there is, or inserts it where there is none.
LEMMA UpsertCompatibility ==
  ASSUME TypeOK, CompatibilityInv, NEW h, NEW user, NEW role, NEW model,
         Upsert(h, user, role, model)
  PROVE  CompatibilityInv'
<1> USE DEF CompatibilityInv, OneCompatibilityBinding, CompatibilityOnModels
<1>1. ASSUME NEW b \in CompatibilityBindings(bindings, user, model),
             bindings' = (bindings \ {b}) \cup {[b EXCEPT !.role = role]}
      PROVE  CompatibilityInv'
  <2> DEFINE new == [b EXCEPT !.role = role]
  <2>1. b \in bindings /\ b \in Binding /\ b.compatibility
        /\ b.subject = <<"user", user>> /\ b.scope = <<"model", model>>
    BY DEF CompatibilityBindings, TypeOK, StoresOK
  <2>2. new.compatibility = b.compatibility /\ new.subject = b.subject /\ new.scope = b.scope
    BY <2>1 DEF Binding
  <2>3. b.scope[1] = "model"
    BY <2>1
  <2> HIDE DEF new
  <2>4. bindings' = (bindings \ {b}) \cup {new}
    BY <1>1 DEF new
  <2> QED BY <2>1, <2>2, <2>3, <2>4
<1>2. ASSUME NEW id, CompatibilityBindings(bindings, user, model) = {},
             bindings' = bindings \cup
               {[id |-> id, subject |-> <<"user", user>>, role |-> role,
                 scope |-> <<"model", model>>, match |-> "scope", resources |-> <<>>,
                 compatibility |-> TRUE]}
      PROVE  CompatibilityInv'
  <2> DEFINE new == [id |-> id, subject |-> <<"user", user>>, role |-> role,
                     scope |-> <<"model", model>>, match |-> "scope", resources |-> <<>>,
                     compatibility |-> TRUE]
  <2>1. /\ new.subject = <<"user", user>> /\ new.scope = <<"model", model>>
        /\ new.scope[1] = "model"
    OBVIOUS
  <2>2. bindings' = bindings \cup {new}
    BY <1>2
  <2> HIDE DEF new
  <2>3. \A b \in bindings : b.compatibility =>
          ~(b.subject = new.subject /\ b.scope = new.scope)
    BY <1>2, <2>1 DEF CompatibilityBindings
  <2> QED BY <2>1, <2>2, <2>3
<1> QED BY <1>1, <1>2 DEF Upsert

\* A user never has two compatibility bindings on one model, whatever grants
\* and revokes run at the same time and wherever they fail.
THEOREM OneCompatibility == Spec => []OneCompatibilityBinding
<1>1. Init => CompatibilityInv
  BY DEF Init, CompatibilityInv, OneCompatibilityBinding, CompatibilityOnModels
<1>2. TypeOK /\ CompatibilityInv /\ [Next]_vars => CompatibilityInv'
  <2> SUFFICES ASSUME TypeOK, CompatibilityInv, [Next]_vars PROVE CompatibilityInv'
    OBVIOUS
  <2>1. CASE bindings' \subseteq bindings
    BY <2>1 DEF CompatibilityInv, OneCompatibilityBinding, CompatibilityOnModels
  <2>2. CASE Start
    BY <2>2, SeedCompatibility DEF Start
  <2>3. ASSUME NEW h \in Handlers, CreateBinding(h), ~(bindings' \subseteq bindings)
        PROVE  CompatibilityInv'
    <3> DEFINE r == req[h]
               new(id) == [id |-> id, subject |-> r.subject, role |-> r.role,
                           scope |-> r.scope, match |-> r.match, resources |-> r.resources,
                           compatibility |-> FALSE]
    <3>1. PICK id \in BindingId \ issued : bindings' = bindings \cup {new(id)}
      BY <2>3 DEF CreateBinding, Fail, stores, policyVars
    <3>2. new(id).compatibility = FALSE
      OBVIOUS
    <3> HIDE DEF new
    <3> QED BY <3>1, <3>2 DEF CompatibilityInv, OneCompatibilityBinding, CompatibilityOnModels
  <2>4. ASSUME NEW h \in Handlers, GrantLegacy(h) PROVE CompatibilityInv'
    BY <2>4, UpsertCompatibility DEF GrantLegacy
  <2>5. ASSUME NEW h \in Handlers, RevokeLegacy(h), ~(bindings' \subseteq bindings)
        PROVE  CompatibilityInv'
    <3>1. ~RemoveBinding(h, local[h].left)
      BY <2>5 DEF RemoveBinding, Fail, stores, policyVars
    <3> QED BY <2>5, <3>1, UpsertCompatibility DEF RevokeLegacy
  <2>6. ASSUME NEW h \in Handlers, Receive(h) PROVE bindings' \subseteq bindings
    BY <2>6 DEF Receive, stores, policyVars
  <2>7. ASSUME NEW h \in Handlers,
               Handle(h), ~CreateBinding(h), ~GrantLegacy(h), ~RevokeLegacy(h)
        PROVE  bindings' \subseteq bindings
    <3> USE DEF Fail, stores, policyVars
    <3>1. CASE Authorize(h) \/ Check(h) \/ Validate(h) \/ PreviewRole(h)
                 \/ PreviewBindings(h) \/ GetUpserted(h)
      BY <3>1 DEF Authorize, Check, Validate, PreviewRole, PreviewBindings, GetUpserted
    <3>2. CASE CreateUser(h) \/ CreateGroup(h) \/ CreateRole(h) \/ AddGroupMember(h)
                 \/ RemoveGroupMember(h) \/ UpdateRole(h)
      BY <3>2 DEF CreateUser, CreateGroup, CreateRole, AddGroupMember, RemoveGroupMember,
                  UpdateRole
    <3>3. CASE DeleteBinding(h) \/ CreateResource(h) \/ DeleteResource(h)
      BY <3>3 DEF DeleteBinding, RemoveBinding, CreateResource, DeleteResource
    <3> QED BY <2>7, <3>1, <3>2, <3>3 DEF Handle
  <2>8. ASSUME NEW p \in Procs, Sync(p) PROVE bindings' \subseteq bindings
    BY <2>8 DEF Sync, ListResources, GetResources, ListMemberships, ListBindings, GetBinding,
                CompileBinding, ListSyncedTuples, Write, ReplaceSyncedTuples, Fail, stores,
                policyVars
  <2>9. ASSUME NEW p \in Procs, Abort(p) PROVE bindings' \subseteq bindings
    BY <2>9 DEF Abort, Fail, stores, policyVars
  <2>10. CASE Crash \/ UNCHANGED vars
    BY <2>1, <2>10 DEF Crash, vars, stores, policyVars
  <2> QED BY <2>1, <2>2, <2>3, <2>4, <2>5, <2>6, <2>7, <2>8, <2>9, <2>10 DEF Next
<1>3. CompatibilityInv => OneCompatibilityBinding
  BY DEF CompatibilityInv
<1> QED BY <1>1, <1>2, <1>3, TypeCorrect, PTL DEF Spec

-------------------------------------------------------------------------------
(* Steps and what they leave alone *)

\* A goroutine that goes on touches the variables of no other.
LEMMA GotoOthers ==
  ASSUME TypeOK, NEW p \in Procs, NEW stage, NEW vals, Goto(p, stage, vals)
  PROVE  /\ \A q \in Procs \ {p} : pc'[q] = pc[q] /\ local'[q] = local[q]
         /\ pc'[p] = stage /\ local'[p] = vals /\ UNCHANGED <<server, req>>
BY DEF Goto, TypeOK, ProcessesOK

\* A goroutine that returns touches the variables of no other.
LEMMA ReturnOthers ==
  ASSUME TypeOK, NEW p \in Procs, NEW state, Return(p, state)
  PROVE  /\ \A q \in Procs \ {p} : pc'[q] = pc[q] /\ local'[q] = local[q]
         /\ pc'[p] = "idle" /\ local'[p] = Blank /\ server' = state
BY DEF Return, TypeOK, ProcessesOK

\* The writes of a handler.
Commit(h) ==
  \/ CreateUser(h) \/ CreateGroup(h) \/ CreateRole(h)
  \/ AddGroupMember(h) \/ RemoveGroupMember(h) \/ UpdateRole(h)
  \/ CreateBinding(h) \/ DeleteBinding(h) \/ GrantLegacy(h) \/ RevokeLegacy(h)
  \/ CreateResource(h) \/ DeleteResource(h)

\* The other steps of a handler before Sync.
Reads(h) ==
  \/ Authorize(h) \/ Check(h) \/ Validate(h) \/ PreviewRole(h) \/ PreviewBindings(h)
  \/ GetUpserted(h)

\* A handler reads or writes.
LEMMA HandleParts ==
  ASSUME NEW h \in Handlers, Handle(h)
  PROVE  Reads(h) \/ Commit(h)
BY DEF Handle, Reads, Commit

\* What a handler reads before Sync changes no store.
LEMMA ReadsKeep ==
  ASSUME NEW h \in Handlers, Reads(h)
  PROVE  UNCHANGED stores
BY DEF Reads, Authorize, Check, Validate, PreviewRole, PreviewBindings, GetUpserted, Fail

\* Sync changes no table but synced_tuples.
LEMMA SyncKeeps ==
  ASSUME NEW p, Sync(p)
  PROVE  UNCHANGED policyVars
BY DEF Sync, ListResources, GetResources, ListMemberships, ListBindings, GetBinding,
       CompileBinding, ListSyncedTuples, Write, ReplaceSyncedTuples, Fail, stores

\* The policy changes when the database is seeded and when a handler writes.
LEMMA PolicyChanges ==
  ASSUME [Next]_vars, policyVars' # policyVars
  PROVE  Start \/ \E h \in Handlers : Commit(h)
<1>1. ~Crash /\ ~UNCHANGED vars
  BY DEF Crash, vars, stores
<1>2. ASSUME NEW h \in Handlers PROVE ~Receive(h)
  BY DEF Receive, stores
<1>3. ASSUME NEW p \in Procs PROVE ~Sync(p) /\ ~Abort(p)
  BY SyncKeeps DEF Abort, Fail, stores
<1>4. ASSUME NEW h \in Handlers, Handle(h) PROVE Commit(h)
  BY <1>4, HandleParts, ReadsKeep DEF stores
<1> QED BY <1>1, <1>2, <1>3, <1>4 DEF Next

-------------------------------------------------------------------------------
(* What a Sync collects *)

\* The primary key of roles.
RoleKeys == \A r, s \in roles : r.id = s.id => r = s

Base == ParentTuples(resources) \cup MembershipTuples(members)

TuplesOf(rs, b) == UNION {BindingTuples(b, role) : role \in RowsWithId(rs, b.role)}

\* The bindings that the Sync of p has turned into tuples.
Done(p) == {b \in bindings : b.id \notin local[p].left /\ b \notin local[p].rows}

Compiled(p) ==
  /\ local[p].rows \subseteq bindings
  /\ local[p].desired = Base \cup UNION {TuplesOf(roles, b) : b \in Done(p)}
  /\ \A b \in Done(p) : \E role \in roles :
       role.id = b.role /\ Projectable(b, role.permissions)

\* What p has collected is that part of the projection of the policy.
Collected(p) ==
  /\ pc[p] = "GetResources" => local[p].rows = resources
  /\ pc[p] = "ListMemberships" =>
       local[p].desired = ParentTuples(resources) /\ local[p].rows = {}
  /\ pc[p] = "ListBindings" => local[p].desired = Base /\ local[p].rows = {}
  /\ pc[p] = "Bindings" => Compiled(p)
  /\ pc[p] \in {"Write", "ReplaceSyncedTuples"} =>
       Sound(policy) /\ local[p].desired = Project(policy)

\* The projection is that of resources and memberships, and of each binding.
LEMMA ProjectParts ==
  Project(policy) = Base \cup UNION {TuplesOf(roles, b) : b \in bindings}
BY DEF Project, policy, Base, TuplesOf

\* Sync's loop over the bindings collects the part of the projection that it has passed.
LEMMA CompileCollects ==
  ASSUME TypeOK, RoleKeys, NEW p \in Procs, Collected(p), CompileBinding(p), ~Fail(p)
  PROVE  Collected(p)'
<1>0. pc[p] = "Bindings" /\ local[p].left = {} /\ local[p] \in Locals /\ Compiled(p)
  BY DEF CompileBinding, Collected, TypeOK, ProcessesOK
<1>1. PICK b \in local[p].rows :
        /\ \E role \in RowsWithId(roles, b.role) : Projectable(b, role.permissions)
        /\ \E role \in RowsWithId(roles, b.role) :
             Goto(p, "Bindings",
                  [local[p] EXCEPT !.rows = @ \ {b},
                                   !.desired = @ \cup BindingTuples(b, role),
                                   !.repeated = @ \/ Repeats(b, role.permissions)])
        /\ UNCHANGED stores
  BY DEF CompileBinding
<1>2. PICK role \in RowsWithId(roles, b.role) :
             Goto(p, "Bindings",
                  [local[p] EXCEPT !.rows = @ \ {b},
                                   !.desired = @ \cup BindingTuples(b, role),
                                   !.repeated = @ \/ Repeats(b, role.permissions)])
  BY <1>1
<1> DEFINE vals == [local[p] EXCEPT !.rows = @ \ {b},
                                    !.desired = @ \cup BindingTuples(b, role),
                                    !.repeated = @ \/ Repeats(b, role.permissions)]
<1>3. b \in bindings /\ role \in roles /\ role.id = b.role
  BY <1>0, <1>1 DEF Compiled, RowsWithId
<1>4. RowsWithId(roles, b.role) = {role}
  BY <1>3 DEF RowsWithId, RoleKeys
<1>5. TuplesOf(roles, b) = BindingTuples(b, role) /\ Projectable(b, role.permissions)
  BY <1>1, <1>4 DEF TuplesOf
<1>6. /\ vals.left = {} /\ vals.rows = local[p].rows \ {b}
      /\ vals.desired = local[p].desired \cup TuplesOf(roles, b)
  BY <1>0, <1>5 DEF Locals
<1>7. pc'[p] = "Bindings" /\ local'[p] = vals
  BY <1>2, GotoOthers
<1> HIDE DEF vals
<1>8. Done(p)' = Done(p) \cup {b}
  BY <1>0, <1>1, <1>3, <1>6, <1>7 DEF Done, stores, policyVars
<1>9. Compiled(p)'
  <2>1. UNCHANGED <<roles, bindings>> /\ Base' = Base
    BY <1>1 DEF Base, stores, policyVars
  <2>2. local'[p].rows \subseteq bindings'
    BY <1>0, <1>6, <1>7, <2>1 DEF Compiled
  <2>3. local'[p].desired = Base \cup UNION {TuplesOf(roles, c) : c \in Done(p) \cup {b}}
    BY <1>0, <1>6, <1>7 DEF Compiled
  <2>4. \A c \in Done(p) \cup {b} : \E r \in roles :
          r.id = c.role /\ Projectable(c, r.permissions)
    BY <1>0, <1>3, <1>5 DEF Compiled
  <2> QED BY <1>8, <2>1, <2>2, <2>3, <2>4 DEF Compiled
<1> QED BY <1>7, <1>9 DEF Collected

\* A goroutine that has collected nothing yet.
LEMMA NothingCollected ==
  ASSUME NEW p, pc[p] \notin {"GetResources", "ListMemberships", "ListBindings", "Bindings",
                              "Write", "ReplaceSyncedTuples"}
  PROVE  Collected(p)
BY DEF Collected

\* Each call of Sync collects the next part of the projection of the policy.
LEMMA SyncCollects ==
  ASSUME TypeOK, RoleKeys, NEW p \in Procs, Collected(p), Sync(p)
  PROVE  Collected(p)'
<1>0. local[p] \in Locals
  BY DEF TypeOK, ProcessesOK
<1>1. CASE pc'[p] = "idle"
  BY <1>1 DEF Collected
<1>2. CASE Fail(p)
  BY <1>1, <1>2, ReturnOthers DEF Fail
<1>3. CASE ListResources(p)
  <2>1. pc'[p] = "GetResources" /\ local'[p] = [Blank EXCEPT !.rows = resources]
        /\ UNCHANGED stores
    BY <1>3, GotoOthers DEF ListResources
  <2>2. local'[p].rows = resources'
    BY <2>1 DEF Blank, stores, policyVars
  <2> QED BY <2>1, <2>2 DEF Collected
<1>4. CASE GetResources(p) /\ ~Fail(p)
  <2>1. /\ pc'[p] = "ListMemberships" /\ local[p].rows = resources
        /\ local'[p] = [Blank EXCEPT !.desired = ParentTuples(local[p].rows)]
        /\ UNCHANGED stores
    BY <1>4, GotoOthers DEF GetResources, Collected
  <2>2. local'[p].desired = ParentTuples(resources') /\ local'[p].rows = {}
    BY <2>1 DEF Blank, stores, policyVars
  <2> QED BY <2>1, <2>2 DEF Collected
<1>5. CASE ListMemberships(p)
  <2>1. /\ pc'[p] = "ListBindings"
        /\ local[p].desired = ParentTuples(resources) /\ local[p].rows = {}
        /\ local'[p] = [local[p] EXCEPT !.desired = @ \cup MembershipTuples(members)]
        /\ UNCHANGED stores
    BY <1>5, GotoOthers DEF ListMemberships, Collected
  <2>2. local'[p].desired = Base' /\ local'[p].rows = {}
    BY <1>0, <2>1 DEF Base, Locals, stores, policyVars
  <2> QED BY <2>1, <2>2 DEF Collected
<1>6. CASE ListBindings(p)
  <2>1. /\ pc'[p] = "Bindings"
        /\ local[p].desired = Base /\ local[p].rows = {}
        /\ local'[p] = [local[p] EXCEPT !.left = {b.id : b \in bindings}]
        /\ UNCHANGED stores
    BY <1>6, GotoOthers DEF ListBindings, Collected
  <2>2. /\ local'[p].desired = Base /\ local'[p].rows = {}
        /\ local'[p].left = {b.id : b \in bindings}
    BY <1>0, <2>1 DEF Locals
  <2>3. Done(p)' = {} /\ Base' = Base
    BY <2>1, <2>2 DEF Done, Base, stores, policyVars
  <2>4. Compiled(p)'
    BY <2>2, <2>3 DEF Compiled
  <2> QED BY <2>1, <2>4 DEF Collected
<1>7. CASE GetBinding(p) /\ ~Fail(p)
  <2>1. PICK id \in local[p].left :
          /\ Goto(p, "Bindings", [local[p] EXCEPT !.left = @ \ {id},
                                                 !.rows = @ \cup RowsWithId(bindings, id)])
          /\ UNCHANGED stores /\ pc[p] = "Bindings"
    BY <1>7 DEF GetBinding
  <2> DEFINE vals == [local[p] EXCEPT !.left = @ \ {id},
                                      !.rows = @ \cup RowsWithId(bindings, id)]
  <2>2. /\ vals.desired = local[p].desired
        /\ vals.left = local[p].left \ {id}
        /\ vals.rows = local[p].rows \cup RowsWithId(bindings, id)
    BY <1>0 DEF Locals
  <2>3. pc'[p] = "Bindings" /\ local'[p] = vals
    BY <2>1, GotoOthers
  <2> HIDE DEF vals
  <2>4. Done(p)' = Done(p) /\ Base' = Base
    BY <2>1, <2>2, <2>3 DEF Done, Base, RowsWithId, stores, policyVars
  <2>5. Compiled(p)'
    BY <2>1, <2>2, <2>3, <2>4 DEF Collected, Compiled, RowsWithId, stores, policyVars
  <2> QED BY <2>3, <2>5 DEF Collected
<1>8. CASE CompileBinding(p) /\ ~Fail(p)
  BY <1>8, CompileCollects
<1>9. CASE ListSyncedTuples(p)
  <2>1. /\ pc[p] = "Bindings" /\ local[p].left = {} /\ local[p].rows = {}
        /\ pc'[p] = "Write" /\ local'[p] = [local[p] EXCEPT !.current = synced]
        /\ UNCHANGED stores
    BY <1>9, GotoOthers DEF ListSyncedTuples
  <2>2. local'[p].desired = local[p].desired
    BY <1>0, <2>1 DEF Locals
  <2>3. Done(p) = bindings /\ Compiled(p)
    BY <2>1 DEF Done, Collected
  <2>4. local[p].desired = Project(policy) /\ Sound(policy)
    BY <2>3, ProjectParts DEF Compiled, Sound, policy
  <2>5. policy' = policy
    BY <2>1 DEF policy, stores, policyVars
  <2> QED BY <2>1, <2>2, <2>4, <2>5 DEF Collected
<1>10. CASE Write(p) /\ ~Fail(p)
  <2>1. /\ pc[p] = "Write" /\ pc'[p] = "ReplaceSyncedTuples" /\ local'[p] = local[p]
        /\ UNCHANGED policyVars
    BY <1>10, GotoOthers DEF Write
  <2>2. policy' = policy
    BY <2>1 DEF policy, policyVars
  <2> QED BY <2>1, <2>2 DEF Collected
<1>11. CASE ReplaceSyncedTuples(p)
  BY <1>1, <1>11, <1>2, ReturnOthers DEF ReplaceSyncedTuples
<1> QED BY <1>2, <1>3, <1>4, <1>5, <1>6, <1>7, <1>8, <1>9, <1>10, <1>11 DEF Sync

-------------------------------------------------------------------------------
(* Startup *)

\* CreateRole refuses an id in use, UpdateRole keeps it, the seed ignores a row whose id is
\* taken.
LEMMA RoleKeysStep ==
  ASSUME TypeOK, RoleKeys, [Next]_vars
  PROVE  RoleKeys'
<1>1. CASE roles' = roles
  BY <1>1 DEF RoleKeys
<1>2. CASE Start
  BY <1>2, SeedKeysAssumption DEF Start, Seed, RoleKeys, RowsWithId
<1>3. ASSUME NEW h \in Handlers, CreateRole(h), ~Fail(h)
      PROVE  RoleKeys'
  <2> DEFINE new == [id |-> req[h].role, builtIn |-> FALSE, revision |-> 1,
                     permissions |-> req[h].permissions]
  <2>1. roles' = roles \cup {new} /\ RowsWithId(roles, req[h].role) = {} /\ new.id = req[h].role
    BY <1>3 DEF CreateRole
  <2> HIDE DEF new
  <2> QED BY <2>1 DEF RoleKeys, RowsWithId
<1>4. ASSUME NEW h \in Handlers, UpdateRole(h), ~Fail(h)
      PROVE  RoleKeys'
  <2> DEFINE Updated(role) == [role EXCEPT !.revision = @ + 1,
                                           !.permissions = req[h].permissions]
  <2>1. \A role \in roles : Updated(role).id = role.id
    BY DEF TypeOK, StoresOK, Role
  <2>2. roles' = {IF role.id # req[h].role THEN role ELSE Updated(role) : role \in roles}
    BY <1>4 DEF UpdateRole
  <2> HIDE DEF Updated
  <2> QED BY <2>1, <2>2 DEF RoleKeys
<1>5. ASSUME NEW h \in Handlers, Commit(h), (~CreateRole(h) /\ ~UpdateRole(h)) \/ Fail(h)
      PROVE  roles' = roles
  BY <1>5 DEF Commit, CreateUser, CreateGroup, AddGroupMember, RemoveGroupMember, CreateBinding,
              DeleteBinding, RemoveBinding, GrantLegacy, RevokeLegacy, Upsert, CreateResource,
              DeleteResource, Fail, stores, policyVars
<1>6. CASE policyVars' # policyVars
  BY <1>1, <1>2, <1>3, <1>4, <1>5, <1>6, PolicyChanges
<1> QED BY <1>1, <1>6 DEF policyVars

StartupInv == RoleKeys /\ Collected(Main)

\* While startup is busy no request is: nothing changes the policy.
LEMMA StartupStep ==
  ASSUME TypeOK, StartupInv, [Next]_vars
  PROVE  StartupInv'
<1> SUFFICES Collected(Main)'
  BY RoleKeysStep DEF StartupInv
<1>0. Main \in Procs /\ Main \notin Handlers
  BY ProcessAssumption DEF Procs
<1>1. ASSUME pc'[Main] \in {"idle", "ListResources"} PROVE Collected(Main)'
  BY <1>1 DEF Collected
<1>2. CASE Start
  BY <1>0, <1>1, <1>2 DEF Start, TypeOK, ProcessesOK
<1>3. CASE Crash
  BY <1>0, <1>1, <1>3 DEF Crash
<1>4. ASSUME NEW h \in Handlers, Receive(h) \/ Handle(h)
      PROVE  Collected(Main)'
  <2>1. server = "serving"
    BY <1>4 DEF Receive, Handle, Authorize, Check, Validate, PreviewRole, PreviewBindings,
                GetUpserted, CreateUser, CreateGroup, CreateRole, AddGroupMember,
                RemoveGroupMember, UpdateRole, CreateBinding, DeleteBinding, GrantLegacy,
                RevokeLegacy, CreateResource, DeleteResource, Committing, TypeOK, ProcessesOK
  <2>2. pc[Main] = "idle"
    BY <2>1 DEF TypeOK, ProcessesOK
  <2>3. pc'[Main] = pc[Main]
    BY <1>0, <1>4 DEF Receive, Handle, Authorize, Check, Validate, PreviewRole, PreviewBindings,
                GetUpserted, CreateUser, CreateGroup, CreateRole, AddGroupMember,
                RemoveGroupMember, UpdateRole, CreateBinding, DeleteBinding, RemoveBinding,
                GrantLegacy, RevokeLegacy, Upsert, CreateResource, DeleteResource, Fail, Respond,
                Synchronize, Return, Goto, TypeOK, ProcessesOK
  <2> QED BY <1>1, <2>2, <2>3
<1>5. CASE Sync(Main)
  BY <1>0, <1>5, SyncCollects DEF StartupInv
<1>6. CASE Abort(Main)
  BY <1>0, <1>1, <1>6, ReturnOthers DEF Abort, Fail
<1>7. ASSUME NEW h \in Handlers, Sync(h) \/ Abort(h)
      PROVE  Collected(Main)'
  <2>1. pc[h] # "idle"
    BY <1>7 DEF Sync, ListResources, GetResources, ListMemberships, ListBindings, GetBinding,
                CompileBinding, ListSyncedTuples, Write, ReplaceSyncedTuples, Abort
  <2>2. pc[Main] = "idle"
    BY <2>1 DEF TypeOK, ProcessesOK
  <2>3. pc'[Main] = pc[Main]
    BY <1>0, <1>7 DEF Sync, ListResources, GetResources, ListMemberships, ListBindings,
                GetBinding, CompileBinding, ListSyncedTuples, Write, ReplaceSyncedTuples, Abort,
                Fail, Return, Goto, TypeOK, ProcessesOK
  <2> QED BY <1>1, <2>2, <2>3
<1>8. CASE UNCHANGED vars
  <2>1. UNCHANGED <<pc, local, policy>> /\ Base' = Base /\ Done(Main)' = Done(Main)
    BY <1>8 DEF vars, stores, policyVars, policy, Base, Done
  <2>2. UNCHANGED <<roles, bindings, resources>>
    BY <1>8 DEF vars, stores, policyVars
  <2> QED BY <2>1, <2>2 DEF StartupInv, Collected, Compiled
<1> QED BY <1>2, <1>3, <1>4, <1>5, <1>6, <1>7, <1>8 DEF Next, Procs

\* Startup's Sync records the projection of the policy, whatever requests, failures and
\* crashes came before it.
THEOREM StartupRecorded == Spec => StartupRecords
<1>1. Init => StartupInv
  BY NothingCollected, ProcessAssumption DEF Init, StartupInv, RoleKeys, Procs
<1>2. TypeOK /\ StartupInv /\ [Next]_vars => StartupInv'
  BY StartupStep
<1>3. TypeOK /\ StartupInv /\ [Next]_vars =>
        [Succeeds(Main) => synced' = Project(policy)']_vars
  <2> SUFFICES ASSUME StartupInv, Succeeds(Main) PROVE synced' = Project(policy)'
    OBVIOUS
  <2>1. synced' = local[Main].desired /\ local[Main].desired = Project(policy)
        /\ UNCHANGED policyVars
    BY DEF Succeeds, ReplaceSyncedTuples, StartupInv, Collected
  <2>2. policy' = policy
    BY <2>1 DEF policy, policyVars
  <2> QED BY <2>1, <2>2
<1> QED BY <1>1, <1>2, <1>3, TypeCorrect, PTL DEF Spec, StartupRecords

-------------------------------------------------------------------------------
(***************************************************************************)
(* What a handler knows at the moment of its write.  Every mutation of     *)
(* PermissionService checks and looks up in some calls what it relies on   *)
(* in a later one.  With one request at a time all of it still holds then, *)
(* whatever fails in between: the invariant Established says, for each     *)
(* call of a handler, what the calls before it have established.  And what *)
(* holds of the tables at every moment: keys, types, and that a projection *)
(* of them decides as they say.                                            *)
(***************************************************************************)

OneAtATime == \A g, h \in Handlers : g = h

-------------------------------------------------------------------------------
(* The invariants *)

\* The primary keys of the tables; the ids in them, and those of the seed, are
\* not generated again.
BindingKeys ==
  /\ \A b, c \in bindings : b.id = c.id => b = c
  /\ \A b \in bindings \cup SeedBindings : b.id \in issued

ResourceKeys ==
  /\ \A r, s \in resources : r.ref = s.ref => r = s
  /\ \A r \in resources \cup SeedResources : r.ref[2] \in issued

Keys == RoleKeys /\ BindingKeys /\ ResourceKeys

\* A resource at which r needs its permission is there.
Located(r) == \E ref \in NeedsOn(r) : ref = ControllerRef \/ Exists(resources, ref)

\* Handler h has passed Service.require.
Authorized(h) ==
  \/ pc[h] \in {"Preview", "PreviewBindings", "Commit"}
  \/ pc[h] = "Validate" /\ FirstCall(req[h]) = "Authorize"

\* The operations that look at the rows they depend on before they write.
Validating ==
  {"CreateBinding", "GrantLegacy", "RevokeLegacy", "CreateResource", "DeleteResource"}

\* Handler h has validated its request.
Validated(h) ==
  \/ pc[h] \in {"Authorize", "Check"} /\ FirstCall(req[h]) = "Validate"
  \/ pc[h] = "Commit" /\ req[h].op \in Validating

\* Every binding to the role of r can be projected with the permissions of r.
Fits(r) == \A b \in bindings : b.role = r.role => Projectable(b, r.permissions)

Established(h) ==
  LET r == req[h] IN
  /\ pc[h] = "Validate" => r.op \in Validating
  /\ pc[h] \in {"Preview", "PreviewBindings"} => r.op = "UpdateRole"
  /\ pc[h] = "Check" => Located(r) /\ local[h].on = NeedsOn(r)
  /\ Authorized(h) => Permitted(r)
  /\ Validated(h) => Valid(r)
  /\ (pc[h] = "Commit" /\ r.op = "RevokeLegacy") =>
       local[h].left = {b.id : b \in RevokedBindings(r)}
  /\ pc[h] = "PreviewBindings" => local[h].left = {b.id : b \in bindings}
  /\ (pc[h] = "Commit" /\ r.op = "UpdateRole") => Fits(r)

HandlersInv == Keys /\ \A h \in Handlers : Established(h)

-------------------------------------------------------------------------------
(* Keys *)

\* A handler that writes is busy with a request.
LEMMA CommitBusy ==
  ASSUME TypeOK, NEW h \in Handlers, Commit(h)
  PROVE  pc[h] = "Commit" /\ req[h] \in Requests /\ server = "serving"
BY DEF Commit, CreateUser, CreateGroup, CreateRole, AddGroupMember, RemoveGroupMember, UpdateRole,
       CreateBinding, DeleteBinding, GrantLegacy, RevokeLegacy, CreateResource, DeleteResource,
       Committing, TypeOK, ProcessesOK

\* A row with a new id, and one that keeps its id, keep the ids apart.
LEMMA NewBinding ==
  ASSUME BindingKeys, NEW new, new.id \notin issued,
         bindings' = bindings \cup {new}, issued' = issued \cup {new.id}
  PROVE  BindingKeys'
BY DEF BindingKeys

\* The upsert of a compatibility binding changes a row in place or inserts a new one.
LEMMA UpsertKeys ==
  ASSUME TypeOK, BindingKeys, NEW h, NEW user, NEW role, NEW model, Upsert(h, user, role, model)
  PROVE  BindingKeys'
<1>1. ASSUME NEW b \in CompatibilityBindings(bindings, user, model),
             bindings' = (bindings \ {b}) \cup {[b EXCEPT !.role = role]}, issued' = issued
      PROVE  BindingKeys'
  <2> DEFINE new == [b EXCEPT !.role = role]
  <2>1. b \in bindings /\ b \in Binding
    BY DEF CompatibilityBindings, TypeOK, StoresOK
  <2>2. new.id = b.id
    BY <2>1 DEF Binding
  <2> HIDE DEF new
  <2>3. bindings' = (bindings \ {b}) \cup {new}
    BY <1>1 DEF new
  <2> QED BY <1>1, <2>1, <2>2, <2>3 DEF BindingKeys
<1>2. ASSUME NEW id \in BindingId \ issued,
             bindings' = bindings \cup
               {[id |-> id, subject |-> <<"user", user>>, role |-> role,
                 scope |-> <<"model", model>>, match |-> "scope", resources |-> <<>>,
                 compatibility |-> TRUE]},
             issued' = issued \cup {id}
      PROVE  BindingKeys'
  <2> DEFINE new == [id |-> id, subject |-> <<"user", user>>, role |-> role,
                     scope |-> <<"model", model>>, match |-> "scope", resources |-> <<>>,
                     compatibility |-> TRUE]
  <2>1. new.id = id /\ bindings' = bindings \cup {new}
    BY <1>2
  <2> HIDE DEF new
  <2> QED BY <1>2, <2>1, NewBinding
<1> QED BY <1>1, <1>2 DEF Upsert

\* Keys stay keys, whatever the handlers do at the same time: each insertion
\* is one statement, and store.seed ignores rows whose key is taken.
LEMMA KeysStep ==
  ASSUME TypeOK, Keys, [Next]_vars
  PROVE  Keys'
<1> USE DEF Keys
<1>1. RoleKeys'
  BY RoleKeysStep
<1>2. CASE UNCHANGED policyVars
  BY <1>1, <1>2 DEF policyVars, BindingKeys, ResourceKeys
<1>3. CASE Start
  <2>1. BindingKeys'
    BY <1>3, SeedKeysAssumption DEF Start, Seed, BindingKeys
  <2>2. ResourceKeys'
    BY <1>3, SeedKeysAssumption DEF Start, Seed, ResourceKeys
  <2> QED BY <1>1, <2>1, <2>2
<1>4. ASSUME NEW h \in Handlers, Commit(h), ~Fail(h)
      PROVE  BindingKeys' /\ ResourceKeys'
  <2>1. CASE UNCHANGED <<bindings, resources, issued>>
    BY <2>1 DEF BindingKeys, ResourceKeys
  <2>2. CASE CreateUser(h) \/ CreateGroup(h) \/ CreateRole(h) \/ AddGroupMember(h)
               \/ RemoveGroupMember(h) \/ UpdateRole(h)
    BY <1>4, <2>1, <2>2 DEF CreateUser, CreateGroup, CreateRole, AddGroupMember,
                            RemoveGroupMember, UpdateRole
  <2>3. ASSUME BindingKeys', resources' = resources, issued \subseteq issued'
        PROVE  BindingKeys' /\ ResourceKeys'
    BY <2>3 DEF ResourceKeys
  <2>4. CASE CreateBinding(h)
    <3> DEFINE new(id) == [id |-> id, subject |-> req[h].subject, role |-> req[h].role,
                           scope |-> req[h].scope, match |-> req[h].match,
                           resources |-> req[h].resources, compatibility |-> FALSE]
    <3>1. PICK id \in BindingId \ issued :
            /\ bindings' = bindings \cup {new(id)} /\ issued' = issued \cup {id}
            /\ resources' = resources
      BY <1>4, <2>4 DEF CreateBinding
    <3>2. new(id).id = id
      OBVIOUS
    <3> HIDE DEF new
    <3>3. BindingKeys'
      BY <3>1, <3>2, NewBinding
    <3> QED BY <2>3, <3>1, <3>3
  <2>5. ASSUME NEW ids, RemoveBinding(h, ids) PROVE BindingKeys' /\ ResourceKeys'
    BY <1>4, <2>5 DEF RemoveBinding, BindingKeys, ResourceKeys
  <2>6. ASSUME NEW user, NEW role, NEW model, Upsert(h, user, role, model)
        PROVE  BindingKeys' /\ ResourceKeys'
    <3>1. resources' = resources /\ issued \subseteq issued'
      BY <2>6 DEF Upsert
    <3> QED BY <2>3, <2>6, <3>1, UpsertKeys
  <2>7. CASE DeleteBinding(h) \/ GrantLegacy(h) \/ RevokeLegacy(h)
    BY <2>5, <2>6, <2>7 DEF DeleteBinding, GrantLegacy, RevokeLegacy
  <2>8. CASE CreateResource(h)
    <3> DEFINE new(id) == [ref |-> <<req[h].type, id>>, name |-> req[h].name,
                           parent |-> req[h].parent]
    <3>1. PICK id \in ResourceId \ issued :
            /\ resources' = resources \cup {new(id)} /\ issued' = issued \cup {id}
            /\ bindings' = bindings
      BY <1>4, <2>8 DEF CreateResource
    <3>2. new(id).ref[2] = id
      OBVIOUS
    <3> HIDE DEF new
    <3> QED BY <3>1, <3>2 DEF BindingKeys, ResourceKeys
  <2>9. CASE DeleteResource(h)
    BY <1>4, <2>9 DEF DeleteResource, BindingKeys, ResourceKeys
  <2> QED BY <1>4, <2>2, <2>4, <2>7, <2>8, <2>9 DEF Commit
<1>5. CASE policyVars' # policyVars
  BY <1>1, <1>3, <1>4, <1>5, PolicyChanges DEF Fail, stores
<1> QED BY <1>2, <1>5

-------------------------------------------------------------------------------
(* Where a permission is needed *)

\* A resource has one parent.
LEMMA OneParent ==
  ASSUME ResourceKeys, NEW ref
  PROVE  \E x : ParentsOf(resources, {ref}) \subseteq {x}
BY DEF ResourceKeys, ParentsOf

\* managementScope finds one scope, or fails.
LEMMA OneScope ==
  ASSUME ResourceKeys, NEW ref
  PROVE  \E x : ManagementScopes(resources, ref) \subseteq {x}
<1> DEFINE Climb(refs) == {r \in refs : PolicyScope(r)}
                            \cup ParentsOf(resources, {r \in refs : ~PolicyScope(r)})
<1>1. ASSUME NEW refs, \E x : refs \subseteq {x} PROVE \E x : Climb(refs) \subseteq {x}
  <2>1. PICK x : refs \subseteq {x}
    BY <1>1
  <2>2. CASE PolicyScope(x)
    <3>1. {r \in refs : ~PolicyScope(r)} = {}
      BY <2>1, <2>2
    <3> QED BY <2>1, <3>1 DEF ParentsOf
  <2>3. CASE ~PolicyScope(x)
    <3>1. {r \in refs : PolicyScope(r)} = {} /\ {r \in refs : ~PolicyScope(r)} \subseteq {x}
      BY <2>1, <2>3
    <3>2. Climb(refs) \subseteq ParentsOf(resources, {x})
      BY <3>1 DEF ParentsOf
    <3> QED BY <3>2, OneParent
  <2> QED BY <2>2, <2>3
<1>2. \E x : Climb(Climb({ref})) \subseteq {x}
  <2>1. \E x : Climb({ref}) \subseteq {x}
    BY <1>1
  <2> HIDE DEF Climb
  <2> QED BY <1>1, <2>1
<1>3. ManagementScopes(resources, ref) \subseteq Climb(Climb({ref}))
  BY DEF ManagementScopes
<1> QED BY <1>2, <1>3

\* So the resource that is there is the one that OpenFGA is asked about.
LEMMA OneNeedsOn ==
  ASSUME Keys, NEW r
  PROVE  \E x : NeedsOn(r) \subseteq {x}
<1> USE DEF Keys
<1>1. CASE r.op = "CreateBinding"
  BY <1>1, OneScope DEF NeedsOn
<1>2. CASE r.op = "DeleteBinding"
  <2>1. \E b : RowsWithId(bindings, r.binding) \subseteq {b}
    BY DEF BindingKeys, RowsWithId
  <2>2. PICK b : RowsWithId(bindings, r.binding) \subseteq {b}
    BY <2>1
  <2>3. NeedsOn(r) \subseteq ManagementScopes(resources, b.scope)
    BY <1>2, <2>2 DEF NeedsOn
  <2> QED BY <2>3, OneScope
<1>3. CASE r.op \notin {"CreateBinding", "DeleteBinding"}
  BY <1>3 DEF NeedsOn
<1> QED BY <1>1, <1>2, <1>3

-------------------------------------------------------------------------------
(* What a handler has established *)

\* What a handler relies on stays as it is while the stores do.
LEMMA FactsKept ==
  ASSUME UNCHANGED stores, NEW h, req'[h] = req[h]
  PROVE  /\ NeedsOn(req[h])' = NeedsOn(req[h])
         /\ Located(req[h])' = Located(req[h])
         /\ Permitted(req[h])' = Permitted(req[h])
         /\ Valid(req[h])' = Valid(req[h])
         /\ RevokedBindings(req[h])' = RevokedBindings(req[h])
         /\ Fits(req[h])' = Fits(req[h])
<1> USE DEF stores, policyVars
<1>1. NeedsOn(req[h])' = NeedsOn(req[h])
  BY DEF NeedsOn
<1>2. RevokedBindings(req[h])' = RevokedBindings(req[h])
  BY DEF RevokedBindings
<1>3. Valid(req[h])' = Valid(req[h])
  BY <1>2 DEF Valid, ValidBinding, ValidParent, ValidGrant, SubjectExists
<1>4. Located(req[h])' = Located(req[h]) /\ Permitted(req[h])' = Permitted(req[h])
  BY <1>1 DEF Located, Permitted
<1>5. Fits(req[h])' = Fits(req[h])
  BY DEF Fits
<1> QED BY <1>1, <1>2, <1>3, <1>4, <1>5

\* Each call before the write establishes what the next ones rely on.
LEMMA ReadsEstablish ==
  ASSUME TypeOK, Keys, NEW h \in Handlers, Established(h), Reads(h)
  PROVE  Established(h)'
<1> USE HandlerType
<1> DEFINE r == req[h]
<1>1. CASE Fail(h)
  <2>1. pc'[h] = "idle"
    BY <1>1, ReturnOthers DEF Fail
  <2> QED BY <2>1 DEF Established, Authorized, Validated
<1>2. CASE ~Fail(h)
  <2>0. UNCHANGED stores
    BY ReadsKeep
  <2>1. ASSUME NEW stage, NEW vals, Goto(h, stage, vals)
        PROVE  pc'[h] = stage /\ local'[h] = vals /\ req'[h] = r
    BY <2>1, GotoOthers
  <2>2. CASE Authorize(h)
    <3>1. /\ Goto(h, "Check", [Blank EXCEPT !.on = NeedsOn(r)]) /\ pc[h] = "Authorize"
          /\ Located(r)
      BY <1>2, <2>2 DEF Authorize, Located
    <3>2. pc'[h] = "Check" /\ local'[h].on = NeedsOn(r) /\ req'[h] = r
      BY <2>1, <3>1 DEF Blank
    <3>3. Validated(h) <=> Validated(h)'
      BY <3>1, <3>2 DEF Validated
    <3> QED BY <2>0, <3>1, <3>2, <3>3, FactsKept DEF Established, Authorized
  <2>3. CASE Check(h)
    <3>1. /\ Goto(h, AfterCheck(r), Blank) /\ pc[h] = "Check" /\ Permitted(r)
      <4>1. PICK ref \in local[h].on : Allows(fga, r.actor, Needs(r), ref)
        BY <1>2, <2>3 DEF Check
      <4>2. local[h].on = NeedsOn(r) /\ Located(r) /\ pc[h] = "Check"
        BY <2>3 DEF Check, Established
      <4>3. ref = ControllerRef \/ Exists(resources, ref)
        BY <4>1, <4>2, OneNeedsOn DEF Located
      <4> QED BY <1>2, <2>3, <4>1, <4>2, <4>3 DEF Check, Permitted
    <3>2. /\ pc'[h] = AfterCheck(r) /\ req'[h] = r /\ local'[h] = Blank
      BY <2>1, <3>1
    <3>3. AfterCheck(r) \in {"Preview", "Validate", "Commit"}
          /\ (AfterCheck(r) = "Commit" => r.op \notin {"UpdateRole", "RevokeLegacy"})
      BY DEF AfterCheck
    <3>4. Validated(h)' => Validated(h)
      BY <3>1, <3>2, <3>3 DEF Validated, AfterCheck, FirstCall, Validating
    <3>5. /\ AfterCheck(r) = "Validate" => r.op \in Validating
          /\ AfterCheck(r) = "Preview" => r.op = "UpdateRole"
      BY DEF AfterCheck, Validating
    <3> QED BY <2>0, <3>1, <3>2, <3>3, <3>4, <3>5, FactsKept DEF Established
  <2>4. CASE Validate(h)
    <3> DEFINE revoked == IF r.op = "RevokeLegacy" THEN {b.id : b \in RevokedBindings(r)} ELSE {}
               vals == [Blank EXCEPT !.left = revoked]
    <3>1. /\ Goto(h, AfterValidate(r), vals) /\ pc[h] = "Validate"
          /\ Valid(r)
      BY <1>2, <2>4 DEF Validate
    <3>2. vals.left = revoked
      BY DEF Blank
    <3> HIDE DEF vals
    <3>3. /\ pc'[h] = AfterValidate(r) /\ req'[h] = r /\ local'[h].left = revoked
      BY <2>1, <3>1, <3>2
    <3>4. AfterValidate(r) \in {"Authorize", "Commit"}
          /\ (AfterValidate(r) = "Commit" => FirstCall(r) = "Authorize")
      BY DEF AfterValidate, FirstCall
    <3>5. Authorized(h)' => Authorized(h)
      BY <3>1, <3>3, <3>4 DEF Authorized
    <3>6. (pc'[h] = "Commit" /\ r.op = "UpdateRole") => FALSE
      BY <3>1 DEF Established, Validating
    <3> QED BY <2>0, <3>1, <3>3, <3>4, <3>5, <3>6, FactsKept DEF Established
  <2>5. CASE PreviewRole(h)
    <3>1. /\ Goto(h, "PreviewBindings", [Blank EXCEPT !.left = {b.id : b \in bindings}])
          /\ pc[h] = "Preview"
      BY <1>2, <2>5 DEF PreviewRole
    <3>2. pc'[h] = "PreviewBindings" /\ req'[h] = r /\ local'[h].left = {b.id : b \in bindings}
      BY <2>1, <3>1 DEF Blank
    <3>3. Permitted(r) /\ bindings' = bindings /\ r.op = "UpdateRole"
      BY <2>0, <3>1 DEF Established, Authorized, stores, policyVars
    <3> QED BY <2>0, <3>2, <3>3, FactsKept DEF Established, Validated
  <2>6. CASE PreviewBindings(h)
    <3>1. /\ Goto(h, "Commit", Blank) /\ pc[h] = "PreviewBindings" /\ Fits(r)
      BY <1>2, <2>6 DEF PreviewBindings, Established, Fits
    <3>2. pc'[h] = "Commit" /\ req'[h] = r
      BY <2>1, <3>1
    <3>3. Permitted(r) /\ r.op = "UpdateRole"
      BY <3>1 DEF Established, Authorized
    <3> QED BY <2>0, <3>1, <3>2, <3>3, FactsKept DEF Established, Validated, Validating
  <2>7. CASE GetUpserted(h)
    <3>1. pc'[h] = "ListResources"
      BY <1>2, <2>1, <2>7 DEF GetUpserted, Synchronize
    <3> QED BY <3>1 DEF Established, Authorized, Validated
  <2> QED BY <2>2, <2>3, <2>4, <2>5, <2>6, <2>7 DEF Reads
<1> QED BY <1>1, <1>2

\* The calls at which a handler relies on nothing: those of Sync, and before its first.
Unconcerned ==
  {"idle", "GetUpserted", "ListResources", "GetResources", "ListMemberships", "ListBindings",
   "Bindings", "Write", "ReplaceSyncedTuples"}

\* After its write a handler relies on nothing it has read before.
LEMMA CommitMoves ==
  ASSUME TypeOK, NEW h \in Handlers, Commit(h)
  PROVE  pc'[h] \in {"idle", "ListResources", "GetUpserted"}
<1> USE HandlerType
<1>1. \/ Fail(h) \/ Synchronize(h) \/ Respond(h)
      \/ \E id : Goto(h, "GetUpserted", [Blank EXCEPT !.left = {id}])
  BY DEF Commit, CreateUser, CreateGroup, CreateRole, AddGroupMember, RemoveGroupMember,
         UpdateRole, CreateBinding, DeleteBinding, RemoveBinding, GrantLegacy, RevokeLegacy,
         Upsert, CreateResource, DeleteResource
<1> QED BY <1>1, ReturnOthers, GotoOthers DEF Fail, Synchronize, Respond

\* Sync and an error stay within Sync or end, and leave the other goroutines where they are.
LEMMA SyncMoves ==
  ASSUME TypeOK, NEW p \in Procs, Sync(p) \/ Abort(p)
  PROVE  /\ pc[p] # "idle" /\ pc'[p] \in Unconcerned
         /\ \A q \in Procs \ {p} : pc'[q] = pc[q]
<1>1. \/ \E stage \in Unconcerned : \E vals : Goto(p, stage, vals)
      \/ \E state : Return(p, state)
  BY DEF Sync, ListResources, GetResources, ListMemberships, ListBindings, GetBinding,
         CompileBinding, ListSyncedTuples, Write, ReplaceSyncedTuples, Abort, Fail, Unconcerned
<1>2. pc[p] # "idle"
  BY DEF Sync, ListResources, GetResources, ListMemberships, ListBindings, GetBinding,
         CompileBinding, ListSyncedTuples, Write, ReplaceSyncedTuples, Abort
<1> QED BY <1>1, <1>2, GotoOthers, ReturnOthers DEF Unconcerned

\* With one request at a time what a handler has established stays so until its write.
LEMMA EstablishedStep ==
  ASSUME OneAtATime, TypeOK, Keys, NEW h \in Handlers, Established(h), [Next]_vars
  PROVE  Established(h)'
<1> USE HandlerType
<1>1. ASSUME pc'[h] \in Unconcerned PROVE Established(h)'
  BY <1>1 DEF Established, Authorized, Validated, Unconcerned
<1>2. CASE UNCHANGED vars
  <2>1. UNCHANGED <<stores, pc, req, local, bindings>>
    BY <1>2 DEF vars, stores, policyVars
  <2> QED BY <2>1, FactsKept DEF Established, Authorized, Validated
<1>3. CASE Start \/ Crash
  <2>1. pc'[h] = "idle"
    BY <1>3 DEF Start, Crash, TypeOK, ProcessesOK
  <2> QED BY <1>1, <2>1 DEF Unconcerned
<1>4. ASSUME NEW g \in Handlers, Receive(g) PROVE Established(h)'
  <2>1. g = h
    BY DEF OneAtATime
  <2>2. PICK r \in Requests : req' = [req EXCEPT ![h] = r] /\ pc' = [pc EXCEPT ![h] = FirstCall(r)]
    BY <1>4, <2>1 DEF Receive
  <2>3. pc'[h] = FirstCall(req'[h])
    BY <2>2 DEF TypeOK, ProcessesOK
  <2> QED BY <2>3 DEF Established, Authorized, Validated, FirstCall, Validating
<1>5. ASSUME NEW g \in Handlers, Handle(g) PROVE Established(h)'
  <2>1. g = h
    BY DEF OneAtATime
  <2>2. CASE Reads(h)
    BY <2>2, ReadsEstablish
  <2>3. CASE Commit(h)
    BY <1>1, <2>3, CommitMoves DEF Unconcerned
  <2> QED BY <1>5, <2>1, <2>2, <2>3, HandleParts
<1>6. ASSUME NEW p \in Procs, Sync(p) \/ Abort(p) PROVE Established(h)'
  <2>1. CASE p = h
    BY <1>1, <1>6, <2>1, SyncMoves
  <2>2. CASE p # h
    <3>1. p = Main
      BY <2>2 DEF OneAtATime, Procs
    <3>2. pc[h] = "idle"
      BY <1>6, <3>1, SyncMoves DEF TypeOK, ProcessesOK
    <3> QED BY <1>1, <1>6, <2>2, <3>2, SyncMoves DEF Unconcerned
  <2> QED BY <2>1, <2>2
<1> QED BY <1>2, <1>3, <1>4, <1>5, <1>6 DEF Next

\* The keys of bindings and resources are unique and ids are not used twice, for
\* any number of requests at the same time and whatever fails.
THEOREM KeysHold == Spec => []Keys
<1>1. Init => Keys
  BY DEF Init, Keys, RoleKeys, BindingKeys, ResourceKeys
<1>2. TypeOK /\ Keys /\ [Next]_vars => Keys'
  BY KeysStep
<1> QED BY <1>1, <1>2, TypeCorrect, PTL DEF Spec

\* With one request at a time, what a handler has read and been allowed still
\* holds at each of its later calls.
THEOREM HandlersInvariant ==
  ASSUME OneAtATime
  PROVE  Spec => []HandlersInv
<1>1. Init => HandlersInv
  <2>1. Init => \A h \in Handlers : Established(h)
    BY HandlerType DEF Init, Established, Authorized, Validated
  <2> QED BY <2>1 DEF Init, HandlersInv, Keys, RoleKeys, BindingKeys, ResourceKeys
<1>2. TypeOK /\ HandlersInv /\ [Next]_vars => HandlersInv'
  BY KeysStep, EstablishedStep DEF HandlersInv
<1> QED BY <1>1, <1>2, TypeCorrect, PTL DEF Spec

-------------------------------------------------------------------------------
(* Writes *)

\* A change to the policy at a handler's write is made by the action of its operation.
LEMMA CommitsByOperation ==
  ASSUME OneAtATime, TypeOK, [Next]_vars, NEW h \in Handlers, NEW op, Commits(h, op)
  PROVE  /\ Commit(h) /\ ~Fail(h) /\ req[h].op = op
         /\ op = "RevokeLegacy" => RevokeLegacy(h)
<1>1. pc[h] = "Commit" /\ req[h].op = op /\ policyVars' # policyVars
  BY DEF Commits, Committing
<1>2. ~Start
  BY <1>1, HandlerType DEF Start, TypeOK, ProcessesOK
<1>3. Commit(h)
  BY <1>1, <1>2, PolicyChanges DEF OneAtATime
<1>4. ~Fail(h)
  BY <1>1 DEF Fail, stores
<1>5. op = "RevokeLegacy" => RevokeLegacy(h)
  BY <1>1, <1>3 DEF Commit, CreateUser, CreateGroup, CreateRole, AddGroupMember,
                    RemoveGroupMember, UpdateRole, CreateBinding, DeleteBinding, GrantLegacy,
                    CreateResource, DeleteResource, Committing
<1> QED BY <1>1, <1>3, <1>4, <1>5

\* With one request at a time, whoever changes the policy has, at that moment, the
\* permission the operation needs, on the resource it needs it on.
THEOREM ChangesAreAuthorized ==
  ASSUME OneAtATime
  PROVE  Spec => AuthorizedChange
<1>1. TypeOK /\ HandlersInv /\ [Next]_vars =>
        [\A h \in Handlers : Commits(h, req[h].op) => Permitted(req[h])]_vars
  BY DEF HandlersInv, Established, Authorized, Commits, Committing
<1> QED BY <1>1, HandlersInvariant, TypeCorrect, PTL DEF Spec, AuthorizedChange

\* The level left by a revoke is lower than the level revoked.
LEMMA NextIsLower ==
  ASSUME NEW access \in Access, NextAccess(access) # "none"
  PROVE  Rank[CompatibilityRole(NextAccess(access))] < Rank[CompatibilityRole(access)]
<1>1. CASE access = "write"
  BY <1>1 DEF NextAccess, CompatibilityRole, Rank
<1>2. CASE access = "admin"
  BY <1>2 DEF NextAccess, CompatibilityRole, Rank
<1>3. access # "read"
  BY DEF NextAccess
<1> QED BY <1>1, <1>2, <1>3 DEF Access

\* Both ways a revoke ends leave no compatibility binding as high as the one it found.
LEMMA RevokeStep ==
  ASSUME OneAtATime, TypeOK, HandlersInv, OneCompatibilityBinding, [Next]_vars,
         NEW h \in Handlers, Commits(h, "RevokeLegacy"),
         NEW new \in CompatibilityBindings(bindings', req[h].user, req[h].model)
  PROVE  \E old \in CompatibilityBindings(bindings, req[h].user, req[h].model) :
           Rank[new.role] < Rank[old.role]
<1> DEFINE r == req[h]
<1>1. RevokeLegacy(h) /\ ~Fail(h) /\ r.op = "RevokeLegacy" /\ pc[h] = "Commit"
  BY CommitsByOperation DEF Commits, Committing
<1>2. r.access \in Access
  BY <1>1, RequestParts, HandlerType DEF TypeOK, ProcessesOK
<1>3. Valid(r) /\ local[h].left = {b.id : b \in RevokedBindings(r)}
  BY <1>1 DEF HandlersInv, Established, Validated, Validating
<1>4. PICK old \in RevokedBindings(r) : TRUE
  BY <1>1, <1>3 DEF Valid
<1>5. /\ old \in CompatibilityBindings(bindings, r.user, r.model)
      /\ old.role = CompatibilityRole(r.access) /\ old.id \in local[h].left
  BY <1>3, <1>4 DEF RevokedBindings
<1>6. \A b \in CompatibilityBindings(bindings, r.user, r.model) : b = old
  BY <1>5 DEF OneCompatibilityBinding, CompatibilityBindings
<1>7. CASE NextAccess(r.access) = "none"
  <2>1. bindings' = {b \in bindings : b.id \notin local[h].left}
    BY <1>1, <1>7 DEF RevokeLegacy, RemoveBinding
  <2>2. new \in CompatibilityBindings(bindings, r.user, r.model) /\ new.id \notin local[h].left
    BY <2>1 DEF CompatibilityBindings
  <2> QED BY <1>5, <1>6, <2>2
<1>8. CASE NextAccess(r.access) # "none"
  <2> DEFINE role == CompatibilityRole(NextAccess(r.access))
             updated == [old EXCEPT !.role = role]
  <2>1. Upsert(h, r.user, role, r.model)
    BY <1>1, <1>8 DEF RevokeLegacy
  <2>2. PICK b \in CompatibilityBindings(bindings, r.user, r.model) :
          bindings' = (bindings \ {b}) \cup {[b EXCEPT !.role = role]}
    BY <1>5, <2>1 DEF Upsert
  <2>3. bindings' = (bindings \ {old}) \cup {updated}
    BY <1>6, <2>2
  <2>4. updated.role = role
    BY <1>5 DEF CompatibilityBindings, TypeOK, StoresOK, Binding
  <2> HIDE DEF updated
  <2>5. new = updated
    BY <1>6, <2>3 DEF CompatibilityBindings
  <2> HIDE DEF role
  <2>6. Rank[role] < Rank[old.role]
    BY <1>2, <1>5, <1>8, NextIsLower DEF role
  <2> QED BY <1>5, <2>4, <2>5, <2>6
<1> QED BY <1>7, <1>8

\* With one request at a time, a revoke leaves the user with less than before.
THEOREM RevokesLower ==
  ASSUME OneAtATime
  PROVE  Spec => RevokeLowers
<1>1. TypeOK /\ HandlersInv /\ OneCompatibilityBinding /\ [Next]_vars =>
        [\A h \in Handlers :
           Commits(h, "RevokeLegacy") =>
             \A new \in CompatibilityBindings(bindings', req[h].user, req[h].model) :
               \E old \in CompatibilityBindings(bindings, req[h].user, req[h].model) :
                 Rank[new.role] < Rank[old.role]]_vars
  BY RevokeStep
<1> QED BY <1>1, HandlersInvariant, OneCompatibility, TypeCorrect, PTL DEF Spec, RevokeLowers

-------------------------------------------------------------------------------
(* Roles and bindings *)

\* The seeded roles are there from the first start on: roles are never deleted.
RolesSeeded ==
  \/ server = "down" /\ roles = {} /\ bindings = {}
  \/ \A s \in SeedRoles : \E role \in roles : role.id = s.id

\* An update leaves the other roles as they are, and every id in the table.
LEMMA UpdatedRoles ==
  ASSUME TypeOK, NEW h \in Handlers, UpdateRole(h), ~Fail(h)
  PROVE  /\ \A role \in roles : role.id # req[h].role => role \in roles'
         /\ \A role \in roles : role.id = req[h].role =>
              \E new \in roles' : new.id = role.id /\ new.permissions = req[h].permissions
<1> DEFINE Updated(role) == [role EXCEPT !.revision = @ + 1, !.permissions = req[h].permissions]
<1>1. \A role \in roles : /\ Updated(role).id = role.id
                          /\ Updated(role).permissions = req[h].permissions
  BY DEF TypeOK, StoresOK, Role
<1>2. roles' = {IF role.id # req[h].role THEN role ELSE Updated(role) : role \in roles}
  BY DEF UpdateRole
<1> HIDE DEF Updated
<1> QED BY <1>1, <1>2

\* The steps that change roles.
LEMMA RoleChanges ==
  ASSUME [Next]_vars, roles' # roles
  PROVE  \/ Start
         \/ \E h \in Handlers : (CreateRole(h) \/ UpdateRole(h)) /\ ~Fail(h)
<1>1. policyVars' # policyVars
  BY DEF policyVars
<1>2. ASSUME NEW h \in Handlers, Commit(h)
      PROVE  (CreateRole(h) \/ UpdateRole(h)) /\ ~Fail(h)
  BY <1>2 DEF Commit, CreateUser, CreateGroup, AddGroupMember, RemoveGroupMember, CreateBinding,
              DeleteBinding, RemoveBinding, GrantLegacy, RevokeLegacy, Upsert, CreateResource,
              DeleteResource, Fail, stores, policyVars
<1> QED BY <1>1, <1>2, PolicyChanges

\* No step takes a role's id out of the table.
LEMMA RoleIdsStay ==
  ASSUME TypeOK, [Next]_vars, NEW role \in roles
  PROVE  \E new \in roles' : new.id = role.id
<1>1. CASE Start
  BY <1>1 DEF Start, Seed
<1>2. ASSUME NEW h \in Handlers, CreateRole(h), ~Fail(h)
      PROVE  \E new \in roles' : new.id = role.id
  BY <1>2 DEF CreateRole
<1>3. ASSUME NEW h \in Handlers, UpdateRole(h), ~Fail(h)
      PROVE  \E new \in roles' : new.id = role.id
  BY <1>3, UpdatedRoles
<1> QED BY <1>1, <1>2, <1>3, RoleChanges

\* Starting again inserts no role that was there before.
LEMMA RolesSeededStep ==
  ASSUME TypeOK, RolesSeeded, [Next]_vars
  PROVE  RolesSeeded'
<1>1. CASE Start
  BY <1>1 DEF Start, Seed, RolesSeeded, RowsWithId
<1>2. CASE ~Start /\ \A s \in SeedRoles : \E role \in roles : role.id = s.id
  BY <1>2, RoleIdsStay DEF RolesSeeded
<1>3. CASE ~Start /\ server = "down" /\ roles = {} /\ bindings = {}
  <2>1. \A p \in Procs : pc[p] = "idle"
    BY <1>3 DEF TypeOK, ProcessesOK, Procs
  <2>2. UNCHANGED vars
    <3>1. ~Crash
      BY <1>3 DEF Crash
    <3>2. ASSUME NEW h \in Handlers PROVE ~Receive(h) /\ ~Handle(h)
      <4>1. ~Reads(h)
        BY <2>1, HandlerType DEF Reads, Authorize, Check, Validate, PreviewRole, PreviewBindings,
                                 GetUpserted
      <4>2. ~Commit(h)
        BY <1>3, CommitBusy
      <4> QED BY <1>3, <4>1, <4>2, HandleParts DEF Receive
    <3>3. ASSUME NEW p \in Procs PROVE ~Sync(p) /\ ~Abort(p)
      BY <2>1, SyncMoves
    <3> QED BY <1>3, <3>1, <3>2, <3>3 DEF Next
  <2> QED BY <1>3, <2>2 DEF vars, stores, policyVars, RolesSeeded
<1> QED BY <1>1, <1>2, <1>3 DEF RolesSeeded

\* The steps that change roles leave every binding with a projection.
LEMMA RolesKeepSound ==
  ASSUME OneAtATime, TypeOK, HandlersInv, RolesSeeded, [Next]_vars, roles' # roles, Sound(policy)
  PROVE  Sound(policy)'
<1> USE DEF Sound, policy
<1>1. CASE Start
  <2>1. server = "down" /\ roles = {} /\ bindings = {}
    BY <1>1 DEF Start, Seed, RolesSeeded, RowsWithId
  <2>2. roles' = SeedRoles /\ bindings' = SeedBindings
    BY <1>1, <2>1 DEF Start, Seed, RowsWithId
  <2> QED BY <2>2, SeedSoundAssumption
<1>2. ASSUME NEW h \in Handlers, CreateRole(h), ~Fail(h)
      PROVE  Sound(policy)'
  BY <1>2 DEF CreateRole
<1>3. ASSUME NEW h \in Handlers, UpdateRole(h), ~Fail(h)
      PROVE  Sound(policy)'
  <2>1. bindings' = bindings /\ pc[h] = "Commit" /\ req[h].op = "UpdateRole"
    BY <1>3 DEF UpdateRole, Committing
  <2>2. Fits(req[h])
    BY <2>1 DEF HandlersInv, Established
  <2>3. ASSUME NEW b \in bindings
        PROVE  \E role \in roles' : role.id = b.role /\ Projectable(b, role.permissions)
    <3>1. PICK role \in roles : role.id = b.role /\ Projectable(b, role.permissions)
      OBVIOUS
    <3>2. CASE role.id = req[h].role
      <4>1. PICK new \in roles' : new.id = role.id /\ new.permissions = req[h].permissions
        BY <1>3, <3>1, <3>2, UpdatedRoles
      <4>2. Projectable(b, req[h].permissions)
        BY <2>2, <3>1, <3>2 DEF Fits
      <4> QED BY <3>1, <4>1, <4>2
    <3>3. CASE role.id # req[h].role
      BY <1>3, <3>1, <3>3, UpdatedRoles
    <3> QED BY <3>2, <3>3
  <2> QED BY <2>1, <2>3
<1> QED BY <1>1, <1>2, <1>3, RoleChanges

\* With one request at a time, an update of a role that passed its preview
\* leaves every binding with a projection, as do new roles and restarts.
THEOREM UpdatesKeepSound ==
  ASSUME OneAtATime
  PROVE  Spec => UpdateKeepsSound
<1>1. Init => RolesSeeded
  BY DEF Init, RolesSeeded
<1>2. TypeOK /\ RolesSeeded /\ [Next]_vars => RolesSeeded'
  BY RolesSeededStep
<1>3. TypeOK /\ HandlersInv /\ RolesSeeded /\ [Next]_vars =>
        [(roles' # roles /\ Sound(policy)) => Sound(policy)']_vars
  BY RolesKeepSound
<1> QED BY <1>1, <1>2, <1>3, HandlersInvariant, TypeCorrect, PTL DEF Spec, UpdateKeepsSound

-------------------------------------------------------------------------------
(* The resource tree *)

\* No restart inserts again a seeded resource that was deleted: its name may be taken by
\* then, and its children's may not.
SeedTreeStays ==
  "crash" \in Faults =>
    \A r \in Requests : r.op = "DeleteResource" => \A row \in SeedResources : row.ref # r.resource

\* When the database is seeded it has all the seeded resources or none.
TreeSeeded ==
  \/ server = "down" /\ resources = {}
  \/ SeedResources \subseteq resources
  \/ "crash" \notin Faults /\ server = "serving"

TreeInv == TreeIntact /\ TreeSeeded

\* A handler that runs, runs in a server that serves.
LEMMA HandlerServes ==
  ASSUME TypeOK, NEW h \in Handlers, Receive(h) \/ Handle(h) \/ Sync(h) \/ Abort(h)
  PROVE  server = "serving"
<1>1. CASE Receive(h)
  BY <1>1 DEF Receive
<1>2. CASE ~Receive(h)
  <2>1. pc[h] # "idle"
    <3>1. Reads(h) => pc[h] # "idle"
      BY DEF Reads, Authorize, Check, Validate, PreviewRole, PreviewBindings, GetUpserted
    <3> QED BY <1>2, <3>1, HandleParts, CommitBusy, SyncMoves, HandlerType
  <2> QED BY <2>1 DEF TypeOK, ProcessesOK
<1> QED BY <1>1, <1>2

\* The steps that change resources.
LEMMA ResourceChanges ==
  ASSUME [Next]_vars, resources' # resources
  PROVE  \/ Start
         \/ \E h \in Handlers : (CreateResource(h) \/ DeleteResource(h)) /\ ~Fail(h)
<1>1. policyVars' # policyVars
  BY DEF policyVars
<1>2. ASSUME NEW h \in Handlers, Commit(h)
      PROVE  (CreateResource(h) \/ DeleteResource(h)) /\ ~Fail(h)
  BY <1>2 DEF Commit, CreateUser, CreateGroup, CreateRole, AddGroupMember, RemoveGroupMember,
              UpdateRole, CreateBinding, DeleteBinding, RemoveBinding, GrantLegacy, RevokeLegacy,
              Upsert, Fail, stores, policyVars
<1> QED BY <1>1, <1>2, PolicyChanges

\* What is inserted in the tree, and where.
LEMMA CreateStep ==
  ASSUME HandlersInv, NEW h \in Handlers, CreateResource(h), ~Fail(h)
  PROVE  \E new : /\ resources' = resources \cup {new}
                  /\ new.parent[1] \in ParentRule(new.ref[1])
                  /\ new.parent[1] = "controller" \/ Exists(resources, new.parent)
                  /\ new.parent = req[h].parent
<1> DEFINE new(id) == [ref |-> <<req[h].type, id>>, name |-> req[h].name,
                       parent |-> req[h].parent]
<1>1. PICK id \in ResourceId \ issued : resources' = resources \cup {new(id)}
  BY DEF CreateResource
<1>2. new(id).ref[1] = req[h].type /\ new(id).parent = req[h].parent
  OBVIOUS
<1>3. ValidParent(req[h])
  BY DEF CreateResource, Committing, HandlersInv, Established, Validated, Validating, Valid
<1> HIDE DEF new
<1> QED BY <1>1, <1>2, <1>3 DEF ValidParent

\* A restart finds the seeded resources, or inserts all of them.
LEMMA TreeSeededStep ==
  ASSUME SeedTreeStays, TypeOK, TreeSeeded, [Next]_vars
  PROVE  TreeSeeded'
<1>1. CASE Start
  BY <1>1 DEF Start, Seed, TreeSeeded
<1>2. CASE ~Start /\ server = "down" /\ resources = {}
  <2>1. ASSUME NEW p \in Procs PROVE ~Sync(p) /\ ~Abort(p)
    BY <1>2, SyncMoves, HandlerServes DEF Procs, TypeOK, ProcessesOK
  <2>2. ~Crash
    BY <1>2 DEF Crash
  <2>3. UNCHANGED vars
    BY <1>2, <2>1, <2>2, HandlerServes DEF Next
  <2> QED BY <1>2, <2>3 DEF vars, stores, policyVars, TreeSeeded
<1>3. CASE ~Start /\ SeedResources \subseteq resources
  <2>1. CASE "crash" \in Faults
    <3>1. ASSUME NEW h \in Handlers, CreateResource(h) \/ DeleteResource(h), ~Fail(h)
          PROVE  SeedResources \subseteq resources'
      <4>1. req[h] \in Requests
        BY <3>1, CommitBusy DEF Commit
      <4> QED BY <1>3, <2>1, <3>1, <4>1
              DEF CreateResource, DeleteResource, Committing, SeedTreeStays
    <3> QED BY <1>3, <3>1, ResourceChanges DEF TreeSeeded
  <2>2. CASE "crash" \notin Faults
    <3>1. CASE resources' = resources
      BY <1>3, <3>1 DEF TreeSeeded
    <3>2. ASSUME NEW h \in Handlers, CreateResource(h) \/ DeleteResource(h), ~Fail(h)
          PROVE  server' = "serving"
      <4>1. server = "serving" /\ Synchronize(h)
        BY <3>2, CommitBusy DEF Commit, CreateResource, DeleteResource
      <4> QED BY <4>1 DEF Synchronize, Goto
    <3> QED BY <1>3, <2>2, <3>1, <3>2, ResourceChanges DEF TreeSeeded
  <2> QED BY <2>1, <2>2
<1>4. CASE ~Start /\ "crash" \notin Faults /\ server = "serving"
  <2>1. ASSUME NEW p \in Procs, Sync(p) \/ Abort(p) PROVE server' = "serving"
    <3>1. p # Main
      BY <1>4, <2>1, SyncMoves DEF TypeOK, ProcessesOK
    <3> QED BY <1>4, <2>1, <3>1 DEF Sync, ListResources, GetResources, ListMemberships,
               ListBindings, GetBinding, CompileBinding, ListSyncedTuples, Write,
               ReplaceSyncedTuples, Abort, Fail, Goto, Return
  <2>2. ASSUME NEW h \in Handlers, Receive(h) \/ Handle(h) PROVE server' = "serving"
    BY <1>4, <2>2, HandlerType DEF Receive, Handle, Authorize, Check, Validate, PreviewRole,
       PreviewBindings, GetUpserted, CreateUser, CreateGroup, CreateRole, AddGroupMember,
       RemoveGroupMember, UpdateRole, CreateBinding, DeleteBinding, RemoveBinding, GrantLegacy,
       RevokeLegacy, Upsert, CreateResource, DeleteResource, Fail, Respond, Synchronize, Goto,
       Return
  <2>3. ~Crash
    BY <1>4 DEF Crash
  <2> QED BY <1>4, <2>1, <2>2, <2>3 DEF Next, vars, TreeSeeded
<1> QED BY <1>1, <1>2, <1>3, <1>4 DEF TreeSeeded

\* A resource is created under one that is there, and only leaves are deleted.
LEMMA TreeIntactStep ==
  ASSUME TypeOK, HandlersInv, TreeInv, [Next]_vars
  PROVE  TreeIntact'
<1> USE DEF TreeInv, TreeIntact
<1>1. CASE resources' = resources
  BY <1>1
<1>2. CASE Start
  <2>1. CASE resources = {}
    <3>1. resources' = SeedResources
      BY <1>2, <2>1 DEF Start, Seed
    <3> QED BY <3>1, SeedTreeAssumption
  <2>2. CASE SeedResources \subseteq resources
    BY <1>1, <1>2, <2>2 DEF Start, Seed
  <2> QED BY <1>2, <2>1, <2>2 DEF Start, TreeSeeded
<1>3. ASSUME NEW h \in Handlers, CreateResource(h), ~Fail(h) PROVE TreeIntact'
  <2>1. PICK new : /\ resources' = resources \cup {new}
                   /\ new.parent[1] = "controller" \/ Exists(resources, new.parent)
                   /\ new.parent = req[h].parent
    BY <1>3, CreateStep
  <2>2. req[h].parent \in Ref
    BY <1>3, CommitBusy, RequestParts DEF Commit, CreateResource, Committing
  <2>3. new.parent[1] = "controller" => new.parent = ControllerRef
    BY <2>1, <2>2 DEF Ref, Kinds
  <2> QED BY <2>1, <2>3 DEF Exists
<1>4. ASSUME NEW h \in Handlers, DeleteResource(h), ~Fail(h) PROVE TreeIntact'
  <2>1. ~HasChildren(resources, req[h].resource)
    BY <1>4 DEF DeleteResource, Committing, HandlersInv, Established, Validated, Validating, Valid
  <2>2. resources' = {row \in resources : row.ref # req[h].resource}
    BY <1>4 DEF DeleteResource
  <2> QED BY <2>1, <2>2 DEF HasChildren, Exists
<1> QED BY <1>1, <1>2, <1>3, <1>4, ResourceChanges

\* With one request at a time, and no restart that brings back deleted
\* resources, every resource has its parent.
THEOREM TreeStaysIntact ==
  ASSUME OneAtATime, SeedTreeStays
  PROVE  Spec => []TreeIntact
<1>1. Init => TreeInv
  BY DEF Init, TreeInv, TreeIntact, TreeSeeded
<1>2. TypeOK /\ HandlersInv /\ TreeInv /\ [Next]_vars => TreeInv'
  BY TreeIntactStep, TreeSeededStep DEF TreeInv
<1>3. TreeInv => TreeIntact
  BY DEF TreeInv
<1> QED BY <1>1, <1>2, <1>3, HandlersInvariant, TypeCorrect, PTL DEF Spec

-------------------------------------------------------------------------------
(* The tables are well-formed, however many requests there are at a time:  *)
(* what their rows refer to may be gone, but types and keys are right.     *)

\* A handler goes on with its request, or ends.
LEMMA HandlesOn ==
  ASSUME TypeOK, NEW h \in Handlers, Handle(h)
  PROVE  \/ \E stage, vals : Goto(h, stage, vals)
         \/ \E state : Return(h, state)
<1>1. CASE Reads(h)
  BY <1>1 DEF Reads, Authorize, Check, Validate, PreviewRole, PreviewBindings, GetUpserted, Fail,
     Synchronize
<1>2. CASE Commit(h)
  BY <1>2 DEF Commit, CreateUser, CreateGroup, CreateRole, AddGroupMember, RemoveGroupMember,
     UpdateRole, CreateBinding, DeleteBinding, RemoveBinding, GrantLegacy, RevokeLegacy, Upsert,
     CreateResource, DeleteResource, Fail, Respond, Synchronize
<1> QED BY <1>1, <1>2, HandleParts

\* What any step does to one handler: it ends, stays, begins a request, goes on from
\* Validate, or goes on from elsewhere with the same request.
LEMMA HandlerSteps ==
  ASSUME TypeOK, [Next]_vars, NEW h \in Handlers
  PROVE  \/ pc'[h] = "idle"
         \/ pc'[h] = pc[h] /\ req'[h] = req[h]
         \/ Receive(h)
         \/ Validate(h) /\ ~Fail(h) /\ req'[h] = req[h]
         \/ pc[h] \notin {"idle", "Validate"} /\ req'[h] = req[h]
<1> USE HandlerType
<1>1. CASE UNCHANGED vars
  BY <1>1 DEF vars
<1>2. CASE Start \/ Crash
  BY <1>2 DEF Start, Seed, Crash, TypeOK, ProcessesOK
<1>3. ASSUME NEW p \in Procs, p # h,
             \/ \E stage, vals : Goto(p, stage, vals)
             \/ \E state : Return(p, state)
      PROVE  pc'[h] = pc[h] /\ req'[h] = req[h]
  BY <1>3 DEF Goto, Return, TypeOK, ProcessesOK
<1>4. ASSUME NEW g \in Handlers, Receive(g), g # h PROVE pc'[h] = pc[h] /\ req'[h] = req[h]
  BY <1>4 DEF Receive, TypeOK, ProcessesOK
<1>5. CASE Handle(h)
  <2>1. CASE \E state : Return(h, state)
    BY <2>1 DEF Return, TypeOK, ProcessesOK
  <2>2. CASE ~\E state : Return(h, state)
    <3>1. req'[h] = req[h] /\ ~Fail(h)
      BY <1>5, <2>2, HandlesOn DEF Goto, Fail
    <3>2. Validate(h) \/ pc[h] \notin {"idle", "Validate"}
      BY <1>5, HandleParts DEF Reads, Authorize, Check, PreviewRole, PreviewBindings,
         GetUpserted, Commit, CreateUser, CreateGroup, CreateRole, AddGroupMember,
         RemoveGroupMember, UpdateRole, CreateBinding, DeleteBinding, GrantLegacy, RevokeLegacy,
         CreateResource, DeleteResource, Committing
    <3> QED BY <3>1, <3>2
  <2> QED BY <2>1, <2>2
<1>6. CASE Sync(h) \/ Abort(h)
  <2>1. CASE \E state : Return(h, state)
    BY <2>1 DEF Return, TypeOK, ProcessesOK
  <2>2. CASE ~\E state : Return(h, state)
    BY <1>6, <2>2 DEF Sync, ListResources, GetResources, ListMemberships, ListBindings,
       GetBinding, CompileBinding, ListSyncedTuples, Write, ReplaceSyncedTuples, Abort, Fail, Goto
  <2> QED BY <2>1, <2>2
<1>7. ASSUME NEW p \in Procs, p # h, Sync(p) \/ Abort(p)
      PROVE  pc'[h] = pc[h] /\ req'[h] = req[h]
  <2>1. \/ \E stage, vals : Goto(p, stage, vals)
        \/ \E state : Return(p, state)
    BY <1>7 DEF Sync, ListResources, GetResources, ListMemberships, ListBindings, GetBinding,
       CompileBinding, ListSyncedTuples, Write, ReplaceSyncedTuples, Abort, Fail
  <2> QED BY <1>3, <1>7, <2>1
<1> QED BY <1>1, <1>2, <1>3, <1>4, <1>5, <1>6, <1>7, HandlesOn DEF Next

\* A resource has been found to be of a type that may be under its parent's.
ParentTyped(h) ==
  (req[h].op = "CreateResource" /\ pc[h] \notin {"idle", "Validate"}) =>
    req[h].parent[1] \in ParentRule(req[h].type)

\* Every resource is under one of a type that it may be under.
ParentsFit == \A row \in resources : row.parent[1] \in ParentRule(row.ref[1])

ParentsInv == ParentsFit /\ \A h \in Handlers : ParentTyped(h)

\* The types of a new resource and of its parent are compared before it is stored.
LEMMA ParentsStep ==
  ASSUME TypeOK, ParentsInv, [Next]_vars
  PROVE  ParentsInv'
<1>1. ASSUME NEW h \in Handlers PROVE ParentTyped(h)'
  <2>1. ParentTyped(h)
    BY DEF ParentsInv
  <2>2. CASE Receive(h)
    <3>1. PICK r \in Requests :
            req' = [req EXCEPT ![h] = r] /\ pc' = [pc EXCEPT ![h] = FirstCall(r)]
      BY <2>2 DEF Receive
    <3>2. pc'[h] = FirstCall(req'[h])
      BY <3>1, HandlerType DEF TypeOK, ProcessesOK
    <3> QED BY <3>2 DEF ParentTyped, FirstCall
  <2>3. CASE Validate(h) /\ ~Fail(h) /\ req'[h] = req[h]
    BY <2>3 DEF Validate, Valid, ValidParent, ParentTyped
  <2> QED BY <2>1, <2>2, <2>3, HandlerSteps DEF ParentTyped
<1>2. ParentsFit'
  <2>1. CASE resources' = resources
    BY <2>1 DEF ParentsInv, ParentsFit
  <2>2. CASE Start
    BY <2>2, SeedTreeAssumption DEF Start, Seed, ParentsInv, ParentsFit
  <2>3. ASSUME NEW h \in Handlers, CreateResource(h), ~Fail(h) PROVE ParentsFit'
    <3>1. PICK id \in ResourceId :
            resources' = resources \cup
              {[ref |-> <<req[h].type, id>>, name |-> req[h].name, parent |-> req[h].parent]}
      BY <2>3 DEF CreateResource
    <3>2. req[h].parent[1] \in ParentRule(req[h].type)
      BY <2>3 DEF CreateResource, Committing, ParentsInv, ParentTyped
    <3> QED BY <3>1, <3>2 DEF ParentsInv, ParentsFit
  <2>4. ASSUME NEW h \in Handlers, DeleteResource(h), ~Fail(h) PROVE ParentsFit'
    BY <2>4 DEF DeleteResource, ParentsInv, ParentsFit
  <2> QED BY <2>1, <2>2, <2>3, <2>4, ResourceChanges
<1> QED BY <1>1, <1>2 DEF ParentsInv

\* However many requests there are at a time and whatever fails, every
\* resource is under one of a type that the catalogue allows.
THEOREM ParentsStayFit == Spec => []ParentsFit
<1>1. Init => ParentsInv
  BY HandlerType DEF Init, ParentsInv, ParentsFit, ParentTyped
<1>2. TypeOK /\ ParentsInv /\ [Next]_vars => ParentsInv'
  BY ParentsStep
<1>3. ParentsInv => ParentsFit
  BY DEF ParentsInv
<1> QED BY <1>1, <1>2, <1>3, TypeCorrect, PTL DEF Spec

\* Rows of their types, with their keys, are what a policy is made of.
LEMMA RowsWellFormed ==
  ASSUME TypeOK, Keys, ParentsFit
  PROVE  WellFormed(policy, Id)
<1>1. Ref \subseteq RefsWith(Id)
  BY DEF Ref, RefsWith, ResourceTypes, ControllerRef, Id
<1>2. Seq(Ref) \subseteq Seq(RefsWith(Id))
  BY <1>1
<1>3. policy.members \subseteq Id \X Id
  BY DEF TypeOK, StoresOK, policy, Id
<1>4. \A role \in policy.roles : role.permissions \subseteq Permissions
  BY DEF TypeOK, StoresOK, policy, Role
<1>5. ASSUME NEW row \in policy.resources
      PROVE  /\ row.ref \in RefsWith(Id) /\ row.parent \in RefsWith(Id)
             /\ row.parent[1] \in ParentRule(row.ref[1])
  <2>1. row \in resources /\ row.ref \in Ref /\ row.parent \in Ref
    BY DEF TypeOK, StoresOK, policy, Resource, Ref
  <2> QED BY <1>1, <2>1 DEF ParentsFit
<1>6. ASSUME NEW b \in policy.bindings
      PROVE  /\ b.subject \in {"user", "group"} \X Id
             /\ b.match \in {"scope", "exact"}
             /\ b.scope \in RefsWith(Id) /\ b.resources \in Seq(RefsWith(Id))
  <2>1. /\ b.subject \in Subject /\ b.match \in {"scope", "exact"}
        /\ b.scope \in Ref /\ b.resources \in Seq(Ref)
    BY DEF TypeOK, StoresOK, policy, Binding
  <2>2. Subject \subseteq {"user", "group"} \X Id
    BY DEF Subject, Id
  <2> QED BY <1>1, <1>2, <2>1, <2>2
<1>7. /\ \A b, c \in policy.bindings : b.id = c.id => b = c
      /\ \A role, other \in policy.roles : role.id = other.id => role = other
  BY DEF Keys, BindingKeys, RoleKeys, policy
<1> QED BY <1>3, <1>4, <1>5, <1>6, <1>7 DEF WellFormed

\* At every moment, however many requests there are at a time and whatever
\* fails, the tables hold a policy of which every projection decides as the
\* policy says.
THEOREM PolicyIsWellFormed == Spec => []WellFormed(policy, Id)
BY RowsWellFormed, TypeCorrect, KeysHold, ParentsStayFit, PTL

\* A projection that has come into force answers every check as the policy says.
LEMMA ProjectedDecides ==
  ASSUME WellFormed(policy, Id), Projected
  PROVE  DecidesAsPolicy
<1>1. Ref \subseteq RefsWith(Id)
  BY DEF Ref, RefsWith, ResourceTypes, ControllerRef, Id
<1> QED BY <1>1, DecisionsOfProjection DEF Projected, DecidesAsPolicy

\* Whenever OpenFGA holds the projection of the policy, whatever happens
\* meanwhile, each of its decisions is the one the policy means.
THEOREM ProjectionDecides == Spec => [](Projected => DecidesAsPolicy)
<1>1. WellFormed(policy, Id) => (Projected => DecidesAsPolicy)
  BY ProjectedDecides
<1> QED BY <1>1, PolicyIsWellFormed, PTL
===============================================================================
