-------------------------- MODULE RoleEditing_proofs --------------------------
(***************************************************************************)
(* Theorems about RoleEditing for any number of clients, any contents of   *)
(* the role, any bindings, and any bound on revisions.                     *)
(***************************************************************************)
EXTENDS RoleEditing, TLAPS

-------------------------------------------------------------------------------
(* The inductive invariant *)

\* What was read is not behind: its permissions are those of its revision or of
\* a later one.
NotBehind(read) ==
  \E revision \in read.revision..role.revision : read.permissions = PermissionsAt(revision)

\* What a request has read at each of its statements: a first statement that
\* read a revision the role has or had; a whole row; the row of the revision
\* that is expected.
HasRead(e) ==
  /\ pc[e] \in {"permissions", "previewPermissions", "currentPermissions",
                "updatedPermissions"} => row[e].revision \in 1..role.revision
  /\ pc[e] \in {"list", "validate", "currentRow", "update"} =>
       row[e].revision = request[e].expected
  /\ pc[e] \in {"list", "validate", "currentRow", "update", "sync"} =>
       row[e].revision \in 1..role.revision /\ NotBehind(row[e])
  /\ pc[e] = "sync" => row[e].permissions \in Contents

\* What a client was told of a change is its difference to a role not behind.
PreviewOfShown(e) ==
  preview[e] # NoPreview =>
    /\ shown[e] # Unread
    /\ \E revision \in shown[e].revision..role.revision :
         /\ preview[e].added = preview[e].permissions \ PermissionsAt(revision)
         /\ preview[e].removed = PermissionsAt(revision) \ preview[e].permissions

EditInv ==
  /\ TypeOK
  /\ AuditIsHistory
  /\ ReadsAreNotBehind
  /\ \A e \in Editors : HasRead(e) /\ PreviewOfShown(e)

-------------------------------------------------------------------------------
(* Types *)

\* What stands for "nothing yet" has the type of the variable it is in.
LEMMA ConstantTypes ==
  /\ NoRequest \in Request /\ Unread \in Row /\ NoPreview \in Preview
  /\ 0 \in 0..MaxRevision /\ 1 \in 1..MaxRevision
  BY RevisionAssumption DEF NoRequest, Unread, NoPreview, Request, Row, Preview

\* The role as created, with nobody having looked at it, has its type.
LEMMA InitialType == Init => TypeOK
<1> SUFFICES ASSUME Init PROVE TypeOK
  OBVIOUS
<1>1. role \in Role
  BY ConstantTypes, ContentsAssumption DEF Init, Role
<1>2. audit \in Seq([old : Contents, new : Contents, revision : 1..MaxRevision])
  BY DEF Init
<1> QED BY <1>1, <1>2, ConstantTypes DEF Init, TypeOK, Changing

\* What a statement of GetRole leaves in the row.
LEMMA FetchedType ==
  ASSUME TypeOK, NEW e \in Editors
  PROVE  /\ Fetched(e, 1) \in Row
         /\ Fetched(e, 1).revision = role.revision
         /\ Fetched(e, 2) \in Row
         /\ Fetched(e, 2).revision = row[e].revision
         /\ Fetched(e, 2).permissions = role.permissions
         /\ role.permissions \in Contents /\ role.revision \in 1..MaxRevision
<1>1. role.permissions \in Contents /\ role.revision \in 1..MaxRevision
  BY DEF TypeOK, Role
<1>2. row[e].revision \in 0..MaxRevision /\ row[e].permissions \in Contents \cup {{}}
  BY DEF TypeOK, Row
<1>3. "revision" \in GetRole[1] /\ "permissions" \notin GetRole[1]
  BY DEF GetRole
<1>4. "revision" \notin GetRole[2] /\ "permissions" \in GetRole[2]
  BY DEF GetRole
<1> QED BY <1>1, <1>2, <1>3, <1>4 DEF Fetched, Row

\* What does not read or write the role's tables.
LEMMA DoneType ==
  ASSUME TypeOK, NEW e \in Editors, Done(e), role' \in Role,
         audit' = audit, bindings' \subseteq BindingId,
         shown' \in [Editors -> Role \cup {Unread}],
         \A f \in Editors \ {e} : shown'[f] = shown[f], preview' \in [Editors -> Preview]
  PROVE  TypeOK'
<1>1. pc' \in [Editors -> Changing \cup {"idle", "row", "permissions"}]
  BY DEF TypeOK, Done
<1>2. request' \in [Editors -> Request] /\ row' \in [Editors -> Row]
      /\ left' \in [Editors -> SUBSET BindingId]
  BY ConstantTypes DEF TypeOK, Done
<1>3. pc'[e] = "idle" /\ request'[e] = NoRequest /\ row'[e] = Unread /\ left'[e] = {}
  BY DEF TypeOK, Done
<1>4. \A f \in Editors \ {e} : /\ pc'[f] = pc[f] /\ request'[f] = request[f]
                               /\ row'[f] = row[f] /\ left'[f] = left[f]
  BY DEF TypeOK, Done
<1>5. "idle" \notin Changing
  BY DEF Changing
<1>6. ASSUME NEW f \in Editors
      PROVE  /\ pc'[f] = "idle" => request'[f] = NoRequest /\ row'[f] = Unread /\ left'[f] = {}
             /\ pc'[f] \in Changing =>
                  /\ request'[f].expected = shown'[f].revision
                  /\ request'[f].expected \in 1..(MaxRevision - 1)
                  /\ request'[f].permissions \in Contents
  BY <1>3, <1>4, <1>5 DEF TypeOK
<1> QED BY <1>1, <1>2, <1>6 DEF TypeOK

\* A request goes on, with what it asks for.
LEMMA GoesOnType ==
  ASSUME TypeOK, NEW e \in Editors, NEW next, Goto(e, next), next # "idle",
         next \in Changing \cup {"row", "permissions"},
         next \in Changing => pc[e] \in Changing,
         role' \in Role,
         audit' \in Seq([old : Contents, new : Contents, revision : 1..MaxRevision]),
         row' \in [Editors -> Row], left' \in [Editors -> SUBSET BindingId],
         \A f \in Editors \ {e} : row'[f] = row[f] /\ left'[f] = left[f],
         UNCHANGED <<bindings, request, known>>
  PROVE  TypeOK'
<1>1. pc' \in [Editors -> Changing \cup {"idle", "row", "permissions"}]
  BY DEF TypeOK, Goto
<1>2. pc'[e] = next /\ \A f \in Editors \ {e} : pc'[f] = pc[f]
  BY DEF TypeOK, Goto
<1>3. ASSUME NEW f \in Editors
      PROVE  /\ pc'[f] = "idle" => request'[f] = NoRequest /\ row'[f] = Unread /\ left'[f] = {}
             /\ pc'[f] \in Changing =>
                  /\ request'[f].expected = shown'[f].revision
                  /\ request'[f].expected \in 1..(MaxRevision - 1)
                  /\ request'[f].permissions \in Contents
  BY <1>2 DEF TypeOK, known
<1> QED BY <1>1, <1>3 DEF TypeOK, known

\* A refusal leaves the types as they are.
LEMMA RefuseType ==
  ASSUME TypeOK, NEW e \in Editors, Refuse(e)
  PROVE  TypeOK'
  BY DoneType DEF Refuse, stored, known, TypeOK

\* The second statement of GetRole completes a row of the type of roles.
LEMMA ReadPermissionsType ==
  ASSUME TypeOK, NEW e \in Editors, NEW next, ReadPermissions(e, next), next # "idle",
         next \in Changing, pc[e] \in Changing
  PROVE  TypeOK'
<1>1. row' \in [Editors -> Row] /\ \A f \in Editors \ {e} : row'[f] = row[f]
  BY FetchedType DEF TypeOK, ReadPermissions
<1> QED BY <1>1, GoesOnType DEF ReadPermissions, stored, known, TypeOK

\* The role that a request that only looks shows has both its parts.
LEMMA SeenType ==
  ASSUME TypeOK, NEW e \in Editors, HasRead(e), pc[e] = "permissions"
  PROVE  Fetched(e, 2) \in Role
<1>1. row[e].revision \in 1..role.revision /\ role.revision \in 1..MaxRevision
  BY FetchedType DEF HasRead
<1>2. row[e].revision \in 1..MaxRevision
  BY <1>1, RevisionAssumption
<1>3. Fetched(e, 2) \in Row /\ Fetched(e, 2).revision \in 1..MaxRevision
      /\ Fetched(e, 2).permissions \in Contents
  BY <1>2, FetchedType
<1> QED BY <1>3 DEF Row, Role

\* The row that UpdateRole answers with is a whole row.
LEMMA SyncedType ==
  ASSUME TypeOK, NEW e \in Editors, HasRead(e), pc[e] = "sync"
  PROVE  row[e] \in Role
<1>1. row[e].revision \in 1..role.revision /\ role.revision \in 1..MaxRevision
      /\ row[e].permissions \in Contents /\ row[e] \in Row
  BY FetchedType DEF HasRead, TypeOK
<1>2. row[e].revision \in 1..MaxRevision
  BY <1>1, RevisionAssumption
<1> QED BY <1>1, <1>2 DEF Row, Role

\* What a client is shown is a row.
LEMMA ShowType ==
  ASSUME TypeOK, NEW e \in Editors, NEW seen \in Role, Show(e, seen), Done(e), UNCHANGED stored
  PROVE  TypeOK'
<1>1. shown' \in [Editors -> Role \cup {Unread}]
      /\ \A f \in Editors \ {e} : shown'[f] = shown[f]
  BY DEF TypeOK, Show
<1>2. preview' \in [Editors -> Preview]
  BY ConstantTypes DEF TypeOK, Show
<1> QED BY <1>1, <1>2, DoneType DEF stored, TypeOK

\* What a client sends is a request.
LEMMA SendType ==
  ASSUME TypeOK, NEW e \in Editors,
         Look(e) \/ Change(e, "PreviewRoleUpdate") \/ Change(e, "UpdateRole")
  PROVE  TypeOK'
<1>1. CASE Look(e)
  <2>1. [NoRequest EXCEPT !.op = "GetRole"] \in Request
    BY ConstantTypes DEF NoRequest, Request
  <2>2. request' \in [Editors -> Request] /\ pc'[e] = "row"
        /\ \A f \in Editors \ {e} : pc'[f] = pc[f] /\ request'[f] = request[f]
    BY <1>1, <2>1 DEF TypeOK, Look, Send, Goto
  <2>3. pc' \in [Editors -> Changing \cup {"idle", "row", "permissions"}]
    BY <1>1 DEF TypeOK, Look, Send, Goto
  <2> QED BY <1>1, <2>2, <2>3 DEF TypeOK, Look, Send, stored, known, Changing
<1>2. ASSUME NEW op \in {"PreviewRoleUpdate", "UpdateRole"}, Change(e, op)
      PROVE  TypeOK'
  <2>1. PICK permissions \in Contents :
          Send(e, "previewRow",
               [op |-> op, expected |-> shown[e].revision, permissions |-> permissions])
    BY <1>2 DEF Change
  <2> DEFINE r == [op |-> op, expected |-> shown[e].revision, permissions |-> permissions]
  <2>2. shown[e].revision \in 1..(MaxRevision - 1) /\ shown[e].revision \in 0..MaxRevision
    BY <1>2, RevisionAssumption DEF Change
  <2>3. r \in Request
    BY <2>2 DEF Request
  <2>4. request' \in [Editors -> Request] /\ request'[e] = r /\ pc'[e] = "previewRow"
        /\ \A f \in Editors \ {e} : pc'[f] = pc[f] /\ request'[f] = request[f]
    BY <2>1, <2>3 DEF TypeOK, Send, Goto
  <2>5. pc' \in [Editors -> Changing \cup {"idle", "row", "permissions"}]
    BY <2>1 DEF TypeOK, Send, Goto, Changing
  <2>6. UNCHANGED <<stored, row, left, known>>
    BY <2>1 DEF Send
  <2>7. ASSUME NEW f \in Editors
        PROVE  /\ pc'[f] = "idle" => request'[f] = NoRequest /\ row'[f] = Unread /\ left'[f] = {}
               /\ pc'[f] \in Changing =>
                    /\ request'[f].expected = shown'[f].revision
                    /\ request'[f].expected \in 1..(MaxRevision - 1)
                    /\ request'[f].permissions \in Contents
    BY <2>2, <2>4, <2>6 DEF TypeOK, known
  <2> QED BY <2>4, <2>5, <2>6, <2>7 DEF TypeOK, stored, known
<1> QED BY <1>1, <1>2

\* A whole row of the revision that the role has is the role.
LEMMA CurrentRow ==
  ASSUME EditInv, NEW read, read.revision = role.revision, NotBehind(read)
  PROVE  read.permissions = role.permissions
<1>1. role.revision \in 1..MaxRevision
  BY FetchedType DEF EditInv, TypeOK, Role
<1>2. PICK revision \in role.revision..role.revision : read.permissions = PermissionsAt(revision)
  BY DEF NotBehind
<1>3. revision = role.revision
  BY <1>1, <1>2
<1> QED BY <1>2, <1>3 DEF EditInv, AuditIsHistory

\* Every step of a handler keeps the types.
LEMMA HandleType ==
  ASSUME EditInv, NEW e \in Editors, Handle(e)
  PROVE  TypeOK'
<1>0. TypeOK /\ HasRead(e) /\ role.revision \in 1..MaxRevision
  BY FetchedType DEF EditInv
<1>1. CASE ReadRow(e)
  <2>1. row' \in [Editors -> Row] /\ \A f \in Editors \ {e} : row'[f] = row[f]
    BY <1>0, <1>1, FetchedType DEF TypeOK, ReadRow
  <2>2. SecondStatement[pc[e]] \in Changing \cup {"permissions"}
        /\ SecondStatement[pc[e]] # "idle"
        /\ (SecondStatement[pc[e]] \in Changing => pc[e] \in Changing)
    BY <1>1 DEF ReadRow, SecondStatement, Changing
  <2> QED BY <1>0, <1>1, <2>1, <2>2, GoesOnType DEF ReadRow, stored, known, TypeOK
<1>2. CASE ReadRole(e)
  BY <1>0, <1>2, SeenType, ShowType DEF ReadRole
<1>3. CASE PreviewRole(e)
  <2>1. pc[e] \in Changing /\ "list" \in Changing
    BY <1>3 DEF PreviewRole, Changing
  <2> QED BY <1>0, <1>3, <2>1, RefuseType, ReadPermissionsType DEF PreviewRole, ReadExpected
<1>4. CASE ListBindings(e)
  <2>1. pc[e] \in Changing /\ "validate" \in Changing
    BY <1>4 DEF ListBindings, Changing
  <2>2. left' \in [Editors -> SUBSET BindingId] /\ \A f \in Editors \ {e} : left'[f] = left[f]
    BY <1>0, <1>4 DEF TypeOK, ListBindings
  <2> QED BY <1>0, <1>4, <2>1, <2>2, GoesOnType DEF ListBindings, stored, known, TypeOK
<1>5. CASE GetBinding(e)
  <2>1. CASE Refuse(e)
    BY <1>0, <2>1, RefuseType
  <2>2. CASE \E b \in left[e] : left' = [left EXCEPT ![e] = @ \ {b}]
                                /\ UNCHANGED <<stored, pc, request, row, known>>
    <3>1. left' \in [Editors -> SUBSET BindingId] /\ \A f \in Editors \ {e} : left'[f] = left[f]
      BY <1>0, <2>2 DEF TypeOK
    <3>2. pc[e] # "idle"
      BY <1>5 DEF GetBinding
    <3> QED BY <1>0, <2>2, <3>1, <3>2 DEF TypeOK, stored, known
  <2> QED BY <1>5, <2>1, <2>2 DEF GetBinding
<1>6. CASE Previewed(e)
  <2>1. pc[e] \in Changing /\ "currentRow" \in Changing
    BY <1>6 DEF Previewed, Changing
  <2>2. CASE request[e].op = "UpdateRole"
    BY <1>0, <1>6, <2>1, <2>2, GoesOnType DEF Previewed, stored, known, TypeOK
  <2>3. CASE request[e].op # "UpdateRole"
    <3>1. request[e].permissions \in Contents \cup {{}} /\ row[e].permissions \in Contents \cup {{}}
      BY <1>0 DEF TypeOK, Request, Row
    <3>2. [permissions |-> request[e].permissions,
           added |-> request[e].permissions \ row[e].permissions,
           removed |-> row[e].permissions \ request[e].permissions] \in Preview
      BY <3>1 DEF Preview
    <3>3. preview' \in [Editors -> Preview]
      BY <1>0, <1>6, <2>3, <3>2 DEF Previewed, TypeOK
    <3> QED BY <1>0, <1>6, <2>3, <3>3, DoneType DEF Previewed, stored, TypeOK
  <2> QED BY <2>2, <2>3
<1>7. CASE CurrentRole(e)
  <2>1. pc[e] \in Changing /\ "update" \in Changing
    BY <1>7 DEF CurrentRole, Changing
  <2> QED BY <1>0, <1>7, <2>1, RefuseType, ReadPermissionsType DEF CurrentRole, ReadExpected
<1>8. CASE Update(e)
  <2>1. pc[e] \in Changing /\ "updatedRow" \in Changing
    BY <1>8 DEF Update, Changing
  <2>2. /\ request[e].expected \in 1..(MaxRevision - 1) /\ request[e].permissions \in Contents
        /\ role.revision = request[e].expected
    BY <1>0, <1>8, <2>1 DEF TypeOK, Update, Replaceable
  <2>3. role.revision + 1 \in 1..MaxRevision
    BY <2>2, RevisionAssumption
  <2>4. role' \in Role
    BY <1>8, <2>2, <2>3 DEF Update, Role
  <2>5. row[e].permissions \in Contents
    BY <1>0, <1>8, <2>2, CurrentRow, FetchedType DEF HasRead, Update
  <2>6. audit' \in Seq([old : Contents, new : Contents, revision : 1..MaxRevision])
    BY <1>0, <1>8, <2>2, <2>3, <2>5 DEF Update, TypeOK
  <2> QED BY <1>0, <1>8, <2>1, <2>4, <2>6, GoesOnType DEF Update, known, TypeOK
<1>9. CASE UpdateConflict(e)
  BY <1>0, <1>9, RefuseType DEF UpdateConflict
<1>10. CASE UpdatedRole(e)
  <2>1. pc[e] \in Changing /\ "sync" \in Changing
    BY <1>10 DEF UpdatedRole, Changing
  <2> QED BY <1>0, <1>10, <2>1, ReadPermissionsType DEF UpdatedRole
<1>11. CASE Synced(e)
  BY <1>0, <1>11, SyncedType, ShowType DEF Synced
<1> QED BY <1>1, <1>2, <1>3, <1>4, <1>5, <1>6, <1>7, <1>8, <1>9, <1>10, <1>11 DEF Handle

\* Every step keeps the types.
LEMMA TypeStep ==
  ASSUME EditInv, [Next]_vars
  PROVE  TypeOK'
<1>0. TypeOK
  BY DEF EditInv
<1>1. CASE UNCHANGED vars
  BY <1>0, <1>1 DEF TypeOK, vars, stored, known
<1>2. ASSUME NEW e \in Editors, Abort(e)
      PROVE  TypeOK'
  BY <1>0, <1>2, RefuseType DEF Abort
<1>3. ASSUME NEW b \in BindingId, DeleteBinding(b)
      PROVE  TypeOK'
  BY <1>0, <1>3 DEF DeleteBinding, TypeOK, known
<1> QED BY <1>0, <1>1, <1>2, <1>3, SendType, HandleType DEF Next

-------------------------------------------------------------------------------
(* The history *)

\* The past of the role stays what it was.
Prolongs ==
  /\ role.revision \in Nat /\ role'.revision \in Nat /\ role.revision <= role'.revision
  /\ \A revision \in 1..role.revision : PermissionsAt(revision)' = PermissionsAt(revision)

\* Where neither the role nor the log is written, the history is the same.
LEMMA SameHistory ==
  ASSUME EditInv, UNCHANGED <<role, audit>>
  PROVE  AuditIsHistory' /\ Prolongs
<1>1. role.revision \in Nat
  BY DEF EditInv, TypeOK, Role
<1> QED BY <1>1 DEF EditInv, AuditIsHistory, PermissionsAt, Prolongs

\* UpdateRole adds one version to the history, and the entry that says so.
LEMMA UpdateHistory ==
  ASSUME EditInv, NEW e \in Editors, Update(e)
  PROVE  AuditIsHistory' /\ Prolongs
<1> DEFINE entry == [old |-> row[e].permissions, new |-> request[e].permissions,
                     revision |-> request[e].expected + 1]
<1>0. role.revision \in 1..MaxRevision /\ role.revision \in Nat
      /\ Len(audit) = role.revision - 1 /\ Len(audit) \in Nat
      /\ audit \in Seq([old : Contents, new : Contents, revision : 1..MaxRevision])
  BY DEF EditInv, TypeOK, Role, AuditIsHistory
<1>1. role.revision = request[e].expected /\ pc[e] = "update"
  BY DEF Update, Replaceable
<1>2. row[e].permissions = role.permissions
  BY <1>1, CurrentRow DEF EditInv, HasRead
<1>3. role' = [revision |-> role.revision + 1, permissions |-> request[e].permissions]
      /\ audit' = Append(audit, entry)
  BY DEF Update
<1>4. /\ Len(audit') = Len(audit) + 1
      /\ audit'[Len(audit) + 1] = entry
      /\ \A i \in 1..Len(audit) : audit'[i] = audit[i]
  BY <1>0, <1>3
<1>5. ASSUME NEW revision \in 1..role.revision
      PROVE  PermissionsAt(revision)' = PermissionsAt(revision)
  <2>1. revision = 1 \/ revision - 1 \in 1..Len(audit)
    BY <1>0
  <2> QED BY <2>1, <1>4 DEF PermissionsAt
<1>6. Prolongs
  BY <1>0, <1>3, <1>5 DEF Prolongs
<1>7. role'.revision = role.revision + 1 /\ role'.permissions = request[e].permissions
  BY <1>3
<1>8. (role.permissions = PermissionsAt(role.revision))'
  <2>1. audit'[role'.revision - 1] = entry /\ role'.revision # 1
    BY <1>0, <1>4, <1>7
  <2> QED BY <2>1, <1>7 DEF PermissionsAt
<1>9. ASSUME NEW i \in 1..Len(audit')
      PROVE  audit'[i].revision = i + 1 /\ audit'[i].old = PermissionsAt(i)'
  <2>1. CASE i \in 1..Len(audit)
    <3>1. i \in 1..role.revision
      BY <2>1, <1>0
    <3>2. audit[i].revision = i + 1 /\ audit[i].old = PermissionsAt(i)
      BY <2>1 DEF EditInv, AuditIsHistory
    <3> QED BY <2>1, <3>1, <3>2, <1>4, <1>5
  <2>2. CASE i = Len(audit) + 1
    <3>1. i = role.revision
      BY <2>2, <1>0
    <3>2. PermissionsAt(i)' = role.permissions
      BY <3>1, <1>0, <1>5 DEF EditInv, AuditIsHistory
    <3>3. audit'[i] = entry
      BY <2>2, <1>4
    <3> QED BY <3>1, <3>2, <3>3, <1>1, <1>2
  <2> QED BY <2>1, <2>2, <1>0, <1>4
<1>10. Len(audit') = role'.revision - 1
  BY <1>0, <1>3, <1>4
<1> QED BY <1>6, <1>8, <1>9, <1>10 DEF AuditIsHistory

\* Deleting a binding leaves the history of the role alone.
LEMMA DeleteHistory ==
  ASSUME EditInv, NEW b \in BindingId, DeleteBinding(b)
  PROVE  AuditIsHistory' /\ Prolongs
  BY SameHistory DEF DeleteBinding

-------------------------------------------------------------------------------
(* What requests have read and clients know *)

Known(e) ==
  /\ shown[e] # Unread => NotBehind(shown[e])
  /\ PreviewOfShown(e)

\* The invariant, by client.
LEMMA KnownIsInv == EditInv <=> TypeOK /\ AuditIsHistory /\ \A e \in Editors : HasRead(e) /\ Known(e)
  BY DEF EditInv, ReadsAreNotBehind, Known, NotBehind

\* What a handler has read stays behind nothing while the history only grows.
LEMMA UntouchedRead ==
  ASSUME Prolongs, NEW f \in Editors, HasRead(f), UNCHANGED <<pc[f], request[f], row[f]>>
  PROVE  HasRead(f)'
<1>1. row[f].revision \in 1..role.revision => row'[f].revision \in 1..role'.revision
  BY DEF Prolongs
<1>2. ASSUME row[f].revision \in 1..role.revision, NotBehind(row[f])
      PROVE  NotBehind(row[f])'
  <2>1. PICK k \in row[f].revision..role.revision : row[f].permissions = PermissionsAt(k)
    BY <1>2 DEF NotBehind
  <2>2. k \in 1..role.revision /\ k \in row[f].revision..role'.revision
    BY <1>2, <2>1 DEF Prolongs
  <2>3. PermissionsAt(k)' = PermissionsAt(k)
    BY <2>2 DEF Prolongs
  <2> QED BY <2>1, <2>2, <2>3 DEF NotBehind
<1> QED BY <1>1, <1>2 DEF HasRead

\* What a client knows stays true while the history only grows.
LEMMA UntouchedKnown ==
  ASSUME Prolongs, TypeOK, NEW f \in Editors, Known(f), UNCHANGED <<shown[f], preview[f]>>
  PROVE  Known(f)'
<1>0. shown[f] # Unread => shown[f].revision \in Nat \ {0}
  BY RevisionAssumption DEF TypeOK, Role
<1>1. ASSUME shown[f] # Unread, NEW k \in shown[f].revision..role.revision
      PROVE  k \in shown'[f].revision..role'.revision /\ PermissionsAt(k)' = PermissionsAt(k)
  <2>1. k \in 1..role.revision /\ k \in shown[f].revision..role'.revision
    BY <1>0, <1>1 DEF Prolongs
  <2> QED BY <2>1 DEF Prolongs
<1>2. (shown[f] # Unread => NotBehind(shown[f]))'
  BY <1>1 DEF Known, NotBehind
<1>3. PreviewOfShown(f)'
  <2> SUFFICES ASSUME preview[f] # NoPreview
               PROVE  /\ shown'[f] # Unread
                      /\ \E k \in shown'[f].revision..role'.revision :
                           /\ preview'[f].added = preview'[f].permissions \ PermissionsAt(k)'
                           /\ preview'[f].removed = PermissionsAt(k)' \ preview'[f].permissions
    BY DEF PreviewOfShown
  <2>1. shown[f] # Unread
    BY DEF Known, PreviewOfShown
  <2>2. PICK k \in shown[f].revision..role.revision :
          /\ preview[f].added = preview[f].permissions \ PermissionsAt(k)
          /\ preview[f].removed = PermissionsAt(k) \ preview[f].permissions
    BY DEF Known, PreviewOfShown
  <2> QED BY <1>1, <2>1, <2>2
<1> QED BY <1>2, <1>3 DEF Known

\* A request that is over has read nothing.
LEMMA DoneRead ==
  ASSUME TypeOK, NEW e \in Editors, Done(e)
  PROVE  HasRead(e)'
<1>1. pc'[e] = "idle"
  BY DEF Done, TypeOK
<1> QED BY <1>1 DEF HasRead

\* Nor has one that is about to read the row.
LEMMA BeforeRead ==
  ASSUME TypeOK, NEW e \in Editors, NEW next \in {"row", "previewRow", "updatedRow"}, Goto(e, next)
  PROVE  HasRead(e)'
<1>1. pc'[e] = next
  BY DEF Goto, TypeOK
<1> QED BY <1>1 DEF HasRead

\* With the permissions of now, a row is not behind.
LEMMA SecondNotBehind ==
  ASSUME EditInv, UNCHANGED <<role, audit>>, NEW e \in Editors, HasRead(e),
         pc[e] \in {"permissions", "previewPermissions", "currentPermissions",
                    "updatedPermissions"}
  PROVE  /\ Fetched(e, 2).revision \in 1..role.revision
         /\ \E k \in Fetched(e, 2).revision..role'.revision :
              Fetched(e, 2).permissions = PermissionsAt(k)'
<1>1. row[e].revision \in 1..role.revision /\ role.revision \in 1..MaxRevision
  BY FetchedType DEF EditInv, HasRead
<1>2. role.revision \in Fetched(e, 2).revision..role'.revision
  BY <1>1, FetchedType DEF EditInv
<1>3. Fetched(e, 2).permissions = PermissionsAt(role.revision)
  BY FetchedType DEF EditInv, AuditIsHistory
<1>4. \A k : PermissionsAt(k)' = PermissionsAt(k)
  BY DEF PermissionsAt
<1> QED BY <1>1, <1>2, <1>3, <1>4, FetchedType DEF EditInv

\* The permissions read second are those of the revision read first, or of a later one.
LEMMA ReadPermissionsRead ==
  ASSUME EditInv, NEW e \in Editors, NEW next \in {"list", "update", "sync"},
         ReadPermissions(e, next), HasRead(e),
         pc[e] \in {"previewPermissions", "currentPermissions", "updatedPermissions"},
         next # "sync" => Fetched(e, 2).revision = request[e].expected
  PROVE  HasRead(e)'
<1>1. pc'[e] = next /\ row'[e] = Fetched(e, 2) /\ UNCHANGED <<role, audit, request>>
  BY DEF EditInv, TypeOK, ReadPermissions, Goto, stored
<1>2. row'[e].permissions \in Contents
  BY <1>1, FetchedType DEF EditInv
<1>3. NotBehind(row[e])'
  BY <1>1, SecondNotBehind DEF NotBehind
<1>4. row'[e].revision \in 1..role'.revision
  BY <1>1, SecondNotBehind
<1> QED BY <1>1, <1>2, <1>3, <1>4 DEF HasRead

\* A client that is shown a row not behind its revision knows something true.
LEMMA ShowKnown ==
  ASSUME TypeOK, NEW e \in Editors, NEW seen, Show(e, seen),
         \E k \in seen.revision..role'.revision : seen.permissions = PermissionsAt(k)'
  PROVE  Known(e)'
<1>1. shown'[e] = seen /\ preview'[e] = NoPreview
  BY DEF Show, TypeOK
<1> QED BY <1>1 DEF Known, NotBehind, PreviewOfShown

-------------------------------------------------------------------------------
(* Every step of a request *)

\* Of a handler's steps only the UPDATE makes history.
LEMMA HandleHistory ==
  ASSUME EditInv, NEW e \in Editors, Handle(e)
  PROVE  AuditIsHistory' /\ Prolongs
<1>1. CASE Update(e)
  BY <1>1, UpdateHistory
<1>2. CASE ~Update(e)
  <2>1. UNCHANGED <<role, audit>>
    BY <1>2 DEF Handle, ReadRow, ReadRole, PreviewRole, ListBindings, GetBinding, Previewed,
                CurrentRole, UpdateConflict, UpdatedRole, Synced, ReadExpected,
                ReadPermissions, Refuse, stored
  <2> QED BY <2>1, SameHistory
<1> QED BY <1>1, <1>2

\* A request that is refused.
LEMMA RefuseKeeps ==
  ASSUME EditInv, NEW e \in Editors, Refuse(e)
  PROVE  HasRead(e)' /\ Known(e)'
<1>1. Prolongs
  BY SameHistory DEF Refuse, stored
<1> QED BY <1>1, KnownIsInv, UntouchedKnown, DoneRead DEF Refuse, known

\* An answered preview is one of what its sender was shown.
LEMMA PreviewedKeeps ==
  ASSUME EditInv, NEW e \in Editors, Previewed(e)
  PROVE  HasRead(e)' /\ Known(e)'
<1>0. TypeOK /\ HasRead(e) /\ Known(e) /\ UNCHANGED <<role, audit>> /\ Prolongs
  BY KnownIsInv, SameHistory DEF Previewed, stored
<1>1. row[e].revision = request[e].expected /\ row[e].revision \in 1..role.revision
      /\ NotBehind(row[e])
  BY <1>0 DEF Previewed, HasRead
<1>2. CASE request[e].op = "UpdateRole"
  <2>1. pc'[e] = "currentRow" /\ UNCHANGED <<role, audit, request, row, shown, preview>>
    BY <1>0, <1>2 DEF Previewed, Goto, TypeOK, known, stored
  <2>2. NotBehind(row[e])'
    BY <1>1, <2>1 DEF NotBehind, PermissionsAt
  <2>3. HasRead(e)'
    BY <1>1, <2>1, <2>2 DEF HasRead
  <2> QED BY <1>0, <2>1, <2>3, UntouchedKnown
<1>3. CASE request[e].op # "UpdateRole"
  <2> DEFINE told == [permissions |-> request[e].permissions,
                      added |-> request[e].permissions \ row[e].permissions,
                      removed |-> row[e].permissions \ request[e].permissions]
  <2>1. Done(e) /\ preview'[e] = told /\ UNCHANGED <<role, audit, shown>>
    BY <1>0, <1>3 DEF Previewed, TypeOK, stored
  <2>2. shown[e].revision = row[e].revision
    BY <1>0, <1>1 DEF Previewed, TypeOK, Changing
  <2>3. shown[e] # Unread
    BY <1>1, <2>2 DEF Unread
  <2>4. PICK k \in row[e].revision..role.revision : row[e].permissions = PermissionsAt(k)
    BY <1>1 DEF NotBehind
  <2>5. k \in shown'[e].revision..role'.revision /\ PermissionsAt(k)' = PermissionsAt(k)
    BY <2>1, <2>2, <2>4 DEF PermissionsAt
  <2>6. PreviewOfShown(e)'
    BY <2>1, <2>3, <2>4, <2>5 DEF PreviewOfShown
  <2>7. (shown[e] # Unread => NotBehind(shown[e]))'
    BY <1>0, <2>1 DEF Known, NotBehind, PermissionsAt
  <2> QED BY <1>0, <2>1, <2>6, <2>7, DoneRead DEF Known
<1> QED BY <1>2, <1>3

\* Every step of a handler keeps what it has read and what its client knows.
LEMMA HandleKeeps ==
  ASSUME EditInv, NEW e \in Editors, Handle(e)
  PROVE  HasRead(e)' /\ Known(e)'
<1>0. TypeOK /\ HasRead(e) /\ Known(e) /\ Prolongs
  BY KnownIsInv, HandleHistory
<1>1. CASE ReadRow(e)
  <2>1. pc[e] \in DOMAIN SecondStatement /\ pc'[e] = SecondStatement[pc[e]]
        /\ row'[e] = Fetched(e, 1) /\ role' = role /\ UNCHANGED <<shown, preview>>
    BY <1>0, <1>1 DEF ReadRow, Goto, TypeOK, stored, known
  <2>2. pc'[e] \in {"permissions", "previewPermissions", "currentPermissions",
                    "updatedPermissions"}
    BY <2>1 DEF SecondStatement
  <2>3. row'[e].revision \in 1..role'.revision
    BY <1>0, <2>1, FetchedType
  <2>4. HasRead(e)'
    BY <2>2, <2>3 DEF HasRead
  <2> QED BY <1>0, <2>1, <2>4, UntouchedKnown
<1>2. CASE ReadRole(e)
  <2>1. \E k \in Fetched(e, 2).revision..role'.revision :
          Fetched(e, 2).permissions = PermissionsAt(k)'
    BY <1>0, <1>2, SecondNotBehind DEF ReadRole, stored
  <2> QED BY <1>0, <1>2, <2>1, ShowKnown, DoneRead DEF ReadRole
<1>3. CASE PreviewRole(e)
  BY <1>0, <1>3, RefuseKeeps, ReadPermissionsRead, UntouchedKnown
     DEF PreviewRole, ReadExpected, ReadPermissions, known
<1>4. CASE ListBindings(e)
  <2>1. pc[e] = "list" /\ pc'[e] = "validate"
        /\ UNCHANGED <<role, audit, request, row, shown, preview>>
    BY <1>0, <1>4 DEF ListBindings, Goto, TypeOK, stored, known
  <2>2. (NotBehind(row[e]) <=> NotBehind(row[e])')
    BY <2>1 DEF NotBehind, PermissionsAt
  <2>3. HasRead(e)'
    BY <1>0, <2>1, <2>2 DEF HasRead
  <2> QED BY <1>0, <2>1, <2>3, UntouchedKnown
<1>5. CASE GetBinding(e)
  <2>1. CASE Refuse(e)
    BY <2>1, RefuseKeeps
  <2>2. CASE UNCHANGED <<stored, pc, request, row, known>>
    BY <1>0, <2>2, UntouchedRead, UntouchedKnown DEF known
  <2> QED BY <1>5, <2>1, <2>2 DEF GetBinding
<1>6. CASE Previewed(e)
  BY <1>6, PreviewedKeeps
<1>7. CASE CurrentRole(e)
  BY <1>0, <1>7, RefuseKeeps, ReadPermissionsRead, UntouchedKnown
     DEF CurrentRole, ReadExpected, ReadPermissions, known
<1>8. CASE Update(e)
  BY <1>0, <1>8, BeforeRead, UntouchedKnown DEF Update, known
<1>9. CASE UpdateConflict(e)
  BY <1>9, RefuseKeeps DEF UpdateConflict
<1>10. CASE UpdatedRole(e)
  BY <1>0, <1>10, ReadPermissionsRead, UntouchedKnown
     DEF UpdatedRole, ReadPermissions, known
<1>11. CASE Synced(e)
  <2>1. UNCHANGED <<role, audit>> /\ NotBehind(row[e])
    BY <1>0, <1>11 DEF Synced, HasRead, stored
  <2>2. \E k \in row[e].revision..role'.revision : row[e].permissions = PermissionsAt(k)'
    BY <2>1 DEF NotBehind, PermissionsAt
  <2> QED BY <1>0, <1>11, <2>2, ShowKnown, DoneRead DEF Synced
<1> QED BY <1>1, <1>2, <1>3, <1>4, <1>5, <1>6, <1>7, <1>8, <1>9, <1>10, <1>11 DEF Handle

\* A step of a request is none of another one.
LEMMA OthersKeep ==
  ASSUME EditInv, Prolongs, NEW e \in Editors, NEW f \in Editors \ {e},
         \/ Look(e) \/ Change(e, "PreviewRoleUpdate") \/ Change(e, "UpdateRole")
         \/ Handle(e) \/ Abort(e)
  PROVE  HasRead(f)' /\ Known(f)'
<1>0. TypeOK /\ HasRead(f) /\ Known(f)
  BY KnownIsInv
<1>1. CASE Look(e) \/ Change(e, "PreviewRoleUpdate") \/ Change(e, "UpdateRole")
  <2>1. UNCHANGED <<pc[f], request[f], row[f], shown[f], preview[f]>>
    BY <1>0, <1>1 DEF Look, Change, Send, Goto, TypeOK, known
  <2> QED BY <1>0, <2>1, UntouchedRead, UntouchedKnown
<1>2. CASE Handle(e) \/ Abort(e)
  <2>1. UNCHANGED <<pc[f], request[f], row[f]>>
    BY <1>0, <1>2 DEF Handle, Abort, ReadRow, ReadRole, PreviewRole, ListBindings, GetBinding,
                      Previewed, CurrentRole, Update, UpdateConflict, UpdatedRole, Synced,
                      ReadExpected, ReadPermissions, Refuse, Done, Goto, TypeOK
  <2>2. UNCHANGED <<shown[f], preview[f]>>
    BY <1>0, <1>2 DEF Handle, Abort, ReadRow, ReadRole, PreviewRole, ListBindings, GetBinding,
                      Previewed, CurrentRole, Update, UpdateConflict, UpdatedRole, Synced,
                      ReadExpected, ReadPermissions, Refuse, Show, TypeOK, known
  <2> QED BY <1>0, <2>1, <2>2, UntouchedRead, UntouchedKnown
<1> QED BY <1>1, <1>2

\* Nobody knows anything yet that could be wrong.
LEMMA EditInitial == Init => EditInv
<1> SUFFICES ASSUME Init PROVE EditInv
  OBVIOUS
<1>1. AuditIsHistory
  BY DEF Init, AuditIsHistory, PermissionsAt
<1>2. ASSUME NEW e \in Editors
      PROVE  HasRead(e) /\ Known(e)
  BY DEF Init, HasRead, Known, PreviewOfShown
<1> QED BY <1>1, <1>2, InitialType, KnownIsInv

\* Every step of every client keeps the invariant.
LEMMA EditInductive == EditInv /\ [Next]_vars => EditInv'
<1> SUFFICES ASSUME EditInv, [Next]_vars PROVE EditInv'
  OBVIOUS
<1>0. TypeOK' /\ TypeOK /\ \A e \in Editors : HasRead(e) /\ Known(e)
  BY TypeStep, KnownIsInv
<1> SUFFICES AuditIsHistory' /\ \A f \in Editors : HasRead(f)' /\ Known(f)'
  BY <1>0 DEF EditInv, ReadsAreNotBehind, Known, NotBehind
<1>1. CASE UNCHANGED vars
  <2>1. AuditIsHistory' /\ Prolongs
    BY <1>1, SameHistory DEF vars, stored
  <2> QED BY <1>0, <1>1, <2>1, UntouchedRead, UntouchedKnown DEF vars, known
<1>2. ASSUME NEW b \in BindingId, DeleteBinding(b)
      PROVE  AuditIsHistory' /\ \A f \in Editors : HasRead(f)' /\ Known(f)'
  <2>1. AuditIsHistory' /\ Prolongs
    BY <1>2, DeleteHistory
  <2>2. UNCHANGED <<pc, request, row, shown, preview>>
    BY <1>2 DEF DeleteBinding, known
  <2> QED BY <1>0, <2>1, <2>2, UntouchedRead, UntouchedKnown
<1>3. ASSUME NEW e \in Editors,
             Look(e) \/ Change(e, "PreviewRoleUpdate") \/ Change(e, "UpdateRole")
      PROVE  AuditIsHistory' /\ \A f \in Editors : HasRead(f)' /\ Known(f)'
  <2>1. AuditIsHistory' /\ Prolongs
    BY <1>3, SameHistory DEF Look, Change, Send, stored
  <2>2. HasRead(e)'
    BY <1>0, <1>3, BeforeRead DEF Look, Change, Send
  <2>3. Known(e)'
    BY <1>0, <1>3, <2>1, UntouchedKnown DEF Look, Change, Send, known
  <2> QED BY <1>3, <2>1, <2>2, <2>3, OthersKeep
<1>4. ASSUME NEW e \in Editors, Handle(e)
      PROVE  AuditIsHistory' /\ \A f \in Editors : HasRead(f)' /\ Known(f)'
  BY <1>4, HandleHistory, HandleKeeps, OthersKeep
<1>5. ASSUME NEW e \in Editors, Abort(e)
      PROVE  AuditIsHistory' /\ \A f \in Editors : HasRead(f)' /\ Known(f)'
  <2>1. AuditIsHistory' /\ Prolongs
    BY <1>5, SameHistory DEF Abort, Refuse, stored
  <2> QED BY <1>5, <2>1, RefuseKeeps, OthersKeep DEF Abort
<1> QED BY <1>1, <1>2, <1>3, <1>4, <1>5 DEF Next

-------------------------------------------------------------------------------

\* The tables, requests and what clients know have their types (TypeOK).
THEOREM TypeCorrect == Spec => []TypeOK
<1>1. EditInv => TypeOK
  BY DEF EditInv
<1> QED BY <1>1, EditInitial, EditInductive, PTL DEF Spec

\* The audit log that UpdateRole writes is the history of the role, whoever edits
\* at the same time: "old", read outside the transaction, is what was replaced.
THEOREM AuditTellsTheHistory == Spec => []AuditIsHistory
<1>1. EditInv => AuditIsHistory
  BY DEF EditInv
<1> QED BY <1>1, EditInitial, EditInductive, PTL DEF Spec

\* GetRole, in two statements without a transaction, is never behind the revision
\* that it reports.
THEOREM ShownIsNotBehind == Spec => []ReadsAreNotBehind
<1>1. EditInv => ReadsAreNotBehind
  BY DEF EditInv
<1> QED BY <1>1, EditInitial, EditInductive, PTL DEF Spec

\* An update that commits was sent on the revision there is.
LEMMA CommitIsUpdate ==
  ASSUME EditInv, Next, NEW e \in Editors, Commits(e)
  PROVE  Update(e) /\ shown[e] # Unread /\ shown[e].revision = role.revision
<1>0. TypeOK /\ pc[e] = "update" /\ pc'[e] = "updatedRow"
  BY DEF EditInv, Commits
<1>1. Update(e)
  <2>1. ASSUME NEW f \in Editors, f # e,
               \/ Look(f) \/ Change(f, "PreviewRoleUpdate") \/ Change(f, "UpdateRole")
               \/ Handle(f) \/ Abort(f)
        PROVE  FALSE
    <3>1. pc'[e] = pc[e]
      BY <1>0, <2>1 DEF Look, Change, Send, Handle, Abort, ReadRow, ReadRole, PreviewRole,
                        ListBindings, GetBinding, Previewed, CurrentRole, Update,
                        UpdateConflict, UpdatedRole, Synced, ReadExpected, ReadPermissions,
                        Refuse, Done, Goto, TypeOK
    <3> QED BY <1>0, <3>1
  <2>2. ASSUME NEW b \in BindingId, DeleteBinding(b)
        PROVE  FALSE
    BY <1>0, <2>2 DEF DeleteBinding
  <2>3. \/ Look(e) \/ Change(e, "PreviewRoleUpdate") \/ Change(e, "UpdateRole")
        \/ Handle(e) \/ Abort(e)
    BY <2>1, <2>2 DEF Next
  <2>4. ~Refuse(e)
    BY <1>0 DEF Refuse, Done, TypeOK
  <2> QED BY <1>0, <2>3, <2>4 DEF Look, Change, Send, Handle, Abort, ReadRow, ReadRole,
             PreviewRole, ListBindings, GetBinding, Previewed, CurrentRole, UpdateConflict,
             UpdatedRole, Synced, SecondStatement
<1>2. role.revision = request[e].expected /\ request[e].expected = shown[e].revision
      /\ request[e].expected \in 1..(MaxRevision - 1)
  BY <1>0, <1>1 DEF Update, Replaceable, TypeOK, Changing
<1>3. shown[e] # Unread
  BY <1>2 DEF Unread
<1> QED BY <1>1, <1>2, <1>3

\* What an update replaces is what its sender was shown, for any number of
\* clients, with answers lost and requests repeated.
THEOREM NothingIsLost == Spec => NoLostUpdate
<1>1. ASSUME EditInv, [Next]_vars
      PROVE  [\A e \in Editors : Commits(e) => role.permissions = shown[e].permissions]_vars
  <2> SUFFICES ASSUME Next, NEW e \in Editors, Commits(e)
               PROVE  role.permissions = shown[e].permissions
    BY <1>1
  <2>1. shown[e].revision = role.revision /\ NotBehind(shown[e])
    BY <1>1, CommitIsUpdate, KnownIsInv DEF Known
  <2> QED BY <1>1, <2>1, CurrentRow
<1> QED BY <1>1, EditInitial, EditInductive, PTL DEF Spec, NoLostUpdate

\* An update does what its preview has reported.
THEOREM PreviewsAreKept == Spec => PreviewIsKept
<1>1. ASSUME EditInv, [Next]_vars
      PROVE  [\A e \in Editors :
                Commits(e) /\ preview[e].permissions = request[e].permissions =>
                  /\ preview[e].added = role'.permissions \ role.permissions
                  /\ preview[e].removed = role.permissions \ role'.permissions]_vars
  <2> SUFFICES ASSUME Next, NEW e \in Editors, Commits(e),
                      preview[e].permissions = request[e].permissions
               PROVE  /\ preview[e].added = role'.permissions \ role.permissions
                      /\ preview[e].removed = role.permissions \ role'.permissions
    BY <1>1
  <2>1. Update(e) /\ shown[e].revision = role.revision /\ role.revision \in 1..MaxRevision
    BY <1>1, CommitIsUpdate, FetchedType DEF EditInv
  <2>2. role'.permissions = request[e].permissions /\ request[e].permissions \in Contents
    BY <1>1, <2>1 DEF Update, EditInv, TypeOK, Changing
  <2>3. preview[e] # NoPreview
    BY <2>2, ContentsAssumption DEF NoPreview
  <2>4. PICK k \in shown[e].revision..role.revision :
          /\ preview[e].added = preview[e].permissions \ PermissionsAt(k)
          /\ preview[e].removed = PermissionsAt(k) \ preview[e].permissions
    BY <1>1, <2>3 DEF EditInv, PreviewOfShown
  <2>5. k = role.revision
    BY <2>1, <2>4
  <2>6. PermissionsAt(k) = role.permissions
    BY <1>1, <2>5 DEF EditInv, AuditIsHistory
  <2> QED BY <2>2, <2>4, <2>6
<1> QED BY <1>1, EditInitial, EditInductive, PTL DEF Spec, PreviewIsKept
===============================================================================
