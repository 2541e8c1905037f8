----------------------------- MODULE RoleEditing ------------------------------
(***************************************************************************)
(* Several clients edit one custom role: each looks at it, previews a      *)
(* change, and sends an update that names, in If-Match, the revision it    *)
(* was shown.  GetRole, PreviewRoleUpdate and UpdateRole of the service    *)
(* with one action for each of their statements on SQLite, where           *)
(* PermissionService has a single action for GetRole, and with what it     *)
(* leaves out: the reads after the update, the audit log, and what the     *)
(* clients know.                                                           *)
(*                                                                         *)
(* The role was created and bound before, and roles are never deleted.     *)
(* (For bindings that come while it is edited see PermissionService.) Its  *)
(* description changes with its revision and is left out, as is the number *)
(* of bindings that a preview reports.                                     *)
(***************************************************************************)
EXTENDS Naturals, Sequences

CONSTANTS
  Editors,       \* the clients, each with one request at a time
  Contents,      \* the sets of permissions that are asked for
  Created,       \* the one that the role was created with
  BindingId,     \* the bindings to the role
  Supported,     \* the permissions that find a target in each of them
  MaxRevision    \* bound: no update is sent from this revision on

ASSUME ContentsAssumption == Created \in Contents /\ {} \notin Contents
ASSUME SupportedAssumption ==
  DOMAIN Supported = BindingId /\ \A b \in BindingId : Created \subseteq Supported[b]
ASSUME RevisionAssumption == MaxRevision \in Nat \ {0}

VARIABLES
  role,          \* the row of the role and its permissions
  audit,         \* the audit log
  bindings,      \* the bindings to the role
  pc,            \* the next statement of each request, or "idle"
  request,       \* the request
  row,           \* what GetRole has read of the role
  left,          \* the ids listed by ListBindings and not fetched yet
  shown,         \* the role as the client was last shown it
  preview        \* what the client was last shown of a change to that

stored == <<role, audit, bindings>>
known == <<shown, preview>>
vars == <<stored, pc, request, row, left, known>>

Unread == [revision |-> 0, permissions |-> {}]
NoRequest == [op |-> "none", expected |-> 0, permissions |-> {}]
NoPreview == [permissions |-> {}, added |-> {}, removed |-> {}]

Init ==
  /\ role = [revision |-> 1, permissions |-> Created]
  /\ audit = <<>> /\ bindings = BindingId
  /\ pc = [e \in Editors |-> "idle"]
  /\ request = [e \in Editors |-> NoRequest]
  /\ row = [e \in Editors |-> Unread]
  /\ left = [e \in Editors |-> {}]
  /\ shown = [e \in Editors |-> Unread]
  /\ preview = [e \in Editors |-> NoPreview]

Goto(e, next) == pc' = [pc EXCEPT ![e] = next]

\* Faulty variant of Done: the request is gone, its statement is not.
DoneWithoutReset(e) ==
  /\ pc' = [pc EXCEPT ![e] = "idle"]
  /\ UNCHANGED <<request, row, left>>
\* The request is over, with whatever answer.
Done(e) ==
  /\ pc' = [pc EXCEPT ![e] = "idle"]
  /\ request' = [request EXCEPT ![e] = NoRequest]
  /\ row' = [row EXCEPT ![e] = Unread]
  /\ left' = [left EXCEPT ![e] = {}]

\* It failed, was refused, or was given up: nobody has learnt anything.
Refuse(e) == Done(e) /\ UNCHANGED <<stored, known>>

-------------------------------------------------------------------------------
(* The clients *)

Send(e, first, r) ==
  /\ pc[e] = "idle"
  /\ Goto(e, first)
  /\ request' = [request EXCEPT ![e] = r]
  /\ UNCHANGED <<stored, row, left, known>>

Look(e) == Send(e, "row", [NoRequest EXCEPT !.op = "GetRole"])

\* A change of what was shown; it may be the one that was sent before, when its
\* answer was lost.
Change(e, op) ==
  /\ shown[e].revision \in 1..(MaxRevision - 1)
  /\ \E permissions \in Contents :
       Send(e, "previewRow",
            [op |-> op, expected |-> shown[e].revision, permissions |-> permissions])

\* The role that an answer has in it replaces what was known of it.
Show(e, seen) ==
  /\ shown' = [shown EXCEPT ![e] = seen]
  /\ preview' = [preview EXCEPT ![e] = NoPreview]

-------------------------------------------------------------------------------
(* GetRole: one statement for the row, one for the permissions *)

\* Faulty variant of GetRole: the permissions are read first.
GetRoleInReverse == <<{"permissions"}, {"revision"}>>
\* What each of the statements reads.
GetRole == <<{"revision"}, {"permissions"}>>

\* The row that a request has after a statement.
Fetched(e, statement) ==
  [revision    |-> IF "revision" \in GetRole[statement] THEN role.revision ELSE row[e].revision,
   permissions |-> IF "permissions" \in GetRole[statement]
                   THEN role.permissions ELSE row[e].permissions]

\* The first statement, wherever GetRole is called.
SecondStatement ==
  [row |-> "permissions", previewRow |-> "previewPermissions",
   currentRow |-> "currentPermissions", updatedRow |-> "updatedPermissions"]

ReadRow(e) ==
  /\ pc[e] \in DOMAIN SecondStatement
  /\ row' = [row EXCEPT ![e] = Fetched(e, 1)]
  /\ Goto(e, SecondStatement[pc[e]])
  /\ UNCHANGED <<stored, request, left, known>>

ReadPermissions(e, next) ==
  /\ row' = [row EXCEPT ![e] = Fetched(e, 2)]
  /\ Goto(e, next)
  /\ UNCHANGED <<stored, request, left, known>>

\* The second statement and the comparison with If-Match.
ReadExpected(e, next) ==
  IF Fetched(e, 2).revision = request[e].expected THEN ReadPermissions(e, next) ELSE Refuse(e)

\* A request that only looks at the role.
ReadRole(e) ==
  /\ pc[e] = "permissions"
  /\ Show(e, Fetched(e, 2)) /\ Done(e)
  /\ UNCHANGED stored

-------------------------------------------------------------------------------
(* PreviewRoleUpdate, as a request and at the beginning of UpdateRole *)

PreviewRole(e) == pc[e] = "previewPermissions" /\ ReadExpected(e, "list")

ListBindings(e) ==
  /\ pc[e] = "list"
  /\ Goto(e, "validate")
  /\ left' = [left EXCEPT ![e] = bindings]
  /\ UNCHANGED <<stored, request, row, known>>

\* Faulty variant of GetBinding: the same one is fetched again.
GetSameBinding(e) ==
  /\ pc[e] = "validate"
  /\ \E b \in left[e] :
       IF b \in bindings /\ request[e].permissions \subseteq Supported[b]
       THEN UNCHANGED vars
       ELSE Refuse(e)
\* Each of them is fetched, and must have a tuple for every new permission (which
\* the code looks at when all are fetched).  Bindings to other roles only add ways
\* to fail, as Abort does.
GetBinding(e) ==
  /\ pc[e] = "validate"
  /\ \E b \in left[e] :
       IF b \in bindings /\ request[e].permissions \subseteq Supported[b]
       THEN /\ left' = [left EXCEPT ![e] = @ \ {b}]
            /\ UNCHANGED <<stored, pc, request, row, known>>
       ELSE Refuse(e)

Previewed(e) ==
  /\ pc[e] = "validate" /\ left[e] = {}
  /\ IF request[e].op = "UpdateRole"
     THEN Goto(e, "currentRow") /\ UNCHANGED <<stored, request, row, left, known>>
     ELSE /\ preview' = [preview EXCEPT ![e] =
                 [permissions |-> request[e].permissions,
                  added |-> request[e].permissions \ row[e].permissions,
                  removed |-> row[e].permissions \ request[e].permissions]]
          /\ Done(e)
          /\ UNCHANGED <<stored, shown>>

-------------------------------------------------------------------------------
(* UpdateRole of the store, with its GetRole before and after *)

CurrentRole(e) == pc[e] = "currentPermissions" /\ ReadExpected(e, "update")

\* Faulty variant of Replaceable: the revision was compared already.
ReplaceableAnyway(e) == TRUE
\* UPDATE ... WHERE id=? AND revision=?
Replaceable(e) == role.revision = request[e].expected

\* The transaction.  Its "old" is what GetRole read before it began.
Update(e) ==
  /\ pc[e] = "update" /\ Replaceable(e)
  /\ role' = [revision |-> role.revision + 1, permissions |-> request[e].permissions]
  /\ audit' = Append(audit, [old |-> row[e].permissions, new |-> request[e].permissions,
                             revision |-> request[e].expected + 1])
  /\ Goto(e, "updatedRow")
  /\ UNCHANGED <<bindings, request, row, left, known>>

UpdateConflict(e) == pc[e] = "update" /\ ~Replaceable(e) /\ Refuse(e)

UpdatedRole(e) == pc[e] = "updatedPermissions" /\ ReadPermissions(e, "sync")

\* Sync, as far as this request is concerned; then the answer, with the role.
Synced(e) ==
  /\ pc[e] = "sync"
  /\ Show(e, row[e]) /\ Done(e)
  /\ UNCHANGED stored

-------------------------------------------------------------------------------
(* What happens around them *)

\* A call fails, the client goes away or does not get the answer, the process
\* ends (for every request at once, which is one after the other here).
Abort(e) == pc[e] # "idle" /\ Refuse(e)

DeleteBinding(b) ==
  /\ b \in bindings
  /\ bindings' = bindings \ {b}
  /\ UNCHANGED <<role, audit, pc, request, row, left, known>>

Handle(e) ==
  \/ ReadRow(e) \/ ReadRole(e) \/ PreviewRole(e) \/ ListBindings(e) \/ GetBinding(e)
  \/ Previewed(e) \/ CurrentRole(e) \/ Update(e) \/ UpdateConflict(e) \/ UpdatedRole(e)
  \/ Synced(e)

Next ==
  \/ \E e \in Editors : \/ Look(e) \/ Change(e, "PreviewRoleUpdate") \/ Change(e, "UpdateRole")
                        \/ Handle(e) \/ Abort(e)
  \/ \E b \in BindingId : DeleteBinding(b)

Spec == Init /\ [][Next]_vars

\* Handlers go on; see PermissionService.
FairSpec == Spec /\ \A e \in Editors : WF_vars(Handle(e))

-------------------------------------------------------------------------------
(* Properties *)

Role == [revision : 1..MaxRevision, permissions : Contents]
Row == [revision : 0..MaxRevision, permissions : Contents \cup {{}}]
Request == [op : {"none", "GetRole", "PreviewRoleUpdate", "UpdateRole"},
            expected : 0..MaxRevision, permissions : Contents \cup {{}}]
Preview == [permissions : Contents \cup {{}}, added : SUBSET UNION Contents,
            removed : SUBSET UNION Contents]
Changing == {"previewRow", "previewPermissions", "list", "validate", "currentRow",
             "currentPermissions", "update", "updatedRow", "updatedPermissions", "sync"}

\* The types of the variables; a request under way has what it needs, and one that
\* is over has nothing.
TypeOK ==
  /\ role \in Role
  /\ audit \in Seq([old : Contents, new : Contents, revision : 1..MaxRevision])
  /\ bindings \subseteq BindingId
  /\ pc \in [Editors -> Changing \cup {"idle", "row", "permissions"}]
  /\ request \in [Editors -> Request]
  /\ row \in [Editors -> Row]
  /\ left \in [Editors -> SUBSET BindingId]
  /\ shown \in [Editors -> Role \cup {Unread}]
  /\ preview \in [Editors -> Preview]
  /\ \A e \in Editors :
       /\ pc[e] = "idle" => request[e] = NoRequest /\ row[e] = Unread /\ left[e] = {}
       /\ pc[e] \in Changing =>
            /\ request[e].expected = shown[e].revision
            /\ request[e].expected \in 1..(MaxRevision - 1)
            /\ request[e].permissions \in Contents

\* The permissions that the role had at a revision, by the audit log.
PermissionsAt(revision) == IF revision = 1 THEN Created ELSE audit[revision - 1].new

\* The audit log is the history of the role: every entry has the permissions that
\* it replaced, although they were read before the transaction began.
AuditIsHistory ==
  /\ Len(audit) = role.revision - 1
  /\ role.permissions = PermissionsAt(role.revision)
  /\ \A i \in 1..Len(audit) :
       audit[i].revision = i + 1 /\ audit[i].old = PermissionsAt(i)

\* What a client is shown may mix two revisions, but it is never behind: the
\* permissions are those of the revision it is shown or of a later one, which is
\* what makes a later comparison of the revision enough.
ReadsAreNotBehind ==
  \A e \in Editors : shown[e] # Unread =>
    \E revision \in shown[e].revision..role.revision :
      shown[e].permissions = PermissionsAt(revision)

\* Editor e's update takes effect.
Commits(e) == pc[e] = "update" /\ pc'[e] = "updatedRow"

\* README.md, "If-Match protects mutable role updates": what an update replaces
\* is what its sender was shown, whoever else edits, whatever answers were lost.
NoLostUpdate ==
  [][\A e \in Editors : Commits(e) => role.permissions = shown[e].permissions]_vars

\* README.md, "roles preview reports the permission diff ... before roles update
\* changes the role": an update that was previewed changes what was reported.
PreviewIsKept ==
  [][\A e \in Editors :
       Commits(e) /\ preview[e].permissions = request[e].permissions =>
         /\ preview[e].added = role'.permissions \ role.permissions
         /\ preview[e].removed = role.permissions \ role'.permissions]_vars

\* Every request ends, though bindings go while it lists them.
RequestsEnd == \A e \in Editors : pc[e] # "idle" ~> pc[e] = "idle"
===============================================================================
