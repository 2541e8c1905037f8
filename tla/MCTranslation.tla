---------------------------- MODULE MCTranslation -----------------------------
(***************************************************************************)
(* A small instance of Decisions.  One binding with any selector, to a     *)
(* user or to a group that users join and leave, of any single permission  *)
(* or any built-in role, and pairs of bindings of which one is to a user   *)
(* and one to a group, over a tree with one branch of every shape and a    *)
(* second model beside it; bob is in another group.                        *)
(***************************************************************************)
EXTENDS Decisions

Node(type, id, parent) == [ref |-> <<type, id>>, name |-> id, parent |-> parent]

Tree ==
  {Node("model", "production", ControllerRef),
   Node("application", "payments", <<"model", "production">>),
   Node("unit", "payments-0", <<"application", "payments">>),
   Node("machine", "model-0", <<"model", "production">>),
   Node("machine", "payments-machine", <<"application", "payments">>),
   Node("cloud-credential", "aws-production", ControllerRef),
   Node("model", "staging", ControllerRef),
   Node("application", "shop", <<"model", "staging">>)}

TreeRefs == {row.ref : row \in Tree} \cup {ControllerRef}

\* The built-in roles of store.seed.
Reads(families) == families \X {"read"}
BuiltInRoles ==
  {Permissions,
   Reads({"model", "application", "unit", "machine"}),
   Reads({"model", "application", "unit", "machine"})
     \cup {"application", "unit", "machine"} \X {"create", "delete"}
     \cup {"application"} \X {"config_read", "config_write"},
   Permissions \ ({<<"model", "create">>} \cup {"cloud-credential"} \X {"read", "create", "delete"}),
   Reads({"application", "unit", "machine"}),
   {"application"} \X {"read", "config_read", "config_write"},
   {"unit", "machine"} \X {"read", "ssh"}}

Subjects == {<<"user", "ann">>, <<"group", "ops">>}
\* Exact selectors name rows of the store, never the controller.
Lists == {<<r>> : r \in TreeRefs \ {ControllerRef}}
           \cup {<<r, s>> : r, s \in TreeRefs \ {ControllerRef}}

Bind(id, subject, role, match, scope, list) ==
  [id |-> id, subject |-> subject, role |-> role, match |-> match, scope |-> scope,
   resources |-> list]
Scoped(id, subject, role, ref) == Bind(id, subject, role, "scope", ref, <<>>)

Bindings ==
  {Scoped("b", s, "r", ref) : s \in Subjects, ref \in TreeRefs}
    \cup {Bind("b", s, "r", "exact", ControllerRef, list) : s \in Subjects, list \in Lists}

MCUser == {"ann", "bob"}
MCGroup == {"ops"}
MCIds == {"ann", "bob", "ops", "dev"} \cup {ref[2] : ref \in TreeRefs}

MCPolicy(roles, bindings) ==
  [members |-> {<<"dev", "bob">>}, roles |-> roles, bindings |-> bindings, resources |-> Tree]
MCRole(id, permissions) == [id |-> id, permissions |-> permissions]

OneBinding ==
  {MCPolicy({MCRole("r", permissions)}, {binding}) :
     binding \in Bindings, permissions \in {{p} : p \in Permissions} \cup BuiltInRoles}

TwoBindings ==
  LET allowed == {<<"application", "read">>, <<"machine", "create">>, <<"policy", "manage">>}
      scopes == {ControllerRef, <<"model", "production">>, <<"application", "payments">>}
  IN {MCPolicy({MCRole("r", {p}), MCRole("s", {q})},
               {Scoped("b", <<"user", "ann">>, "r", x), Scoped("c", <<"group", "ops">>, "s", y)}) :
        p, q \in allowed, x, y \in scopes}

MCPolicies == OneBinding \cup TwoBindings
===============================================================================
