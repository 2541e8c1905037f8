----------------------------- MODULE Translation -----------------------------
(***************************************************************************)
(* The OpenFGA adapter (internal/openfga/openfga.go) and the authorization *)
(* model it installs (internal/openfga/model.fga): how bindings,           *)
(* memberships and resource parents become relationship tuples, and what   *)
(* OpenFGA answers from a set of tuples.                                   *)
(*                                                                         *)
(* A tuple is a record of a user, a relation and an object.  Objects and   *)
(* users are pairs of an OpenFGA type and an id; a userset such as         *)
(* "grant:g#subject" is <<"grant#subject", g>>.                            *)
(*                                                                         *)
(* A binding is the row of the store's table: its id, subject              *)
(* <<"user" or "group", id>>, role, scope, selector (match, and for an     *)
(* exact selector the list of resources) and compatibility flag.           *)
(***************************************************************************)
EXTENDS Catalog, Sequences

Tuple(user, relation, object) ==
  [user |-> user, relation |-> relation, object |-> object]

ResourceObject(ref) == <<OpenFGAType(ref[1]), ref[2]>>

Listed(b) == {b.resources[i] : i \in DOMAIN b.resources}

-------------------------------------------------------------------------------
(* Policy to tuples *)

SubjectTuple(b) ==
  Tuple(IF b.subject[1] = "group" THEN <<"group#member", b.subject[2]>> ELSE b.subject,
        <<"", "subject">>, <<"grant", b.id>>)

MembershipTuple(group, user) ==
  Tuple(<<"user", user>>, <<"", "member">>, <<"group", group>>)

ParentTuple(resource) ==
  Tuple(ResourceObject(resource.parent), <<"", "parent">>, ResourceObject(resource.ref))

\* Faulty variant of InheritedFrom: a model passes everything down.
InheritedFromModel(type) ==
  CASE type \in {"controller", "model"} -> Kinds \cup {"policy"}
    [] type = "application" -> {"unit", "machine"}
    [] OTHER -> {}

\* The families of permissions that a scope of the given type passes down.
InheritedFrom(type) ==
  CASE type = "controller" -> Kinds \cup {"policy"}
    [] type = "model" -> {"application", "unit", "machine", "policy"}
    [] type = "application" -> {"unit", "machine"}
    [] OTHER -> {}

\* The relation that grants p at a scope of the given type, where there is one.
HasRelationAtScope(p, type) == Supports(p, type) \/ p[1] \in InheritedFrom(type)
RelationAtScope(p, type) ==
  IF Supports(p, type) THEN Relation(p) ELSE InheritedRelation(p)

\* PermissionTuples returns an error unless every permission finds a target.
Projectable(b, permissions) ==
  IF b.match = "scope"
  THEN \A p \in permissions : HasRelationAtScope(p, b.scope[1])
  ELSE /\ b.resources # <<>>
       /\ \A p \in permissions : \E ref \in Listed(b) : Supports(p, ref[1])

Targets(b) == IF b.match = "scope" THEN {b.scope} ELSE Listed(b)

PermissionTuples(b, permissions) ==
  UNION {{Tuple(<<"grant#subject", b.id>>, RelationAtScope(p, ref[1]), ResourceObject(ref)) :
            ref \in {r \in Targets(b) : b.match = "scope" \/ Supports(p, r[1])}} :
         p \in permissions}

\* PermissionTuples returns a list.  It holds a tuple twice when an exact
\* selector names a resource twice and some permission applies to it.
Repeats(b, permissions) ==
  /\ b.match = "exact"
  /\ \E i, j \in DOMAIN b.resources :
       /\ i < j
       /\ b.resources[i] = b.resources[j]
       /\ \E p \in permissions : Supports(p, b.resources[i][1])

-------------------------------------------------------------------------------
(* Tuples to decisions: model.fga *)

Own(operations) == {""} \X operations
Inherited(families) == {InheritedRelation(p) : p \in {q \in Permissions : q[1] \in families}}

\* The relations model.fga defines for grants on each type of resource.
GrantRelations ==
  [controller |-> Inherited(Kinds \cup {"policy"}),
   model |-> Own({"read", "delete"}) \cup Inherited({"application", "unit", "machine", "policy"}),
   application |-> Own({"read", "delete", "config_read", "config_write"})
                     \cup Inherited({"unit", "machine"}),
   unit |-> Own({"read", "delete", "ssh"}),
   machine |-> Own({"read", "delete", "ssh"}),
   cloud_credential |-> Own({"read", "delete"})]

\* The types model.fga accepts as the parent of each type.
ParentTypes ==
  [model |-> {"controller"}, application |-> {"model"}, unit |-> {"application"},
   machine |-> {"model", "application"}, cloud_credential |-> {"controller"}]

\* OpenFGA refuses to write a tuple that the model has no place for.
Accepted(t) ==
  \/ /\ t.relation = <<"", "member">>
     /\ t.object[1] = "group" /\ t.user[1] = "user"
  \/ /\ t.relation = <<"", "subject">>
     /\ t.object[1] = "grant" /\ t.user[1] \in {"user", "group#member"}
  \/ /\ t.relation = <<"", "parent">>
     /\ t.object[1] \in DOMAIN ParentTypes
     /\ t.user[1] \in ParentTypes[t.object[1]]
  \/ /\ t.object[1] \in DOMAIN GrantRelations
     /\ t.relation \in GrantRelations[t.object[1]]
     /\ t.user[1] \in {"user", "group#member", "grant#subject"}

\* Faulty variant of FromParent: "read" is looked for as "read" everywhere.
FromParentSame(relation, type) == relation

\* "or R from parent": the relation to look for on the parent of an object.
FromParent(relation, type) ==
  IF relation[1] = "" THEN <<type, relation[2]>> ELSE relation

\* The questions <<relation, object>> that the given ones lead to on parents.
AskParents(tuples, questions) ==
  UNION {{<<FromParent(q[1], q[2][1]), t.user>> :
            t \in {t \in tuples : t.relation = <<"", "parent">> /\ t.object = q[2]}} :
         q \in questions}

\* The user sets that principal belongs to, the user itself included.
UserSets(tuples, principal) ==
  LET groups == {<<"group#member", t.object[2]>> :
                   t \in {t \in tuples : /\ t.relation = <<"", "member">>
                                         /\ t.user = <<"user", principal>>}}
      direct == {<<"user", principal>>} \cup groups
  IN direct \cup {<<"grant#subject", t.object[2]>> :
                    t \in {t \in tuples : /\ t.relation = <<"", "subject">>
                                          /\ t.user \in direct}}

\* OpenFGA's answer to Check: the resource tree is at most four types deep,
\* so three rounds of asking parents reach the controller.
Holds(tuples, principal, relation, object) ==
  LET Up(questions) == questions \cup AskParents(tuples, questions)
      questions == Up(Up(Up({<<relation, object>>})))
      users == UserSets(tuples, principal)
  IN \E t \in tuples : t.user \in users /\ <<t.relation, t.object>> \in questions

\* Engine.Check: the permission must apply to the type of the resource.
Allows(tuples, principal, permission, ref) ==
  /\ Supports(permission, ref[1])
  /\ Holds(tuples, principal, Relation(permission), ResourceObject(ref))
===============================================================================
