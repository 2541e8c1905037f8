-------------------------- MODULE Translation_proofs ---------------------------
(***************************************************************************)
(* Theorems about the translation of policy to tuples, for any policy: the *)
(* tuples of a binding that can be projected are ones OpenFGA accepts, and *)
(* what OpenFGA answers from the projection of a policy is what the policy *)
(* means.                                                                  *)
(***************************************************************************)
EXTENDS Store, TLAPS

-------------------------------------------------------------------------------
(* The catalogue *)

\* The two halves of a permission of the catalogue.
LEMMA PermissionParts ==
  ASSUME NEW p \in Permissions
  PROVE  /\ p[1] \in Kinds \cup {"policy"}
         /\ p[2] \in {"read", "create", "delete", "manage", "config_read", "config_write", "ssh"}
         /\ p = <<p[1], p[2]>>
<1>1. CASE p \in {"policy"} \X {"read", "manage"}
  BY <1>1
<1>2. CASE p \in Kinds \X {"read", "create", "delete"}
  BY <1>2
<1>3. CASE p \in {"application"} \X {"config_read", "config_write"}
  BY <1>3 DEF Kinds
<1>4. CASE p \in {"unit", "machine"} \X {"ssh"}
  BY <1>4 DEF Kinds
<1> QED BY <1>1, <1>2, <1>3, <1>4 DEF Permissions

\* Types and families have different names in OpenFGA (Catalog.ResourceObject).
LEMMA TypesDiffer ==
  ASSUME NEW s \in ResourceTypes \cup {"policy"}, NEW t \in ResourceTypes \cup {"policy"}
  PROVE  /\ OpenFGAType(s) = OpenFGAType(t) => s = t
         /\ OpenFGAType(s) # ""
BY DEF ResourceTypes, Kinds, OpenFGAType

\* Two permissions have two inherited relations, and none of them is a
\* resource's own relation (model.fga).
LEMMA InheritedDiffer ==
  ASSUME NEW p \in Permissions, NEW q \in Permissions
  PROVE  /\ InheritedRelation(p) = InheritedRelation(q) => p = q
         /\ InheritedRelation(p)[1] # ""
         /\ InheritedRelation(p) # Relation(q) \/ p = q
<1>1. /\ p[1] \in ResourceTypes \cup {"policy"} /\ q[1] \in ResourceTypes \cup {"policy"}
      /\ p = <<p[1], p[2]>> /\ q = <<q[1], q[2]>>
  BY PermissionParts DEF ResourceTypes
<1>2. /\ OpenFGAType(p[1]) = OpenFGAType(q[1]) => p[1] = q[1]
      /\ OpenFGAType(p[1]) # ""
  BY <1>1, TypesDiffer
<1>3. InheritedRelation(p) = InheritedRelation(q) => p = q
  BY <1>1, <1>2 DEF InheritedRelation
<1> QED BY <1>2, <1>3 DEF InheritedRelation, Relation

\* A permission that is checked by its operation alone applies to one type,
\* that of its family (Catalog: Relation, AppliesTo).
LEMMA OwnRelation ==
  ASSUME NEW p \in Permissions, Relation(p) # InheritedRelation(p)
  PROVE  /\ AppliesTo(p) = {p[1]}
         /\ Relation(p) = <<"", p[2]>>
<1>1. p[1] # "policy" /\ p[2] # "create"
  BY DEF Relation
<1>2. p # <<"model", "create">> /\ p # <<"application", "create">> /\ p # <<"unit", "create">>
      /\ p # <<"machine", "create">> /\ p # <<"cloud-credential", "create">>
  BY <1>1
<1> QED BY <1>1, <1>2 DEF AppliesTo, Relation

\* Each family's permissions on one type (Catalog.AppliesTo).
LEMMA SupportsWhere ==
  ASSUME NEW p \in Permissions, NEW type, Supports(p, type)
  PROVE  /\ p[1] = "policy" => type \in {"controller", "model"}
         /\ p[1] # "policy" /\ p[2] # "create" => type = p[1]
         /\ p[2] = "create" =>
              \/ p[1] \in {"model", "cloud-credential"} /\ type = "controller"
              \/ p[1] = "application" /\ type = "model"
              \/ p[1] = "unit" /\ type = "application"
              \/ p[1] = "machine" /\ type \in {"model", "application"}
<1>1. /\ p[1] \in Kinds \cup {"policy"}
      /\ p = <<p[1], p[2]>>
      /\ p[1] = "policy" => p[2] # "create"
  <2>1. p[1] = "policy" => p[2] # "create"
    BY DEF Permissions, Kinds
  <2> QED BY <2>1, PermissionParts
<1>2. type \in AppliesTo(p)
  BY DEF Supports
<1>3. p[1] = "policy" => type \in {"controller", "model"}
  BY <1>2 DEF AppliesTo
<1>4. p[1] # "policy" /\ p[2] # "create" => type = p[1]
  BY <1>1, <1>2 DEF AppliesTo
<1>5. ASSUME p[2] = "create"
      PROVE  \/ p[1] \in {"model", "cloud-credential"} /\ type = "controller"
             \/ p[1] = "application" /\ type = "model"
             \/ p[1] = "unit" /\ type = "application"
             \/ p[1] = "machine" /\ type \in {"model", "application"}
  <2>1. CASE p[1] = "model"
    BY <1>1, <1>2, <1>5, <2>1 DEF AppliesTo
  <2>2. CASE p[1] = "cloud-credential"
    BY <1>1, <1>2, <1>5, <2>2 DEF AppliesTo
  <2>3. CASE p[1] = "application"
    BY <1>1, <1>2, <1>5, <2>3 DEF AppliesTo
  <2>4. CASE p[1] = "unit"
    BY <1>1, <1>2, <1>5, <2>4 DEF AppliesTo
  <2>5. CASE p[1] = "machine"
    BY <1>1, <1>2, <1>5, <2>5 DEF AppliesTo
  <2> QED BY <1>1, <1>5, <2>1, <2>2, <2>3, <2>4, <2>5 DEF Kinds
<1> QED BY <1>3, <1>4, <1>5

-------------------------------------------------------------------------------
(* OpenFGA has a place in model.fga for the tuples of a policy. *)

\* A grant's relation on a resource is one that model.fga defines there.
LEMMA GrantAccepted ==
  ASSUME NEW p \in Permissions, NEW type \in ResourceTypes, HasRelationAtScope(p, type)
  PROVE  /\ OpenFGAType(type) \in DOMAIN GrantRelations
         /\ RelationAtScope(p, type) \in GrantRelations[OpenFGAType(type)]
<1>1. OpenFGAType(type) \in DOMAIN GrantRelations
  BY DEF OpenFGAType, ResourceTypes, Kinds, GrantRelations
<1>2. p[1] \in Kinds \cup {"policy"} /\ p = <<p[1], p[2]>>
  BY PermissionParts
<1>3. \A families : p[1] \in families => InheritedRelation(p) \in Inherited(families)
  BY DEF Inherited
<1>4. RelationAtScope(p, type) \in GrantRelations[OpenFGAType(type)]
  <2>1. CASE ~Supports(p, type)
    <3>1. p[1] \in InheritedFrom(type) /\ RelationAtScope(p, type) = InheritedRelation(p)
      BY <2>1 DEF HasRelationAtScope, RelationAtScope
    <3>2. CASE type = "controller"
      BY <1>3, <3>1, <3>2 DEF InheritedFrom, GrantRelations, OpenFGAType
    <3>3. CASE type = "model"
      BY <1>3, <3>1, <3>3 DEF InheritedFrom, GrantRelations, OpenFGAType
    <3>4. CASE type = "application"
      BY <1>3, <3>1, <3>4 DEF InheritedFrom, GrantRelations, OpenFGAType
    <3> QED BY <3>1, <3>2, <3>3, <3>4 DEF InheritedFrom
  <2>2. CASE Supports(p, type) /\ Relation(p) = InheritedRelation(p)
    <3>1. RelationAtScope(p, type) = InheritedRelation(p)
      BY <2>2 DEF RelationAtScope
    <3>2. p[1] = "policy" \/ p[2] = "create"
      <4>1. InheritedRelation(p)[1] # "" /\ <<"", p[2]>>[1] = ""
        BY InheritedDiffer
      <4> QED BY <2>2, <4>1 DEF Relation
    <3>3. \/ type = "controller" /\ p[1] \in Kinds \cup {"policy"}
          \/ type = "model" /\ p[1] \in {"application", "unit", "machine", "policy"}
          \/ type = "application" /\ p[1] \in {"unit", "machine"}
      BY <1>2, <2>2, <3>2, SupportsWhere
    <3>4. CASE type = "controller"
      BY <1>3, <3>1, <3>3, <3>4 DEF GrantRelations, OpenFGAType
    <3>5. CASE type = "model"
      BY <1>3, <3>1, <3>3, <3>5 DEF GrantRelations, OpenFGAType
    <3>6. CASE type = "application"
      BY <1>3, <3>1, <3>3, <3>6 DEF GrantRelations, OpenFGAType
    <3> QED BY <3>3, <3>4, <3>5, <3>6
  <2>3. CASE Supports(p, type) /\ Relation(p) # InheritedRelation(p)
    <3>1. RelationAtScope(p, type) = <<"", p[2]>> /\ type = p[1] /\ p[1] # "policy"
          /\ p[2] # "create"
      BY <2>3, OwnRelation DEF RelationAtScope, Supports, Relation
    <3>2. /\ p[1] = "model" => p[2] \in {"read", "delete"}
          /\ p[1] = "application" => p[2] \in {"read", "delete", "config_read", "config_write"}
          /\ p[1] = "unit" => p[2] \in {"read", "delete", "ssh"}
          /\ p[1] = "machine" => p[2] \in {"read", "delete", "ssh"}
          /\ p[1] = "cloud-credential" => p[2] \in {"read", "delete"}
      BY <3>1 DEF Permissions, Kinds
    <3>3. CASE type = "model"
      <4>1. <<"", p[2]>> \in Own({"read", "delete"})
        BY <3>1, <3>2, <3>3 DEF Own
      <4>2. Own({"read", "delete"}) \subseteq GrantRelations["model"]
        BY DEF GrantRelations
      <4> QED BY <3>1, <3>3, <4>1, <4>2 DEF OpenFGAType
    <3>4. CASE type = "application"
      <4>1. <<"", p[2]>> \in Own({"read", "delete", "config_read", "config_write"})
        BY <3>1, <3>2, <3>4 DEF Own
      <4>2. Own({"read", "delete", "config_read", "config_write"}) \subseteq GrantRelations["application"]
        BY DEF GrantRelations
      <4> QED BY <3>1, <3>4, <4>1, <4>2 DEF OpenFGAType
    <3>5. CASE type = "unit"
      <4>1. <<"", p[2]>> \in Own({"read", "delete", "ssh"})
        BY <3>1, <3>2, <3>5 DEF Own
      <4>2. Own({"read", "delete", "ssh"}) \subseteq GrantRelations["unit"]
        BY DEF GrantRelations
      <4> QED BY <3>1, <3>5, <4>1, <4>2 DEF OpenFGAType
    <3>6. CASE type = "machine"
      <4>1. <<"", p[2]>> \in Own({"read", "delete", "ssh"})
        BY <3>1, <3>2, <3>6 DEF Own
      <4>2. Own({"read", "delete", "ssh"}) \subseteq GrantRelations["machine"]
        BY DEF GrantRelations
      <4> QED BY <3>1, <3>6, <4>1, <4>2 DEF OpenFGAType
    <3>7. CASE type = "cloud-credential"
      <4>1. <<"", p[2]>> \in Own({"read", "delete"})
        BY <3>1, <3>2, <3>7 DEF Own
      <4> QED BY <3>1, <3>7, <4>1 DEF GrantRelations, OpenFGAType
    <3> QED BY <1>2, <3>1, <3>3, <3>4, <3>5, <3>6, <3>7 DEF Kinds
  <2> QED BY <2>1, <2>2, <2>3
<1> QED BY <1>1, <1>4

\* A parent of a type that the catalogue allows is one that model.fga allows.
LEMMA ParentAccepted ==
  ASSUME NEW row, row.parent[1] \in ParentRule(row.ref[1])
  PROVE  Accepted(ParentTuple(row))
<1>1. /\ OpenFGAType(row.ref[1]) \in DOMAIN ParentTypes
      /\ OpenFGAType(row.parent[1]) \in ParentTypes[OpenFGAType(row.ref[1])]
  BY DEF ParentRule, ParentTypes, OpenFGAType
<1> QED BY <1>1 DEF Accepted, ParentTuple, Tuple, ResourceObject

\* The tuples of a binding that can be projected are tuples OpenFGA accepts.
LEMMA BindingAccepted ==
  ASSUME NEW b, NEW permissions, permissions \subseteq Permissions,
         b.subject[1] \in {"user", "group"},
         \A ref \in Targets(b) : ref[1] \in ResourceTypes,
         Projectable(b, permissions)
  PROVE  \A t \in PermissionTuples(b, permissions) \cup {SubjectTuple(b)} : Accepted(t)
<1>1. Accepted(SubjectTuple(b))
  BY DEF Accepted, SubjectTuple, Tuple
<1>2. ASSUME NEW p \in permissions, NEW ref \in Targets(b),
             b.match = "scope" \/ Supports(p, ref[1])
      PROVE  Accepted(Tuple(<<"grant#subject", b.id>>, RelationAtScope(p, ref[1]),
                            ResourceObject(ref)))
  <2>1. HasRelationAtScope(p, ref[1])
    BY <1>2 DEF Projectable, Targets, HasRelationAtScope
  <2>2. /\ OpenFGAType(ref[1]) \in DOMAIN GrantRelations
        /\ RelationAtScope(p, ref[1]) \in GrantRelations[OpenFGAType(ref[1])]
    BY <2>1, GrantAccepted
  <2> QED BY <2>2 DEF Accepted, Tuple, ResourceObject
<1> QED BY <1>1, <1>2 DEF PermissionTuples

\* A membership tuple is one OpenFGA accepts.
LEMMA MembershipAccepted ==
  ASSUME NEW group, NEW user
  PROVE  Accepted(MembershipTuple(group, user))
BY DEF Accepted, MembershipTuple, Tuple

-------------------------------------------------------------------------------
(* The shape of the resource tree, and how relations are told apart. *)

\* A binding targets its scope or the resources it lists.
LEMMA TargetsOf ==
  ASSUME NEW I, NEW policy, WellFormed(policy, I), NEW b \in policy.bindings
  PROVE  Targets(b) \subseteq RefsWith(I)
<1>1. b.scope \in RefsWith(I) /\ b.resources \in Seq(RefsWith(I))
  BY DEF WellFormed
<1>2. Listed(b) \subseteq RefsWith(I)
  BY <1>1 DEF Listed
<1> QED BY <1>1, <1>2 DEF Targets

\* Ids may be drawn from a larger set.
LEMMA WiderIds ==
  ASSUME NEW I, NEW J, I \subseteq J, NEW policy, WellFormed(policy, I)
  PROVE  WellFormed(policy, J)
<1>1. RefsWith(I) \subseteq RefsWith(J)
  BY DEF RefsWith
<1>2. Seq(RefsWith(I)) \subseteq Seq(RefsWith(J))
  BY <1>1
<1>3. ({"user", "group"} \X I) \subseteq ({"user", "group"} \X J) /\ (I \X I) \subseteq (J \X J)
  OBVIOUS
<1> QED BY <1>1, <1>2, <1>3 DEF WellFormed

\* How deep in the resource tree a type is (Catalog.ParentRule).
Level(type) ==
  CASE type = "controller" -> 0
    [] type \in {"model", "cloud-credential"} -> 1
    [] type = "application" -> 2
    [] OTHER -> 3

\* A parent is always higher in the tree.
LEMMA ParentIsHigher ==
  ASSUME NEW type \in ResourceTypes, NEW parent \in ParentRule(type)
  PROVE  /\ Level(type) \in Nat /\ Level(parent) \in Nat
         /\ Level(parent) < Level(type)
BY DEF ParentRule, Level, ResourceTypes, Kinds

\* Every type has a level in the tree.
LEMMA LevelType ==
  ASSUME NEW type
  PROVE  Level(type) \in Nat
BY DEF Level

\* OpenFGA's objects tell resources apart (openfga.go, resourceObject).
LEMMA ObjectsDiffer ==
  ASSUME NEW I, NEW a \in RefsWith(I), NEW c \in RefsWith(I),
         ResourceObject(a) = ResourceObject(c)
  PROVE  a = c
<1>1. /\ a[1] \in ResourceTypes /\ c[1] \in ResourceTypes
      /\ a = <<a[1], a[2]>> /\ c = <<c[1], c[2]>>
  BY DEF RefsWith
<1>2. OpenFGAType(a[1]) = OpenFGAType(c[1]) /\ a[2] = c[2]
  BY DEF ResourceObject
<1>3. a[1] = c[1]
  BY <1>1, <1>2, TypesDiffer
<1> QED BY <1>1, <1>2, <1>3

\* A permission that applies to two types is checked with one relation on
\* both and on what is above them.
LEMMA WidePermissions ==
  ASSUME NEW p \in Permissions, NEW s, NEW t, s # t, Supports(p, s), Supports(p, t)
  PROVE  Relation(p) = InheritedRelation(p)
<1> SUFFICES ASSUME Relation(p) # InheritedRelation(p) PROVE FALSE
  OBVIOUS
<1>1. AppliesTo(p) = {p[1]}
  BY OwnRelation
<1> QED BY <1>1 DEF Supports

\* The relation of a grant on a resource tells its permission.
LEMMA RelationsDiffer ==
  ASSUME NEW p \in Permissions, NEW q \in Permissions, NEW type,
         \/ RelationAtScope(q, type) = InheritedRelation(p)
         \/ RelationAtScope(q, type) = Relation(p) /\ Supports(p, type)
  PROVE  p = q
<1>1. CASE RelationAtScope(q, type) = InheritedRelation(p)
  BY <1>1, InheritedDiffer DEF RelationAtScope
<1>2. CASE RelationAtScope(q, type) = Relation(p) /\ Supports(p, type)
  <2>1. CASE Relation(p) = InheritedRelation(p)
    BY <1>1, <1>2, <2>1
  <2>2. CASE Relation(p) # InheritedRelation(p)
    <3>1. AppliesTo(p) = {p[1]} /\ Relation(p) = <<"", p[2]>> /\ type = p[1]
      BY <1>2, <2>2, OwnRelation DEF Supports
    <3>2. CASE ~Supports(q, type)
      BY <1>2, <3>1, <3>2, InheritedDiffer DEF RelationAtScope
    <3>3. CASE Supports(q, type)
      <4>1. Relation(q) = <<"", p[2]>>
        BY <1>2, <3>1, <3>3 DEF RelationAtScope
      <4>2. Relation(q) # InheritedRelation(q)
        <5>1. InheritedRelation(q)[1] # "" /\ <<"", p[2]>>[1] = ""
          BY InheritedDiffer
        <5> QED BY <4>1, <5>1
      <4>3. AppliesTo(q) = {q[1]} /\ Relation(q) = <<"", q[2]>>
        BY <4>2, OwnRelation
      <4>4. q[1] = p[1]
        BY <3>1, <3>3, <4>3 DEF Supports
      <4>5. q[2] = p[2]
        <5>1. <<"", p[2]>>[2] = p[2] /\ <<"", q[2]>>[2] = q[2]
          OBVIOUS
        <5> QED BY <4>1, <4>3, <5>1
      <4> QED BY <4>4, <4>5, PermissionParts
    <3> QED BY <3>2, <3>3
  <2> QED BY <2>1, <2>2
<1> QED BY <1>1, <1>2

-------------------------------------------------------------------------------
(* The four sorts of tuples of a projection, told apart by their relations. *)

Operations == {"read", "create", "delete", "manage", "config_read", "config_write", "ssh"}

\* A grant's relation names an operation of the catalogue.
LEMMA GrantRelation ==
  ASSUME NEW p \in Permissions, NEW type
  PROVE  /\ RelationAtScope(p, type)[2] \in Operations
         /\ Relation(p)[2] \in Operations
         /\ InheritedRelation(p)[2] \in Operations
BY PermissionParts DEF RelationAtScope, Relation, InheritedRelation, Operations

\* Tuple t lets the subject of binding b use p, by the target ref.
GrantTuple(b, p, ref) ==
  Tuple(<<"grant#subject", b.id>>, RelationAtScope(p, ref[1]), ResourceObject(ref))

\* Tuple t is one of those PermissionTuples lists for binding b to role.
GrantOf(b, role, t) ==
  \E p \in role.permissions, ref \in Targets(b) :
    /\ b.match = "scope" \/ Supports(p, ref[1])
    /\ t = GrantTuple(b, p, ref)

\* A tuple of a projection, by its relation, comes from a row of the tables.
LEMMA ProjectedTuples ==
  ASSUME NEW I, NEW policy, WellFormed(policy, I), NEW t \in Project(policy)
  PROVE  /\ t.relation = <<"", "parent">> =>
              \E row \in policy.resources : t = ParentTuple(row)
         /\ t.relation = <<"", "member">> =>
              \E m \in policy.members : t = MembershipTuple(m[1], m[2])
         /\ t.relation = <<"", "subject">> =>
              \E b \in policy.bindings : t = SubjectTuple(b)
         /\ t.relation[2] \in Operations =>
              \E b \in policy.bindings : \E role \in RowsWithId(policy.roles, b.role) :
                GrantOf(b, role, t)
<1> DEFINE relations == {<<"", "parent">>, <<"", "member">>, <<"", "subject">>}
<1>0. /\ \A r \in relations : r[2] \notin Operations
      /\ <<"", "parent">> # <<"", "member">>
      /\ <<"", "parent">> # <<"", "subject">>
      /\ <<"", "member">> # <<"", "subject">>
  BY DEF Operations
<1>1. CASE t \in ParentTuples(policy.resources)
  <2>1. PICK row \in policy.resources : t = ParentTuple(row)
    BY <1>1 DEF ParentTuples
  <2>2. t.relation = <<"", "parent">>
    BY <2>1 DEF ParentTuple, Tuple
  <2> QED BY <1>0, <2>1, <2>2
<1>2. CASE t \in MembershipTuples(policy.members)
  <2>1. PICK m \in policy.members : t = MembershipTuple(m[1], m[2])
    BY <1>2 DEF MembershipTuples
  <2>2. t.relation = <<"", "member">>
    BY <2>1 DEF MembershipTuple, Tuple
  <2> QED BY <1>0, <2>1, <2>2
<1>3. ASSUME NEW b \in policy.bindings, NEW role \in RowsWithId(policy.roles, b.role),
             t = SubjectTuple(b)
      PROVE  t.relation = <<"", "subject">>
  BY <1>3 DEF SubjectTuple, Tuple
<1>4. ASSUME NEW b \in policy.bindings, NEW role \in RowsWithId(policy.roles, b.role),
             t \in PermissionTuples(b, role.permissions)
      PROVE  GrantOf(b, role, t) /\ t.relation[2] \in Operations
  <2>1. role.permissions \subseteq Permissions
    BY DEF WellFormed, RowsWithId
  <2>2. GrantOf(b, role, t)
    BY <1>4 DEF PermissionTuples, GrantTuple, GrantOf
  <2>3. PICK p \in role.permissions, ref \in Targets(b) : t = GrantTuple(b, p, ref)
    BY <2>2 DEF GrantOf
  <2>4. t.relation[2] \in Operations
    BY <2>1, <2>3, GrantRelation DEF GrantTuple, Tuple
  <2> QED BY <2>2, <2>4
<1>5. \/ t \in ParentTuples(policy.resources)
      \/ t \in MembershipTuples(policy.members)
      \/ \E b \in policy.bindings : \E role \in RowsWithId(policy.roles, b.role) :
           t = SubjectTuple(b) \/ t \in PermissionTuples(b, role.permissions)
  BY DEF Project, BindingTuples
<1>6. CASE \E b \in policy.bindings : \E role \in RowsWithId(policy.roles, b.role) :
             t = SubjectTuple(b)
  <2>1. PICK b \in policy.bindings : \E role \in RowsWithId(policy.roles, b.role) :
          t = SubjectTuple(b)
    BY <1>6
  <2>2. t.relation = <<"", "subject">>
    BY <1>3, <2>1
  <2> QED BY <1>0, <2>1, <2>2
<1>7. CASE \E b \in policy.bindings : \E role \in RowsWithId(policy.roles, b.role) :
             t \in PermissionTuples(b, role.permissions)
  <2>1. PICK b \in policy.bindings : \E role \in RowsWithId(policy.roles, b.role) :
          t \in PermissionTuples(b, role.permissions)
    BY <1>7
  <2>2. PICK role \in RowsWithId(policy.roles, b.role) :
          t \in PermissionTuples(b, role.permissions)
    BY <2>1
  <2>3. GrantOf(b, role, t) /\ t.relation[2] \in Operations
    BY <1>4, <2>2
  <2>4. t.relation # <<"", "parent">> /\ t.relation # <<"", "member">>
        /\ t.relation # <<"", "subject">>
    BY <1>0, <2>3
  <2> QED BY <2>3, <2>4
<1> QED BY <1>1, <1>2, <1>5, <1>6, <1>7

-------------------------------------------------------------------------------
(* Who: OpenFGA's user sets are the subjects of bindings. *)

\* A user is in the set of a grant exactly when the grant's binding is to the
\* user or to a group of theirs.
LEMMA GrantSubjects ==
  ASSUME NEW I, NEW policy, WellFormed(policy, I), NEW user,
         NEW b \in policy.bindings, RowsWithId(policy.roles, b.role) # {}
  PROVE  <<"grant#subject", b.id>> \in UserSets(Project(policy), user)
           <=> IsSubject(policy.members, b, user)
<1> DEFINE tuples == Project(policy)
           groups == {<<"group#member", t.object[2]>> :
                        t \in {t \in tuples : /\ t.relation = <<"", "member">>
                                              /\ t.user = <<"user", user>>}}
           direct == {<<"user", user>>} \cup groups
<1>1. ASSUME NEW g
      PROVE  <<"group#member", g>> \in groups <=> <<g, user>> \in policy.members
  <2>1. ASSUME <<"group#member", g>> \in groups PROVE <<g, user>> \in policy.members
    <3>1. PICK t \in tuples : /\ t.relation = <<"", "member">> /\ t.user = <<"user", user>>
                              /\ <<"group#member", g>> = <<"group#member", t.object[2]>>
      BY <2>1
    <3>2. PICK m \in policy.members : t = MembershipTuple(m[1], m[2])
      BY <3>1, ProjectedTuples
    <3>3. t.user = <<"user", m[2]>> /\ t.object = <<"group", m[1]>>
      BY <3>2 DEF MembershipTuple, Tuple
    <3>4. m[2] = user /\ m[1] = g
      <4>1. <<"user", m[2]>>[2] = m[2] /\ <<"user", user>>[2] = user /\ <<"group", m[1]>>[2] = m[1]
        OBVIOUS
      <4>2. <<"group#member", g>>[2] = g /\ <<"group#member", t.object[2]>>[2] = t.object[2]
        OBVIOUS
      <4>3. g = t.object[2]
        BY <3>1, <4>2
      <4>4. t.object[2] = m[1]
        BY <3>3, <4>1
      <4>5. m[2] = user
        BY <3>1, <3>3, <4>1
      <4> QED BY <4>3, <4>4, <4>5
    <3>5. m = <<m[1], m[2]>>
      BY DEF WellFormed
    <3> QED BY <3>4, <3>5
  <2>2. ASSUME <<g, user>> \in policy.members PROVE <<"group#member", g>> \in groups
    <3>1. MembershipTuple(g, user) \in tuples
      BY <2>2 DEF Project, MembershipTuples
    <3>2. /\ MembershipTuple(g, user).relation = <<"", "member">>
          /\ MembershipTuple(g, user).user = <<"user", user>>
          /\ MembershipTuple(g, user).object[2] = g
      BY DEF MembershipTuple, Tuple
    <3> QED BY <3>1, <3>2
  <2> QED BY <2>1, <2>2
<1>2. /\ b.subject[1] \in {"user", "group"} /\ b.subject = <<b.subject[1], b.subject[2]>>
      /\ \A c \in policy.bindings : c.id = b.id => c = b
  BY DEF WellFormed
<1>3. SubjectTuple(b).user \in direct <=> IsSubject(policy.members, b, user)
  <2>1. CASE b.subject[1] = "group"
    <3>1. SubjectTuple(b).user = <<"group#member", b.subject[2]>>
      BY <2>1 DEF SubjectTuple, Tuple
    <3>2. b.subject # <<"user", user>> /\ <<"group#member", b.subject[2]>> # <<"user", user>>
      BY <2>1
    <3> QED BY <1>1, <2>1, <3>1, <3>2 DEF IsSubject
  <2>2. CASE b.subject[1] = "user"
    <3>1. SubjectTuple(b).user = b.subject
      BY <2>2 DEF SubjectTuple, Tuple
    <3>2. \A g : b.subject # <<"group#member", g>>
      BY <2>2
    <3>3. b.subject \notin groups
      BY <3>2
    <3> QED BY <2>2, <3>1, <3>3 DEF IsSubject
  <2> QED BY <1>2, <2>1, <2>2
<1>4. UserSets(tuples, user) =
        direct \cup {<<"grant#subject", t.object[2]>> :
                       t \in {t \in tuples : t.relation = <<"", "subject">> /\ t.user \in direct}}
  BY DEF UserSets
<1>5. <<"grant#subject", b.id>> \notin direct
  <2>1. <<"grant#subject", b.id>> # <<"user", user>>
    OBVIOUS
  <2>2. \A g : <<"grant#subject", b.id>> # <<"group#member", g>>
    OBVIOUS
  <2> QED BY <2>1, <2>2
<1>6. ASSUME IsSubject(policy.members, b, user)
      PROVE  <<"grant#subject", b.id>> \in UserSets(tuples, user)
  <2>1. SubjectTuple(b) \in tuples
    BY DEF Project, BindingTuples
  <2>2. SubjectTuple(b).relation = <<"", "subject">> /\ SubjectTuple(b).object[2] = b.id
    BY DEF SubjectTuple, Tuple
  <2> HIDE DEF direct
  <2> QED BY <1>3, <1>4, <1>6, <2>1, <2>2
<1>7. ASSUME <<"grant#subject", b.id>> \in UserSets(tuples, user)
      PROVE  IsSubject(policy.members, b, user)
  <2> HIDE DEF direct
  <2>1. PICK t \in tuples : /\ t.relation = <<"", "subject">> /\ t.user \in direct
                            /\ <<"grant#subject", b.id>> = <<"grant#subject", t.object[2]>>
    BY <1>4, <1>5, <1>7
  <2>2. PICK c \in policy.bindings : t = SubjectTuple(c)
    BY <2>1, ProjectedTuples
  <2>3. t.object[2] = c.id
    BY <2>2 DEF SubjectTuple, Tuple
  <2>4. c = b
    BY <1>2, <2>1, <2>3
  <2> QED BY <1>3, <2>1, <2>2, <2>4
<1> QED BY <1>6, <1>7

-------------------------------------------------------------------------------
(* Where: the questions OpenFGA asks on the parents of a resource follow   *)
(* its lineage.                                                            *)

\* What OpenFGA looks for on a, to answer whether p is allowed on ref.
Asked(p, ref, a) ==
  <<IF a = ref THEN Relation(p) ELSE InheritedRelation(p), ResourceObject(a)>>

Questions(p, ref, S) == {Asked(p, ref, a) : a \in S}

\* Asking the parents of a question's object.
Further(tuples, questions) == questions \cup AskParents(tuples, questions)

Above(resources, S) == S \cup ParentsOf(resources, S)

\* Refs at or above ref.
AtOrAbove(I, ref, S) ==
  /\ ref \in S /\ S \subseteq RefsWith(I)
  /\ \A a \in S : a = ref \/ Level(a[1]) < Level(ref[1])

\* "from parent" turns the relation asked on a resource into the one asked
\* above it (model.fga).
LEMMA AskedAbove ==
  ASSUME NEW p \in Permissions, NEW ref, Supports(p, ref[1]), NEW a
  PROVE  FromParent(Asked(p, ref, a)[1], Asked(p, ref, a)[2][1]) = InheritedRelation(p)
<1>1. CASE Asked(p, ref, a)[1] = InheritedRelation(p)
  BY <1>1, InheritedDiffer DEF FromParent
<1>2. CASE Asked(p, ref, a)[1] # InheritedRelation(p)
  <2>1. a = ref /\ Asked(p, ref, a)[1] = Relation(p) /\ Relation(p) # InheritedRelation(p)
    BY <1>2 DEF Asked
  <2>2. Relation(p) = <<"", p[2]>> /\ ref[1] = p[1]
    BY <2>1, OwnRelation DEF Supports
  <2>3. Asked(p, ref, a)[2][1] = OpenFGAType(p[1])
    BY <2>1, <2>2 DEF Asked, ResourceObject
  <2>4. <<"", p[2]>>[1] = "" /\ <<"", p[2]>>[2] = p[2]
    OBVIOUS
  <2>5. Asked(p, ref, a)[1][1] = "" /\ Asked(p, ref, a)[1][2] = p[2]
    BY <2>1, <2>2, <2>4
  <2> QED BY <2>3, <2>5 DEF FromParent, InheritedRelation
<1> QED BY <1>1, <1>2

\* One round of asking goes one level up the tree.
LEMMA OneLevelUp ==
  ASSUME NEW I, NEW policy, WellFormed(policy, I), NEW p \in Permissions,
         NEW ref, Supports(p, ref[1]), NEW S, AtOrAbove(I, ref, S)
  PROVE  /\ AtOrAbove(I, ref, Above(policy.resources, S))
         /\ Further(Project(policy), Questions(p, ref, S))
              = Questions(p, ref, Above(policy.resources, S))
<1> DEFINE parents == ParentsOf(policy.resources, S)
<1>1. ASSUME NEW row \in policy.resources, row.ref \in S
      PROVE  /\ row.parent \in parents
             /\ row.parent \in RefsWith(I)
             /\ Level(row.parent[1]) < Level(ref[1])
             /\ Asked(p, ref, row.parent) = <<InheritedRelation(p), ResourceObject(row.parent)>>
  <2>1. row.parent \in parents
    BY <1>1 DEF ParentsOf
  <2>2. /\ row.ref \in RefsWith(I) /\ row.parent \in RefsWith(I)
        /\ row.parent[1] \in ParentRule(row.ref[1])
    BY DEF WellFormed
  <2>3. row.ref[1] \in ResourceTypes
    BY <2>2 DEF RefsWith
  <2>4. Level(row.parent[1]) < Level(row.ref[1])
    BY <2>2, <2>3, ParentIsHigher
  <2>5. row.ref = ref \/ Level(row.ref[1]) < Level(ref[1])
    BY <1>1 DEF AtOrAbove
  <2>6. Level(row.parent[1]) < Level(ref[1])
    BY <2>4, <2>5, LevelType
  <2>7. row.parent # ref
    BY <2>6, LevelType
  <2> QED BY <2>1, <2>2, <2>6, <2>7 DEF Asked
<1>2. AtOrAbove(I, ref, Above(policy.resources, S))
  BY <1>1 DEF AtOrAbove, Above, ParentsOf
<1>3. AskParents(Project(policy), Questions(p, ref, S)) \subseteq Questions(p, ref, parents)
  <2> SUFFICES ASSUME NEW x \in AskParents(Project(policy), Questions(p, ref, S))
               PROVE  x \in Questions(p, ref, parents)
    OBVIOUS
  <2>1. PICK q \in Questions(p, ref, S), t \in Project(policy) :
          /\ t.relation = <<"", "parent">> /\ t.object = q[2]
          /\ x = <<FromParent(q[1], q[2][1]), t.user>>
    BY DEF AskParents
  <2>2. PICK a \in S : q = Asked(p, ref, a)
    BY DEF Questions
  <2>3. PICK row \in policy.resources : t = ParentTuple(row)
    BY <2>1, ProjectedTuples
  <2>4. t.object = ResourceObject(row.ref) /\ t.user = ResourceObject(row.parent)
    BY <2>3 DEF ParentTuple, Tuple
  <2>5. t.object = ResourceObject(a)
    BY <2>1, <2>2 DEF Asked
  <2>6. row.ref \in RefsWith(I) /\ a \in RefsWith(I)
    BY DEF WellFormed, AtOrAbove
  <2>7. row.ref = a
    BY <2>4, <2>5, <2>6, ObjectsDiffer
  <2>8. /\ row.parent \in parents
        /\ Asked(p, ref, row.parent) = <<InheritedRelation(p), ResourceObject(row.parent)>>
    BY <1>1, <2>7
  <2>9. FromParent(Asked(p, ref, a)[1], Asked(p, ref, a)[2][1]) = InheritedRelation(p)
    BY AskedAbove
  <2> HIDE DEF parents
  <2> QED BY <2>4, <2>8, <2>9, <2>1, <2>2 DEF Questions
<1>4. Questions(p, ref, parents) \subseteq AskParents(Project(policy), Questions(p, ref, S))
  <2> SUFFICES ASSUME NEW row \in policy.resources, row.ref \in S
               PROVE  Asked(p, ref, row.parent)
                        \in AskParents(Project(policy), Questions(p, ref, S))
    BY DEF Questions, ParentsOf
  <2>1. ParentTuple(row) \in Project(policy)
    BY DEF Project, ParentTuples
  <2>2. /\ ParentTuple(row).relation = <<"", "parent">>
        /\ ParentTuple(row).object = Asked(p, ref, row.ref)[2]
        /\ ParentTuple(row).user = ResourceObject(row.parent)
    BY DEF ParentTuple, Tuple, Asked
  <2>3. Asked(p, ref, row.ref) \in Questions(p, ref, S)
    BY DEF Questions
  <2>4. FromParent(Asked(p, ref, row.ref)[1], Asked(p, ref, row.ref)[2][1])
          = InheritedRelation(p)
    BY AskedAbove
  <2>5. Asked(p, ref, row.parent)
          = <<FromParent(Asked(p, ref, row.ref)[1], Asked(p, ref, row.ref)[2][1]),
              ParentTuple(row).user>>
    BY <1>1, <2>2, <2>4
  <2>6. \A q \in Questions(p, ref, S), t \in Project(policy) :
          t.relation = <<"", "parent">> /\ t.object = q[2] =>
            <<FromParent(q[1], q[2][1]), t.user>>
              \in AskParents(Project(policy), Questions(p, ref, S))
    <3> SUFFICES ASSUME NEW q \in Questions(p, ref, S), NEW t \in Project(policy),
                        t.relation = <<"", "parent">>, t.object = q[2]
                 PROVE  <<FromParent(q[1], q[2][1]), t.user>>
                          \in AskParents(Project(policy), Questions(p, ref, S))
      OBVIOUS
    <3> DEFINE asked(question) ==
          {<<FromParent(question[1], question[2][1]), tuple.user>> :
             tuple \in {tuple \in Project(policy) :
                        tuple.relation = <<"", "parent">> /\ tuple.object = question[2]}}
    <3>1. <<FromParent(q[1], q[2][1]), t.user>> \in asked(q)
      OBVIOUS
    <3>2. AskParents(Project(policy), Questions(p, ref, S))
            = UNION {asked(question) : question \in Questions(p, ref, S)}
      BY DEF AskParents
    <3> HIDE DEF asked
    <3> QED BY <3>1, <3>2
  <2> QED BY <2>1, <2>2, <2>3, <2>5, <2>6
<1>5. Questions(p, ref, Above(policy.resources, S))
        = Questions(p, ref, S) \cup Questions(p, ref, parents)
  BY DEF Questions, Above
<1> HIDE DEF parents
<1> QED BY <1>2, <1>3, <1>4, <1>5 DEF Further

\* OpenFGA's questions about p on ref are about the lineage of ref.
LEMMA QuestionsFollowLineage ==
  ASSUME NEW I, NEW policy, WellFormed(policy, I), NEW p \in Permissions,
         NEW ref \in RefsWith(I), Supports(p, ref[1]), NEW user
  PROVE  /\ AtOrAbove(I, ref, Lineage(policy.resources, ref))
         /\ Holds(Project(policy), user, Relation(p), ResourceObject(ref)) <=>
              \E t \in Project(policy) :
                /\ t.user \in UserSets(Project(policy), user)
                /\ <<t.relation, t.object>>
                     \in Questions(p, ref, Lineage(policy.resources, ref))
<1> DEFINE one == Above(policy.resources, {ref})
           two == Above(policy.resources, one)
           three == Above(policy.resources, two)
           tuples == Project(policy)
<1>1. AtOrAbove(I, ref, {ref})
  BY DEF AtOrAbove
<1>2. {<<Relation(p), ResourceObject(ref)>>} = Questions(p, ref, {ref})
  BY DEF Questions, Asked
<1>3. AtOrAbove(I, ref, one) /\ Further(tuples, Questions(p, ref, {ref})) = Questions(p, ref, one)
  BY <1>1, OneLevelUp
<1>4. AtOrAbove(I, ref, two) /\ Further(tuples, Questions(p, ref, one)) = Questions(p, ref, two)
  <2> HIDE DEF one
  <2> QED BY <1>3, OneLevelUp
<1>5. /\ AtOrAbove(I, ref, three)
      /\ Further(tuples, Questions(p, ref, two)) = Questions(p, ref, three)
  <2> HIDE DEF two
  <2> QED BY <1>4, OneLevelUp
<1>6. Lineage(policy.resources, ref) = three
  BY DEF Lineage, Above
<1>7. Holds(tuples, user, Relation(p), ResourceObject(ref)) <=>
        \E t \in tuples :
          /\ t.user \in UserSets(tuples, user)
          /\ <<t.relation, t.object>>
               \in Further(tuples, Further(tuples, Further(tuples,
                     {<<Relation(p), ResourceObject(ref)>>})))
  BY DEF Holds, Further
<1> HIDE DEF one, two, three, tuples
<1>8. Further(tuples, Further(tuples, Further(tuples, {<<Relation(p), ResourceObject(ref)>>})))
        = Questions(p, ref, three)
  BY <1>2, <1>3, <1>4, <1>5
<1> USE DEF tuples
<1> QED BY <1>5, <1>6, <1>7, <1>8

-------------------------------------------------------------------------------
(* Decisions *)

\* A grant answers a question about p exactly when it is of p and its target
\* is in the lineage.
LEMMA GrantAnswers ==
  ASSUME NEW I, NEW p \in Permissions, NEW ref \in RefsWith(I), Supports(p, ref[1]),
         NEW S, AtOrAbove(I, ref, S),
         NEW b, NEW q \in Permissions, NEW target \in RefsWith(I)
  PROVE  <<GrantTuple(b, q, target).relation, GrantTuple(b, q, target).object>>
           \in Questions(p, ref, S)
         <=> q = p /\ target \in S
<1>1. /\ GrantTuple(b, q, target).relation = RelationAtScope(q, target[1])
      /\ GrantTuple(b, q, target).object = ResourceObject(target)
  BY DEF GrantTuple, Tuple
<1>2. ASSUME <<RelationAtScope(q, target[1]), ResourceObject(target)>> \in Questions(p, ref, S)
      PROVE  q = p /\ target \in S
  <2>1. PICK a \in S : <<RelationAtScope(q, target[1]), ResourceObject(target)>> = Asked(p, ref, a)
    BY <1>2 DEF Questions
  <2>2. /\ RelationAtScope(q, target[1]) = IF a = ref THEN Relation(p) ELSE InheritedRelation(p)
        /\ ResourceObject(target) = ResourceObject(a)
    BY <2>1 DEF Asked
  <2>3. a \in RefsWith(I)
    BY DEF AtOrAbove
  <2>4. a = target
    BY <2>2, <2>3, ObjectsDiffer
  <2>5. \/ RelationAtScope(q, target[1]) = InheritedRelation(p)
        \/ RelationAtScope(q, target[1]) = Relation(p) /\ Supports(p, target[1])
    BY <2>2, <2>4
  <2>6. p = q
    BY <2>5, RelationsDiffer
  <2> QED BY <2>4, <2>6
<1>3. ASSUME target \in S
      PROVE  <<RelationAtScope(p, target[1]), ResourceObject(target)>> = Asked(p, ref, target)
  <2>1. CASE target = ref
    BY <2>1 DEF RelationAtScope, Asked
  <2>2. CASE target # ref
    <3>1. target[1] # ref[1]
      BY <1>3, <2>2, LevelType DEF AtOrAbove
    <3>2. Supports(p, target[1]) => Relation(p) = InheritedRelation(p)
      BY <3>1, WidePermissions
    <3> QED BY <2>2, <3>2 DEF RelationAtScope, Asked
  <2> QED BY <2>1, <2>2
<1> QED BY <1>1, <1>2, <1>3 DEF Questions

\* What a binding selects for p is what one of the targets p is written on
\* is at or above.
LEMMA SelectsByTarget ==
  ASSUME NEW resources, NEW b, NEW p, NEW ref
  PROVE  Selects(resources, b, p, ref) <=>
           \E target \in Targets(b) :
             /\ b.match = "scope" \/ Supports(p, target[1])
             /\ target \in Lineage(resources, ref)
BY DEF Selects, Targets

\* What OpenFGA answers from the projection of a policy, with the relations
\* openfga.go writes and model.fga looks for, is what the policy means: for
\* any policy, any user, and any permission on any resource that it applies to.
THEOREM DecisionsOfProjection ==
  ASSUME NEW I, NEW policy, WellFormed(policy, I), NEW user,
         NEW p \in Permissions, NEW ref \in RefsWith(I), Supports(p, ref[1])
  PROVE  Allows(Project(policy), user, p, ref) <=> Granted(policy, user, p, ref)
<1> DEFINE lineage == Lineage(policy.resources, ref)
<1>1. AtOrAbove(I, ref, lineage)
  BY QuestionsFollowLineage
<1>2. Allows(Project(policy), user, p, ref) <=>
        \E t \in Project(policy) :
          /\ t.user \in UserSets(Project(policy), user)
          /\ <<t.relation, t.object>> \in Questions(p, ref, lineage)
  BY QuestionsFollowLineage DEF Allows
<1> HIDE DEF lineage
<1>3. ASSUME NEW b \in policy.bindings, NEW q, NEW target
      PROVE  GrantTuple(b, q, target).user = <<"grant#subject", b.id>>
  BY DEF GrantTuple, Tuple
<1>4. ASSUME NEW t \in Project(policy), t.user \in UserSets(Project(policy), user),
             <<t.relation, t.object>> \in Questions(p, ref, lineage)
      PROVE  Granted(policy, user, p, ref)
  <2>1. PICK a \in lineage : <<t.relation, t.object>> = Asked(p, ref, a)
    BY <1>4 DEF Questions
  <2>2. t.relation[2] \in Operations
    BY <2>1, GrantRelation DEF Asked
  <2>3. PICK b \in policy.bindings : \E role \in RowsWithId(policy.roles, b.role) :
          GrantOf(b, role, t)
    BY <2>2, ProjectedTuples
  <2>4. PICK role \in RowsWithId(policy.roles, b.role) : GrantOf(b, role, t)
    BY <2>3
  <2>5. PICK q \in role.permissions, target \in Targets(b) :
            /\ b.match = "scope" \/ Supports(q, target[1])
            /\ t = GrantTuple(b, q, target)
    BY <2>4 DEF GrantOf
  <2>6. target \in RefsWith(I) /\ q \in Permissions
    BY TargetsOf DEF WellFormed, RowsWithId
  <2>7. q = p /\ target \in lineage
    BY <1>1, <1>4, <2>5, <2>6, GrantAnswers
  <2>8. IsSubject(policy.members, b, user)
    BY <1>3, <1>4, <2>5, GrantSubjects
  <2>9. Selects(policy.resources, b, p, ref)
    BY <2>5, <2>7, SelectsByTarget DEF lineage
  <2> QED BY <2>5, <2>7, <2>8, <2>9 DEF Granted
<1>5. ASSUME Granted(policy, user, p, ref)
      PROVE  \E t \in Project(policy) :
               /\ t.user \in UserSets(Project(policy), user)
               /\ <<t.relation, t.object>> \in Questions(p, ref, lineage)
  <2>1. PICK b \in policy.bindings :
          \E role \in RowsWithId(policy.roles, b.role) :
            /\ p \in role.permissions
            /\ IsSubject(policy.members, b, user)
            /\ Selects(policy.resources, b, p, ref)
    BY <1>5 DEF Granted
  <2>2. PICK role \in RowsWithId(policy.roles, b.role) :
          /\ p \in role.permissions
          /\ IsSubject(policy.members, b, user)
          /\ Selects(policy.resources, b, p, ref)
    BY <2>1
  <2>3. PICK target \in Targets(b) :
          /\ b.match = "scope" \/ Supports(p, target[1])
          /\ target \in lineage
    BY <2>2, SelectsByTarget DEF lineage
  <2>4. GrantTuple(b, p, target) \in Project(policy)
    <3>1. GrantTuple(b, p, target) \in PermissionTuples(b, role.permissions)
      BY <2>2, <2>3 DEF GrantTuple, PermissionTuples
    <3> QED BY <3>1 DEF Project, BindingTuples
  <2>5. target \in RefsWith(I)
    BY TargetsOf
  <2>6. GrantTuple(b, p, target).user \in UserSets(Project(policy), user)
    BY <1>3, <2>2, GrantSubjects
  <2>7. <<GrantTuple(b, p, target).relation, GrantTuple(b, p, target).object>>
          \in Questions(p, ref, lineage)
    BY <1>1, <2>3, <2>5, GrantAnswers
  <2> QED BY <2>4, <2>6, <2>7
<1> QED BY <1>2, <1>4, <1>5

-------------------------------------------------------------------------------
(* What a policy that can be projected promises the writes of Sync. *)

\* OpenFGA has a place in model.fga for every tuple of the projection of a
\* policy whose bindings can all be projected.
THEOREM ProjectionAccepted ==
  ASSUME NEW I, NEW policy, WellFormed(policy, I), Sound(policy)
  PROVE  \A t \in Project(policy) : Accepted(t)
<1>1. \A t \in ParentTuples(policy.resources) : Accepted(t)
  BY ParentAccepted DEF ParentTuples, WellFormed
<1>2. \A t \in MembershipTuples(policy.members) : Accepted(t)
  BY MembershipAccepted DEF MembershipTuples
<1>3. ASSUME NEW b \in policy.bindings, NEW role \in RowsWithId(policy.roles, b.role)
      PROVE  \A t \in BindingTuples(b, role) : Accepted(t)
  <2>1. role \in policy.roles /\ role.id = b.role
    BY DEF RowsWithId
  <2>2. Projectable(b, role.permissions)
    BY <2>1 DEF Sound, WellFormed
  <2>3. role.permissions \subseteq Permissions /\ b.subject[1] \in {"user", "group"}
    BY <2>1 DEF WellFormed
  <2>4. \A ref \in Targets(b) : ref[1] \in ResourceTypes
    BY TargetsOf DEF RefsWith
  <2> QED BY <2>2, <2>3, <2>4, BindingAccepted DEF BindingTuples
<1> QED BY <1>1, <1>2, <1>3 DEF Project

\* Two permissions, or two resources, make two tuples.
LEMMA GrantsDiffer ==
  ASSUME NEW I, NEW b, NEW p \in Permissions, NEW q \in Permissions,
         NEW r \in RefsWith(I), NEW s \in RefsWith(I),
         GrantTuple(b, p, r) = GrantTuple(b, q, s)
  PROVE  p = q /\ r = s
<1>1. /\ RelationAtScope(p, r[1]) = RelationAtScope(q, s[1])
      /\ ResourceObject(r) = ResourceObject(s)
  BY DEF GrantTuple, Tuple
<1>2. r = s
  BY <1>1, ObjectsDiffer
<1>3. \/ RelationAtScope(q, r[1]) = InheritedRelation(p)
      \/ RelationAtScope(q, r[1]) = Relation(p) /\ Supports(p, r[1])
  BY <1>1, <1>2 DEF RelationAtScope
<1> QED BY <1>2, <1>3, RelationsDiffer
===============================================================================
