--------------------------- MODULE Decisions_proofs ----------------------------
(***************************************************************************)
(* Theorems about Decisions, for any users, groups and policies to begin   *)
(* with.                                                                   *)
(***************************************************************************)
EXTENDS Decisions, Translation_proofs, FiniteSetTheorems

\* Joining and leaving groups leaves the tables well-formed.
THEOREM PoliciesStayWellFormed == Spec => []WellFormed(policy, Ids)
<1>1. Init => WellFormed(policy, Ids)
  BY PoliciesAssumption DEF Init
<1>2. WellFormed(policy, Ids) /\ [Next]_policy => WellFormed(policy, Ids)'
  <2> SUFFICES ASSUME WellFormed(policy, Ids), [Next]_policy
               PROVE  WellFormed(policy', Ids)
    OBVIOUS
  <2>1. ASSUME NEW members, members \subseteq Ids \X Ids,
               policy' = [policy EXCEPT !.members = members]
        PROVE  WellFormed(policy', Ids)
    <3>1. /\ policy'.members \subseteq Ids \X Ids
          /\ policy'.roles = policy.roles
          /\ policy'.resources = policy.resources
          /\ policy'.bindings = policy.bindings
      BY <2>1
    <3> QED BY <3>1 DEF WellFormed
  <2>2. ASSUME NEW group \in Group, NEW user \in User, Join(group, user)
        PROVE  WellFormed(policy', Ids)
    BY <2>1, <2>2, IdsAssumption DEF Join, WellFormed
  <2>3. ASSUME NEW group \in Group, NEW user \in User, Leave(group, user)
        PROVE  WellFormed(policy', Ids)
    BY <2>1, <2>3 DEF Leave, WellFormed
  <2>4. CASE UNCHANGED policy
    BY <2>4
  <2> QED BY <2>2, <2>3, <2>4 DEF Next
<1> QED BY <1>1, <1>2, PTL DEF Spec

\* OpenFGA decides as the policy says, whoever joins and leaves.
THEOREM DecisionsHold == Spec => []DecisionsFollowPolicy
<1>1. WellFormed(policy, Ids) => DecisionsFollowPolicy
  <2> SUFFICES ASSUME WellFormed(policy, Ids),
                      NEW user \in User, NEW p \in Permissions, NEW ref \in Refs,
                      Supports(p, ref[1])
               PROVE  Allows(Project(policy), user, p, ref) <=> Granted(policy, user, p, ref)
    BY DEF DecisionsFollowPolicy
  <2>1. CASE ref = ControllerRef
    <3>1. ControllerRef = <<"controller", "juju">> /\ "controller" \in ResourceTypes
      BY DEF ControllerRef, ResourceTypes
    <3>2. ref \in RefsWith(Ids \cup {"juju"})
      BY <2>1, <3>1 DEF RefsWith
    <3>3. WellFormed(policy, Ids \cup {"juju"})
      BY WiderIds
    <3> QED BY <3>2, <3>3, DecisionsOfProjection
  <2>2. CASE \E row \in policy.resources : ref = row.ref
    <3>1. ref \in RefsWith(Ids)
      BY <2>2 DEF WellFormed
    <3> QED BY <3>1, DecisionsOfProjection
  <2> QED BY <2>1, <2>2 DEF Refs
<1> QED BY <1>1, PoliciesStayWellFormed, PTL

\* OpenFGA accepts every tuple of a policy that can be projected.
THEOREM TuplesAreAccepted == Spec => []TuplesAccepted
<1>1. WellFormed(policy, Ids) => TuplesAccepted
  BY ProjectionAccepted DEF TuplesAccepted
<1> QED BY <1>1, PoliciesStayWellFormed, PTL

-------------------------------------------------------------------------------
(* As many tuples as permissions and resources *)

\* The catalogue is finite.
LEMMA FinitePermissions == IsFiniteSet(Permissions)
<1>1. \A x : IsFiniteSet({x})
  BY FS_Singleton
<1>2. ASSUME NEW S, NEW x, IsFiniteSet(S)
      PROVE  IsFiniteSet(S \cup {x})
  BY <1>2, FS_AddElement
<1>3. \A x, y : IsFiniteSet({x, y})
  <2> SUFFICES ASSUME NEW x, NEW y PROVE IsFiniteSet({x, y})
    OBVIOUS
  <2>1. {x, y} = {x} \cup {y}
    OBVIOUS
  <2>2. IsFiniteSet({x} \cup {y})
    BY <1>1, <1>2
  <2> QED BY <2>1, <2>2
<1>4. \A x, y, z : IsFiniteSet({x, y, z})
  <2> SUFFICES ASSUME NEW x, NEW y, NEW z PROVE IsFiniteSet({x, y, z})
    OBVIOUS
  <2>1. {x, y, z} = {x, y} \cup {z}
    OBVIOUS
  <2>2. IsFiniteSet({x, y} \cup {z})
    BY <1>2, <1>3
  <2> QED BY <2>1, <2>2
<1>5. IsFiniteSet(Kinds)
  <2>1. Kinds = {"model", "application", "unit"} \cup {"machine", "cloud-credential"}
    BY DEF Kinds
  <2> QED BY <1>3, <1>4, <2>1, FS_Union
<1>6. /\ IsFiniteSet({"policy"} \X {"read", "manage"})
      /\ IsFiniteSet(Kinds \X {"read", "create", "delete"})
      /\ IsFiniteSet({"application"} \X {"config_read", "config_write"})
      /\ IsFiniteSet({"unit", "machine"} \X {"ssh"})
  BY <1>1, <1>3, <1>4, <1>5, FS_Product
<1>7. /\ IsFiniteSet(({"policy"} \X {"read", "manage"})
                       \cup (Kinds \X {"read", "create", "delete"}))
      /\ IsFiniteSet((({"policy"} \X {"read", "manage"})
                        \cup (Kinds \X {"read", "create", "delete"}))
                       \cup ({"application"} \X {"config_read", "config_write"}))
  BY <1>6, FS_Union
<1> QED BY <1>6, <1>7, FS_Union DEF Permissions

\* A binding has finitely many targets.
LEMMA FiniteTargets ==
  ASSUME WellFormed(policy, Ids), NEW b \in policy.bindings
  PROVE  IsFiniteSet(Targets(b))
<1>1. IsFiniteSet({b.scope})
  BY FS_Singleton
<1>2. IsFiniteSet(Listed(b))
  <2>1. /\ b.resources \in Seq(RefsWith(Ids))
        /\ DOMAIN b.resources = 1..Len(b.resources) /\ Len(b.resources) \in Nat
    BY DEF WellFormed
  <2> DEFINE f == [i \in 1..Len(b.resources) |-> b.resources[i]]
  <2>2. f \in Surjection(1..Len(b.resources), Listed(b))
    BY <2>1 DEF Surjection, Listed
  <2>3. IsFiniteSet(1..Len(b.resources))
    BY <2>1, FS_Interval
  <2> QED BY <2>2, <2>3, FS_Surjection
<1> QED BY <1>1, <1>2 DEF Targets

\* No two permissions of a role become one tuple on the same resource.
THEOREM TuplesAreDistinct == Spec => []DistinctTuples
<1>1. WellFormed(policy, Ids) => DistinctTuples
  <2> SUFFICES ASSUME WellFormed(policy, Ids), NEW b \in policy.bindings,
                      NEW role \in RowsWithId(policy.roles, b.role)
               PROVE  Cardinality(PermissionTuples(b, role.permissions)) =
                        Cardinality({grant \in role.permissions \X Targets(b) :
                          b.match = "exact" => Supports(grant[1], grant[2][1])})
    BY DEF DistinctTuples
  <2> DEFINE grants == {grant \in role.permissions \X Targets(b) :
                          b.match = "exact" => Supports(grant[1], grant[2][1])}
             tuples == PermissionTuples(b, role.permissions)
             f == [grant \in grants |-> GrantTuple(b, grant[1], grant[2])]
  <2>1. role.permissions \subseteq Permissions /\ Targets(b) \subseteq RefsWith(Ids)
    BY TargetsOf DEF WellFormed, RowsWithId
  <2>2. IsFiniteSet(grants)
    <3>1. IsFiniteSet(role.permissions)
      BY <2>1, FinitePermissions, FS_Subset
    <3>2. IsFiniteSet(role.permissions \X Targets(b))
      BY <3>1, FiniteTargets, FS_Product
    <3> QED BY <3>2, FS_Subset
  <2>3. f \in Surjection(grants, tuples)
    <3>1. b.match \in {"scope", "exact"}
      BY DEF WellFormed
    <3>2. ASSUME NEW grant \in grants PROVE f[grant] \in tuples
      <4>1. /\ grant[1] \in role.permissions /\ grant[2] \in Targets(b)
            /\ b.match = "scope" \/ Supports(grant[1], grant[2][1])
        BY <3>1
      <4> QED BY <4>1 DEF PermissionTuples, GrantTuple
    <3>3. ASSUME NEW t \in tuples PROVE \E grant \in grants : f[grant] = t
      <4>1. PICK p \in role.permissions, ref \in Targets(b) :
              /\ b.match = "scope" \/ Supports(p, ref[1])
              /\ t = GrantTuple(b, p, ref)
        BY DEF PermissionTuples, GrantTuple
      <4>2. <<p, ref>> \in grants
        BY <4>1
      <4>3. f[<<p, ref>>] = t
        BY <4>1, <4>2
      <4> QED BY <4>2, <4>3
    <3>4. f \in [grants -> tuples]
      BY <3>2
    <3> HIDE DEF f, grants, tuples
    <3> QED BY <3>3, <3>4 DEF Surjection
  <2>4. f \in Injection(grants, tuples)
    <3>1. ASSUME NEW g \in grants, NEW h \in grants, f[g] = f[h] PROVE g = h
      <4>1. /\ g[1] \in Permissions /\ h[1] \in Permissions
            /\ g[2] \in RefsWith(Ids) /\ h[2] \in RefsWith(Ids)
            /\ g = <<g[1], g[2]>> /\ h = <<h[1], h[2]>>
        BY <2>1
      <4>2. GrantTuple(b, g[1], g[2]) = GrantTuple(b, h[1], h[2])
        BY <3>1
      <4>3. g[1] = h[1] /\ g[2] = h[2]
        BY <4>1, <4>2, GrantsDiffer
      <4> QED BY <4>1, <4>3
    <3>2. f \in [grants -> tuples]
      BY <2>3 DEF Surjection
    <3> HIDE DEF f, grants, tuples
    <3> QED BY <3>1, <3>2 DEF Injection, IsInjective
  <2> QED BY <2>2, <2>3, <2>4, FS_Surjection
<1> QED BY <1>1, PoliciesStayWellFormed, PTL
===============================================================================
