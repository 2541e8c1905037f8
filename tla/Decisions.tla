------------------------------- MODULE Decisions -------------------------------
(***************************************************************************)
(* The decisions OpenFGA makes from the projected tuples, compared with    *)
(* what the policy means, as users join and leave groups.                  *)
(***************************************************************************)
EXTENDS Store, FiniteSets

CONSTANTS
  Ids,       \* the ids of users, groups and resources
  User,      \* the users that ask
  Group,     \* the groups that users join and leave
  Policies   \* the policies to begin with

ASSUME IdsAssumption == User \subseteq Ids /\ Group \subseteq Ids
ASSUME PoliciesAssumption == \A aPolicy \in Policies : WellFormed(aPolicy, Ids)

VARIABLE policy

Init == policy \in Policies

Join(group, user) == policy' = [policy EXCEPT !.members = @ \cup {<<group, user>>}]
Leave(group, user) == policy' = [policy EXCEPT !.members = @ \ {<<group, user>>}]

Next == \E group \in Group, user \in User : Join(group, user) \/ Leave(group, user)

Spec == Init /\ [][Next]_policy

-------------------------------------------------------------------------------

Refs == {row.ref : row \in policy.resources} \cup {ControllerRef}

\* Every decision OpenFGA makes from the projection of a policy is the one the
\* policy means: the relations openfga.go writes are those model.fga looks
\* for, on every path from a resource to its ancestors, for no one else.
DecisionsFollowPolicy ==
  Sound(policy) =>
    \A user \in User, p \in Permissions, ref \in Refs :
      Supports(p, ref[1]) =>
        (Allows(Project(policy), user, p, ref) <=> Granted(policy, user, p, ref))

\* OpenFGA has a place in model.fga for every tuple that is written: a binding
\* that passes PermissionTuples never makes the write of Sync fail.
TuplesAccepted == Sound(policy) => \A t \in Project(policy) : Accepted(t)

\* No two permissions of a role become one tuple on the same resource: a
\* tuple is listed twice, which fails the record of a Sync, only when a
\* resource is.
DistinctTuples ==
  \A b \in policy.bindings : \A role \in RowsWithId(policy.roles, b.role) :
    Projectable(b, role.permissions) =>
      Cardinality(PermissionTuples(b, role.permissions)) =
        Cardinality({grant \in role.permissions \X Targets(b) :
                       b.match = "exact" => Supports(grant[1], grant[2][1])})
===============================================================================
