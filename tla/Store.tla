-------------------------------- MODULE Store ---------------------------------
(***************************************************************************)
(* The tables of internal/store/store.go as sets of rows, the queries over *)
(* them, and the projection the service computes from them.                *)
(*                                                                         *)
(*   role      [id, builtIn, revision, permissions]                        *)
(*   binding   [id, subject, role, scope, match, resources, compatibility] *)
(*   resource  [ref, name, parent]; a ref is <<type, id>>                  *)
(*   member    <<group id, user id>>                                       *)
(*                                                                         *)
(* Descriptions, display names, statuses, configurations and the audit log *)
(* are left out: no decision depends on them.                              *)
(***************************************************************************)
EXTENDS Translation

RowsWithId(rows, id) == {row \in rows : row.id = id}

-------------------------------------------------------------------------------
(* The resource tree *)

Exists(resources, ref) == \E row \in resources : row.ref = ref

ParentsOf(resources, refs) == {row.parent : row \in {r \in resources : r.ref \in refs}}

\* A resource and everything above it: at most four levels (ParentRule).
Lineage(resources, ref) ==
  LET Up(refs) == refs \cup ParentsOf(resources, refs)
  IN Up(Up(Up({ref})))

\* Faulty variant of HasChildren: it looks among the siblings.
HasSiblingChildren(resources, ref) ==
  \E row \in resources : row.parent = ref /\ row.ref[1] = ref[1]

HasChildren(resources, ref) == \E row \in resources : row.parent = ref

\* managementScope: the nearest model or controller at or above a resource.
\* A singleton, or empty where the code meets a missing row.
PolicyScope(ref) == ref[1] \in {"controller", "model"}

ManagementScopes(resources, ref) ==
  LET Climb(refs) == {r \in refs : PolicyScope(r)}
                       \cup ParentsOf(resources, {r \in refs : ~PolicyScope(r)})
  IN {r \in Climb(Climb({ref})) : PolicyScope(r)}

-------------------------------------------------------------------------------
(* Bindings *)

\* Faulty variant of CompatibilityBindings: it misses the rows of users.
NoCompatibilityBindings(bindings, user, model) ==
  {b \in bindings : b.subject = <<"group", user>> /\ b.scope = <<"model", model>>}

CompatibilityBindings(bindings, user, model) ==
  {b \in bindings : /\ b.subject = <<"user", user>>
                    /\ b.scope = <<"model", model>>
                    /\ b.compatibility}

\* UNIQUE (subject, role, scope, compatibility): the selector is not part of it.
SameKey(b, c) == /\ b.subject = c.subject
                 /\ b.role = c.role
                 /\ b.scope = c.scope
                 /\ b.compatibility = c.compatibility

CompatibilityRole(access) ==
  CASE access = "read" -> "model-reader"
    [] access = "write" -> "model-writer"
    [] access = "admin" -> "model-admin"

\* What revoking a level leaves.
NextAccess(access) ==
  CASE access = "admin" -> "write"
    [] access = "write" -> "read"
    [] access = "read" -> "none"

-------------------------------------------------------------------------------
(* The projection of a policy: what an undisturbed Sync computes.          *)
(* A policy is a record of the four tables that feed it.                   *)

ParentTuples(resources) == {ParentTuple(r) : r \in resources}
MembershipTuples(members) == {MembershipTuple(m[1], m[2]) : m \in members}

BindingTuples(b, role) == PermissionTuples(b, role.permissions) \cup {SubjectTuple(b)}

Sound(policy) ==
  \A b \in policy.bindings : \E role \in policy.roles :
    role.id = b.role /\ Projectable(b, role.permissions)

Project(policy) ==
  ParentTuples(policy.resources)
    \cup MembershipTuples(policy.members)
    \cup UNION {UNION {BindingTuples(b, role) : role \in RowsWithId(policy.roles, b.role)} :
                b \in policy.bindings}
-------------------------------------------------------------------------------
(* What a policy means.                                                    *)

\* A scope selects itself and what is below it.  A listed resource selects
\* itself for the permissions that apply to it, and what is below it where
\* the same permission applies there too: machine.create on a model covers
\* its applications.
Selects(resources, b, p, ref) ==
  IF b.match = "scope" THEN b.scope \in Lineage(resources, ref)
  ELSE \E l \in Listed(b) : Supports(p, l[1]) /\ l \in Lineage(resources, ref)

IsSubject(members, b, user) ==
  \/ b.subject = <<"user", user>>
  \/ b.subject[1] = "group" /\ <<b.subject[2], user>> \in members

\* Some binding lets user do p on ref: the user is its subject or a member of
\* it now, its role has p, and it selects ref for p.
Granted(policy, user, p, ref) ==
  \E b \in policy.bindings : \E role \in RowsWithId(policy.roles, b.role) :
    /\ p \in role.permissions
    /\ IsSubject(policy.members, b, user)
    /\ Selects(policy.resources, b, p, ref)

-------------------------------------------------------------------------------
(* What the tables hold: rows of the catalogue's types with ids in the set *)
(* I, parents of the types the catalogue allows, one row for an id.        *)

RefsWith(I) == ResourceTypes \X I

WellFormed(policy, I) ==
  /\ policy.members \subseteq I \X I
  /\ \A role \in policy.roles : role.permissions \subseteq Permissions
  /\ \A row \in policy.resources :
       /\ row.ref \in RefsWith(I) /\ row.parent \in RefsWith(I)
       /\ row.parent[1] \in ParentRule(row.ref[1])
  /\ \A b \in policy.bindings :
       /\ b.subject \in {"user", "group"} \X I
       /\ b.match \in {"scope", "exact"}
       /\ b.scope \in RefsWith(I) /\ b.resources \in Seq(RefsWith(I))
  /\ \A b, c \in policy.bindings : b.id = c.id => b = c
  /\ \A role, other \in policy.roles : role.id = other.id => role = other
===============================================================================
