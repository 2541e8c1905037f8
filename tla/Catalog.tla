------------------------------- MODULE Catalog -------------------------------
(***************************************************************************)
(* The permission catalogue (internal/catalog/catalog.go): which           *)
(* permissions exist, the types of resource each one applies to, the       *)
(* OpenFGA relation it is checked with and the tree of resource types.     *)
(*                                                                         *)
(* A permission "application.config.read" is the pair                      *)
(* <<"application", "config_read">>: the family before the first dot and   *)
(* the operation after it.  A relation is a pair of the same shape;        *)
(* "unit_read" is <<"unit", "read">> and "read" is <<"", "read">>.         *)
(***************************************************************************)
EXTENDS Naturals

\* The resource types of the API, and those that have rows in the store:
\* the controller is implicit.
Kinds == {"model", "application", "unit", "machine", "cloud-credential"}
ResourceTypes == Kinds \cup {"controller"}

\* The 21 permissions of the catalogue.
Permissions ==
  ({"policy"} \X {"read", "manage"})
    \cup (Kinds \X {"read", "create", "delete"})
    \cup ({"application"} \X {"config_read", "config_write"})
    \cup ({"unit", "machine"} \X {"ssh"})

\* The resource types on which permission p can be checked: a create
\* permission is checked on the parent of what is created.
AppliesTo(p) ==
  CASE p[1] = "policy" -> {"controller", "model"}
    [] p = <<"model", "create">> -> {"controller"}
    [] p = <<"application", "create">> -> {"model"}
    [] p = <<"unit", "create">> -> {"application"}
    [] p = <<"machine", "create">> -> {"model", "application"}
    [] p = <<"cloud-credential", "create">> -> {"controller"}
    [] OTHER -> {p[1]}

Supports(p, type) == type \in AppliesTo(p)

\* OpenFGA names types with underscores.
OpenFGAType(type) ==
  IF type = "cloud-credential" THEN "cloud_credential" ELSE type

\* A permission with its dots and dashes replaced: the relation that carries
\* it on the ancestors of the resources it applies to.
InheritedRelation(p) == <<OpenFGAType(p[1]), p[2]>>

\* Faulty variant of Relation: create permissions lose their family.
UnqualifiedRelation(p) == IF p[1] = "policy" THEN InheritedRelation(p) ELSE <<"", p[2]>>

\* The relation a permission is checked with on a resource it applies to.
Relation(p) ==
  IF p[1] = "policy" \/ p[2] = "create" THEN InheritedRelation(p)
  ELSE <<"", p[2]>>

\* The types a resource of the given type may have as its parent.
ParentRule(type) ==
  CASE type \in {"model", "cloud-credential"} -> {"controller"}
    [] type = "application" -> {"model"}
    [] type = "unit" -> {"application"}
    [] type = "machine" -> {"model", "application"}
    [] OTHER -> {}

CreatePermission(type) == <<type, "create">>
DeletePermission(type) == <<type, "delete">>

\* A resource is referred to by its type and its id.
ControllerRef == <<"controller", "juju">>
===============================================================================
