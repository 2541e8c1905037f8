---------------------------- MODULE MCRoleEditing -----------------------------
(* An instance of RoleEditing for TLC. *)
EXTENDS RoleEditing

\* A permission that comes and goes, for which the binding has no target.
MCContents == {{"read"}, {"read", "ssh"}}
MCCreated == {"read"}
MCBindingId == {"b1"}
MCSupported == [b \in MCBindingId |-> {"read"}]
===============================================================================
