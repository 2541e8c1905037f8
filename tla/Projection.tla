------------------------------ MODULE Projection ------------------------------
(***************************************************************************)
(* What the service promises of its two stores, with nothing in between:   *)
(* operators change the policy as they like, and the authority that        *)
(* answers checks only ever moves, in one step, to the complete projection *)
(* of the policy there is at that moment.  PermissionService is shown to   *)
(* implement this when it handles one request at a time.                   *)
(***************************************************************************)
CONSTANTS Project(_),  \* the authority that a policy asks for
          Sound(_)     \* whether a policy has a projection at all

VARIABLES policy,      \* what operators have decided
          authority    \* what decisions are made from

Init == authority = {}

Decide == policy' # policy /\ UNCHANGED authority

Publish == /\ Sound(policy)
           /\ authority' = Project(policy)
           /\ UNCHANGED policy

Spec == Init /\ [][Decide \/ Publish]_<<policy, authority>>
===============================================================================
