-------------------------------- MODULE Tables --------------------------------
(***************************************************************************)
(* Tables kept in sections.  api/api.gen.go goes through the operations    *)
(* section by section, and so do the tables made from it; none of them is  *)
(* in two sections.                                                        *)
(***************************************************************************)

\* The entries of all the sections.
Joined(sections) ==
  [key \in UNION {DOMAIN section : section \in sections} |->
     (CHOOSE section \in sections : key \in DOMAIN section)[key]]
===============================================================================
