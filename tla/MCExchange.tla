------------------------------ MODULE MCExchange ------------------------------
(* Instances of Exchange for TLC. *)
EXTENDS Exchange

\* Ordinary ids, the segments that paths treat apart, and words of the API.
MCNames == {"unit", "", ".", "..", "members", "preview"}
FewNames == {"unit"}

CallsOf(op, names, body, ifMatch, users) ==
  [op : {op}, args : [1..Arity(op) -> names], body : {body},
   ifMatch : {ifMatch}, user : users]

\* Every operation with and without a caller; a body that is not JSON; no If-Match.
FewCalls ==
  UNION {CallsOf(op, FewNames, "json", TRUE, {"", "someone"}) : op \in Ops}
  \cup UNION {CallsOf(op, FewNames, "text", TRUE, {"", "someone"}) : op \in TakesBody}
  \cup UNION {CallsOf(op, FewNames, "json", FALSE, {"", "someone"}) : op \in NeedsIfMatch}

\* And every command that takes a name or an id, with each of the names.
MCCalls ==
  FewCalls \cup
  {c \in UNION {CallsOf(op, MCNames, "json", TRUE, {"someone"}) : op \in Ops} : IsCommand(c)}
===============================================================================
