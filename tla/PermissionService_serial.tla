------------------------ MODULE PermissionService_serial ----------------------
(***************************************************************************)
(* What PermissionService guarantees when it handles one request at a      *)
(* time, for every value of the other constants: OpenFGA holds what was    *)
(* last recorded or the projection of the present policy, an answer of     *)
(* success means that the policy is in force, and the service implements   *)
(* Projection.  The three hold for the same reason: the invariant Tracked  *)
(* says what part of the projection a Sync has collected at each call.     *)
(* From it, and from what a handler may rely on at each call, follows that *)
(* without errors no Sync fails, so that at rest the policy is in force    *)
(* and every check is answered as it says.                                 *)
(***************************************************************************)
EXTENDS PermissionService_proofs

SeedIds == {b.id : b \in SeedBindings}

Distinct(seq) == \A i, j \in DOMAIN seq : seq[i] = seq[j] => i = j

\* A request that leaves the seeded rows alone.
SparesSeed(r) ==
  /\ r.op = "DeleteBinding" => r.binding \notin SeedIds
  /\ r.op = "DeleteResource" => \A row \in SeedResources : row.ref # r.resource

\* The conditions: one handler; no failure between the write to OpenFGA and
\* the record of it; no exact selector that names a resource twice; and no
\* restart that seeds again what a request has deleted.
Serial ==
  /\ \A g, h \in Handlers : g = h
  /\ "lost-record" \notin Faults
  /\ \A r \in Requests : r.op = "CreateBinding" => Distinct(r.resources)
  /\ \A b \in SeedBindings : Distinct(b.resources)
  /\ "crash" \in Faults => \A r \in Requests : SparesSeed(r)

-------------------------------------------------------------------------------
(* The invariant *)

KeysOK ==
  /\ RoleKeys
  /\ \A b \in bindings : Distinct(b.resources)

\* What p has collected is that part of the projection of the policy, and it
\* writes the difference from what is recorded.
Tracked(p) ==
  /\ ~local[p].repeated
  /\ Collected(p)
  /\ pc[p] = "Write" => local[p].current = synced
  /\ pc[p] = "ReplaceSyncedTuples" => fga = Project(policy)

\* A write to OpenFGA not yet recorded is that of a Sync that is about to
\* record it, or of one that a crash has ended before it could.
Recorded ==
  \/ fga = synced
  \/ /\ Projected
     /\ \/ \E p \in Procs : pc[p] = "ReplaceSyncedTuples"
        \/ "crash" \in Faults /\ server # "serving"

Seeded ==
  /\ \A r \in SeedRoles : RowsWithId(roles, r.id) # {}
  /\ SeedBindings \subseteq bindings
  /\ SeedResources \subseteq resources

Pristine == server = "down" /\ roles = {} /\ bindings = {} /\ resources = {}

\* The seeded rows stay, so that a restart changes nothing.
SeedKept ==
  /\ SeedIds \subseteq issued
  /\ \A b \in bindings : b.id \in SeedIds => b \in SeedBindings
  /\ Seeded \/ (Pristine /\ fga = synced)
  /\ \A h \in Handlers :
       (pc[h] = "Commit" /\ req[h].op = "RevokeLegacy") => local[h].left \cap SeedIds = {}

SerialInv ==
  /\ KeysOK
  /\ \A p \in Procs : Tracked(p)
  /\ Recorded
  /\ "crash" \in Faults => SeedKept

-------------------------------------------------------------------------------
(* One goroutine at a time *)

\* With one handler no two goroutines are busy at the same time.
LEMMA Alone ==
  ASSUME Serial, TypeOK, NEW p \in Procs, NEW q \in Procs, pc[p] # "idle", pc[q] # "idle"
  PROVE  p = q
BY DEF Serial, TypeOK, ProcessesOK, Procs

\* A busy goroutine belongs to a process that has not ended.
LEMMA Running ==
  ASSUME TypeOK, NEW p \in Procs, pc[p] # "idle"
  PROVE  server # "down" /\ (p # Main => server = "serving")
BY DEF TypeOK, ProcessesOK, Procs

\* While a handler has not written to OpenFGA, what OpenFGA holds is recorded.
LEMMA HandlerRecorded ==
  ASSUME Serial, TypeOK, SerialInv, NEW h \in Handlers,
         pc[h] # "idle", pc[h] # "ReplaceSyncedTuples"
  PROVE  fga = synced
BY Alone, HandlerType, Running DEF SerialInv, Recorded

\* A goroutine that has collected nothing yet.
LEMMA BlankTracked ==
  ASSUME NEW p, NEW ids, local'[p] = Blank \/ local'[p] = [Blank EXCEPT !.left = ids],
         pc'[p] \in {"idle", "ListResources", "GetUpserted"}
  PROVE  Tracked(p)'
<1>1. ~local'[p].repeated
  BY DEF Blank
<1> QED BY <1>1 DEF Tracked, Collected

\* The others do nothing, so that there is nothing to track.
LEMMA OthersTracked ==
  ASSUME Serial, TypeOK, SerialInv, NEW p \in Procs, pc[p] # "idle",
         \A q \in Procs \ {p} : pc'[q] = pc[q] /\ local'[q] = local[q],
         Tracked(p)'
  PROVE  \A q \in Procs : Tracked(q)'
<1> SUFFICES ASSUME NEW q \in Procs \ {p} PROVE Tracked(q)'
  OBVIOUS
<1>1. pc'[q] = "idle"
  BY Alone
<1>2. ~local'[q].repeated
  BY DEF SerialInv, Tracked
<1> QED BY <1>1, <1>2 DEF Tracked, Collected

-------------------------------------------------------------------------------
(* Steps that leave the policy alone *)

\* The keys of the tables are not affected by steps that write no row.
LEMMA KeysKept == KeysOK /\ UNCHANGED policyVars => KeysOK'
BY DEF KeysOK, RoleKeys, policyVars

\* OpenFGA's projection of the policy stays what it is while neither is written.
LEMMA ProjectedKept ==
  ASSUME Projected, UNCHANGED <<policyVars, fga>>
  PROVE  Projected'
<1>1. policy' = policy
  BY DEF policy, policyVars
<1> QED BY <1>1 DEF Projected

\* A running goroutine finds the seed in the tables.
LEMMA SeedThere ==
  ASSUME TypeOK, SeedKept, NEW p \in Procs, pc[p] # "idle"
  PROVE  Seeded
BY Running DEF SeedKept, Pristine

\* A step that writes no row deletes no seeded one.
LEMMA SeedKeptByStep ==
  ASSUME Serial, TypeOK, SeedKept, NEW p \in Procs, pc[p] # "idle",
         \A q \in Procs \ {p} : pc'[q] = pc[q],
         (pc'[p] = "Commit" /\ req'[p].op = "RevokeLegacy") => local'[p].left \cap SeedIds = {},
         UNCHANGED policyVars
  PROVE  SeedKept'
<1>1. Seeded'
  BY SeedThere DEF Seeded, policyVars
<1>2. ASSUME NEW h \in Handlers, pc'[h] = "Commit" PROVE h = p
  BY <1>2, Alone, HandlerType
<1>3. \A h \in Handlers :
        (pc'[h] = "Commit" /\ req'[h].op = "RevokeLegacy") => local'[h].left \cap SeedIds = {}
  BY <1>2
<1> QED BY <1>1, <1>3 DEF SeedKept, policyVars

\* A step that goes on, neither from the write to OpenFGA nor to it.
LEMMA GotoSerial ==
  ASSUME Serial, TypeOK, SerialInv, NEW p \in Procs,
         pc[p] # "idle", pc[p] # "ReplaceSyncedTuples",
         NEW stage, NEW vals, Goto(p, stage, vals), UNCHANGED stores,
         ("crash" \in Faults /\ stage = "Commit" /\ req[p].op = "RevokeLegacy") =>
           vals.left \cap SeedIds = {},
         Tracked(p)'
  PROVE  SerialInv'
<1>1. KeysOK'
  BY KeysKept DEF SerialInv, stores
<1>2. \A q \in Procs : Tracked(q)'
  BY OthersTracked, GotoOthers
<1>3. Recorded'
  <2>1. CASE fga = synced
    BY <2>1 DEF stores, Recorded
  <2>2. CASE Projected /\ "crash" \in Faults /\ server # "serving"
    BY <2>2, ProjectedKept, GotoOthers DEF stores, Recorded
  <2> QED BY <2>1, <2>2, Alone DEF SerialInv, Recorded
<1>4. "crash" \in Faults => SeedKept'
  BY SeedKeptByStep, GotoOthers DEF SerialInv, stores
<1> QED BY <1>1, <1>2, <1>3, <1>4 DEF SerialInv

\* A call that fails anywhere but between the write and the record changes no store.
LEMMA FailSerial ==
  ASSUME Serial, TypeOK, SerialInv, NEW p \in Procs,
         pc[p] # "idle", pc[p] # "ReplaceSyncedTuples", Fail(p)
  PROVE  SerialInv'
<1>0. /\ \A q \in Procs \ {p} : pc'[q] = pc[q] /\ local'[q] = local[q]
      /\ pc'[p] = "idle" /\ local'[p] = Blank
      /\ server' = IF p = Main THEN "down" ELSE server
      /\ UNCHANGED stores
  BY ReturnOthers DEF Fail
<1>1. KeysOK'
  BY <1>0, KeysKept DEF SerialInv, stores
<1>2. \A q \in Procs : Tracked(q)'
  BY <1>0, OthersTracked, BlankTracked
<1>3. Recorded'
  <2>1. CASE fga = synced
    BY <1>0, <2>1 DEF stores, Recorded
  <2>2. CASE Projected /\ "crash" \in Faults /\ server # "serving"
    BY <1>0, <2>2, ProjectedKept DEF stores, Recorded
  <2> QED BY <2>1, <2>2, Alone DEF SerialInv, Recorded
<1>4. "crash" \in Faults => SeedKept'
  BY <1>0, SeedKeptByStep DEF SerialInv, stores
<1> QED BY <1>1, <1>2, <1>3, <1>4 DEF SerialInv

-------------------------------------------------------------------------------
(* The process *)

\* A restart finds the seeded rows there, so that seeding again changes nothing.
LEMMA StartSerial ==
  ASSUME Serial, TypeOK, SerialInv, Start
  PROVE  SerialInv'
<1> USE DEF Start, Seed
<1>0. \A p \in Procs : pc[p] = "idle"
  BY Running
<1>1. KeysOK'
  <2>1. \A r, s \in roles' : r.id = s.id => r = s
    BY SeedKeysAssumption DEF SerialInv, KeysOK, RoleKeys, RowsWithId
  <2>2. \A b \in bindings' : Distinct(b.resources)
    BY DEF SerialInv, KeysOK, RoleKeys, Serial
  <2> QED BY <2>1, <2>2 DEF KeysOK, RoleKeys
<1>2. ASSUME NEW p \in Procs PROVE Tracked(p)'
  <2>1. pc'[p] \in {"idle", "ListResources"}
    BY <1>0 DEF TypeOK, ProcessesOK
  <2>2. ~local'[p].repeated
    BY DEF SerialInv, Tracked
  <2> QED BY <2>1, <2>2 DEF Tracked, Collected
<1>3. CASE fga = synced
  <2>1. Recorded'
    BY <1>3 DEF Recorded
  <2>2. ASSUME SeedKept PROVE SeedKept'
    <3>1. CASE Pristine
      BY <1>0, <2>2, <3>1, ProcessAssumption
         DEF Pristine, SeedKept, Seeded, RowsWithId, SeedIds, TypeOK, ProcessesOK, Procs
    <3>2. CASE Seeded
      BY <1>0, <2>2, <3>2, ProcessAssumption
         DEF SeedKept, Seeded, RowsWithId, SeedIds, TypeOK, ProcessesOK, Procs
    <3> QED BY <2>2, <3>1, <3>2 DEF SeedKept
  <2> QED BY <1>1, <1>2, <2>1, <2>2 DEF SerialInv
<1>4. CASE fga # synced
  <2>1. Projected /\ "crash" \in Faults /\ SeedKept
    BY <1>0, <1>4 DEF SerialInv, Recorded
  <2>2. Seeded
    BY <1>4, <2>1 DEF SeedKept
  <2>3. UNCHANGED <<roles, bindings, resources, members, fga>>
    BY <2>2 DEF Seeded
  <2>4. Projected'
    <3>1. policy' = policy
      BY <2>3 DEF policy
    <3> QED BY <2>1, <2>3, <3>1 DEF Projected
  <2>5. Recorded'
    BY <2>1, <2>4 DEF Recorded
  <2>6. SeedKept'
    BY <1>0, <2>1, <2>2, <2>3, ProcessAssumption
       DEF SeedKept, Seeded, TypeOK, ProcessesOK, Procs
  <2> QED BY <1>1, <1>2, <2>5, <2>6 DEF SerialInv
<1> QED BY <1>3, <1>4

\* After a crash OpenFGA holds what was recorded, or what it was just written: the policy's
\* projection.
LEMMA CrashSerial ==
  ASSUME Serial, TypeOK, SerialInv, Crash
  PROVE  SerialInv'
<1>0. /\ server # "down" /\ server' = "down" /\ "crash" \in Faults /\ UNCHANGED stores
      /\ \A p \in Procs : pc'[p] = "idle" /\ local'[p] = Blank
  BY DEF Crash
<1>1. KeysOK'
  BY <1>0, KeysKept DEF SerialInv, stores
<1>2. ASSUME NEW p \in Procs PROVE Tracked(p)'
  BY <1>0, BlankTracked
<1>3. Recorded'
  BY <1>0, ProjectedKept DEF SerialInv, Recorded, stores
<1>4. SeedKept'
  <2>1. Seeded'
    BY <1>0 DEF SerialInv, SeedKept, Pristine, Seeded, stores, policyVars
  <2> QED BY <1>0, <2>1, HandlerType DEF SerialInv, SeedKept, stores, policyVars
<1> QED BY <1>1, <1>2, <1>3, <1>4 DEF SerialInv

\* A request begins when the last Sync has been recorded.
LEMMA ReceiveSerial ==
  ASSUME Serial, TypeOK, SerialInv, NEW h \in Handlers, Receive(h)
  PROVE  SerialInv'
<1>0. /\ server = "serving" /\ pc[h] = "idle" /\ pc'[h] \in {"Validate", "Authorize"}
      /\ \A p \in Procs \ {h} : pc'[p] = pc[p] /\ req'[p] = req[p]
      /\ UNCHANGED <<stores, server, local>>
  <2>1. PICK r \in Requests : req' = [req EXCEPT ![h] = r] /\ pc' = [pc EXCEPT ![h] = FirstCall(r)]
    BY DEF Receive
  <2>2. FirstCall(r) \in {"Validate", "Authorize"}
    BY DEF FirstCall
  <2> QED BY <2>1, <2>2, HandlerType DEF Receive, TypeOK, ProcessesOK
<1>1. KeysOK'
  BY <1>0, KeysKept DEF SerialInv, stores
<1>2. ASSUME NEW p \in Procs PROVE Tracked(p)'
  <2>1. CASE p = h
    BY <1>0, <2>1 DEF SerialInv, Tracked, Collected
  <2>2. CASE p # h
    <3>1. UNCHANGED <<policy, synced, fga>> /\ Base' = Base
      BY <1>0 DEF policy, Base, stores, policyVars
    <3>2. pc'[p] = pc[p] /\ local'[p] = local[p] /\ Done(p)' = Done(p)
      BY <1>0, <2>2 DEF Done, stores, policyVars
    <3>3. Compiled(p) => Compiled(p)'
      BY <1>0, <3>1, <3>2 DEF Compiled, stores, policyVars
    <3>4. Projected => Projected'
      BY <3>1 DEF Projected
    <3> QED BY <1>0, <3>1, <3>2, <3>3, <3>4 DEF SerialInv, Tracked, Collected, stores, policyVars
  <2> QED BY <2>1, <2>2
<1>3. Recorded'
  BY <1>0, ProjectedKept DEF SerialInv, Recorded, stores
<1>4. ASSUME SeedKept PROVE SeedKept'
  <2>1. Seeded'
    BY <1>0, <1>4 DEF SeedKept, Pristine, Seeded, stores, policyVars
  <2> QED BY <1>0, <1>4, <2>1, HandlerType DEF SeedKept, stores, policyVars
<1> QED BY <1>1, <1>2, <1>3, <1>4 DEF SerialInv

-------------------------------------------------------------------------------
(* The steps of a handler before Sync *)

\* The binding that a revoke may delete is on a model, and none of the seed is.
LEMMA RevokedSpared ==
  ASSUME SeedKept, NEW r
  PROVE  {b.id : b \in RevokedBindings(r)} \cap SeedIds = {}
<1> SUFFICES ASSUME NEW b \in RevokedBindings(r), b.id \in SeedIds PROVE FALSE
  OBVIOUS
<1>1. b \in bindings /\ b.compatibility /\ b.scope = <<"model", r.model>>
  BY DEF RevokedBindings, CompatibilityBindings
<1>2. b \in SeedBindings
  BY <1>1 DEF SeedKept
<1> QED BY <1>1, <1>2, SeedCompatibilityAssumption DEF ControllerRef

\* The checks a handler makes before it writes leave all as it is.
LEMMA CheckSerial ==
  ASSUME Serial, TypeOK, SerialInv, NEW h \in Handlers,
         \/ Authorize(h) \/ Check(h) \/ Validate(h)
         \/ PreviewRole(h) \/ PreviewBindings(h) \/ GetUpserted(h)
  PROVE  SerialInv'
<1> USE HandlerType
<1>0. pc[h] # "idle" /\ pc[h] # "ReplaceSyncedTuples"
  BY DEF Authorize, Check, Validate, PreviewRole, PreviewBindings, GetUpserted
<1>1. CASE Fail(h)
  BY <1>0, <1>1, FailSerial
<1>2. ASSUME NEW stage \in {"Check", "Validate", "Preview", "PreviewBindings", "Commit",
                           "Authorize", "ListResources"},
             NEW vals, ~vals.repeated, Goto(h, stage, vals), UNCHANGED stores,
             ("crash" \in Faults /\ stage = "Commit" /\ req[h].op = "RevokeLegacy") =>
               vals.left \cap SeedIds = {}
      PROVE  SerialInv'
  <2>1. Tracked(h)'
    BY <1>2, GotoOthers DEF Tracked, Collected
  <2> QED BY <1>0, <1>2, <2>1, GotoSerial
<1>3. ~Blank.repeated /\ Blank.left = {}
  BY DEF Blank
<1>4. CASE Authorize(h) /\ ~Fail(h)
  <2>1. ~[Blank EXCEPT !.on = NeedsOn(req[h])].repeated
    BY DEF Blank
  <2> QED BY <1>2, <1>4, <2>1 DEF Authorize
<1>5. CASE Check(h) /\ ~Fail(h)
  <2>1. AfterCheck(req[h]) \in {"Preview", "Validate", "Commit"}
    BY DEF AfterCheck
  <2> QED BY <1>2, <1>3, <1>5, <2>1 DEF Check
<1>6. CASE Validate(h) /\ ~Fail(h)
  <2> DEFINE revoked == IF req[h].op = "RevokeLegacy"
                        THEN {b.id : b \in RevokedBindings(req[h])} ELSE {}
             vals == [Blank EXCEPT !.left = revoked]
  <2>1. ~vals.repeated /\ vals.left = revoked
    BY DEF Blank
  <2>2. AfterValidate(req[h]) \in {"Authorize", "Commit"}
    BY DEF AfterValidate
  <2>3. "crash" \in Faults => revoked \cap SeedIds = {}
    BY RevokedSpared DEF SerialInv
  <2>4. Goto(h, AfterValidate(req[h]), vals) /\ UNCHANGED stores
    BY <1>6 DEF Validate
  <2> HIDE DEF vals, revoked
  <2> QED BY <1>2, <2>1, <2>2, <2>3, <2>4
<1>7. CASE PreviewRole(h) /\ ~Fail(h)
  <2>1. ~[Blank EXCEPT !.left = {b.id : b \in bindings}].repeated
    BY DEF Blank
  <2> QED BY <1>2, <1>7, <2>1 DEF PreviewRole
<1>8. CASE PreviewBindings(h) /\ ~Fail(h)
  BY <1>2, <1>3, <1>8 DEF PreviewBindings
<1>9. CASE GetUpserted(h) /\ ~Fail(h)
  BY <1>2, <1>3, <1>9 DEF GetUpserted, Synchronize
<1> QED BY <1>1, <1>4, <1>5, <1>6, <1>7, <1>8, <1>9

\* What is left to show of a write to the policy.
LEMMA CommitSerial ==
  ASSUME Serial, TypeOK, SerialInv, NEW h \in Handlers, pc[h] = "Commit",
         \/ Synchronize(h)
         \/ Respond(h)
         \/ \E id : Goto(h, "GetUpserted", [Blank EXCEPT !.left = {id}]),
         UNCHANGED <<synced, fga>>, KeysOK', issued \subseteq issued',
         \A b \in bindings' : "crash" \in Faults => (b.id \in SeedIds => b \in SeedBindings),
         "crash" \in Faults => (Seeded => Seeded')
  PROVE  SerialInv'
<1> USE HandlerType
<1>1. /\ \A q \in Procs \ {h} : pc'[q] = pc[q] /\ local'[q] = local[q]
      /\ pc'[h] \in {"idle", "ListResources", "GetUpserted"}
      /\ \E id : local'[h] = Blank \/ local'[h] = [Blank EXCEPT !.left = {id}]
  BY GotoOthers, ReturnOthers DEF Synchronize, Respond
<1>2. \A q \in Procs : Tracked(q)'
  BY <1>1, OthersTracked, BlankTracked
<1>3. Recorded'
  BY HandlerRecorded DEF Recorded
<1>4. ASSUME "crash" \in Faults PROVE SeedKept'
  <2>1. Seeded'
    BY <1>4, SeedThere DEF SerialInv
  <2>2. \A g \in Handlers : pc'[g] # "Commit"
    BY <1>1, Alone
  <2> QED BY <1>4, <2>1, <2>2 DEF SerialInv, SeedKept
<1> QED BY <1>2, <1>3, <1>4 DEF SerialInv

\* The upsert of a compatibility binding is on a model, where the seed has none.
LEMMA UpsertSerial ==
  ASSUME Serial, TypeOK, SerialInv, NEW h \in Handlers, pc[h] = "Commit",
         NEW user, NEW role, NEW model, Upsert(h, user, role, model)
  PROVE  SerialInv'
<1>0. Distinct(<<>>) /\ <<"model", model>> # ControllerRef
  BY DEF Distinct, ControllerRef
<1>1. CASE \E b \in CompatibilityBindings(bindings, user, model) :
          /\ bindings' = (bindings \ {b}) \cup {[b EXCEPT !.role = role]}
          /\ issued' = issued
          /\ Goto(h, "GetUpserted", [Blank EXCEPT !.left = {b.id}])
  <2> PICK b \in CompatibilityBindings(bindings, user, model) :
          /\ bindings' = (bindings \ {b}) \cup {[b EXCEPT !.role = role]}
          /\ issued' = issued
          /\ Goto(h, "GetUpserted", [Blank EXCEPT !.left = {b.id}])
    BY <1>1
  <2> DEFINE new == [b EXCEPT !.role = role]
  <2>1. b \in bindings /\ b \in Binding /\ b.compatibility /\ b.scope = <<"model", model>>
    BY DEF CompatibilityBindings, TypeOK, StoresOK
  <2>2. new.id = b.id /\ new.resources = b.resources
    BY <2>1 DEF Binding
  <2>3. b \notin SeedBindings
    BY <1>0, <2>1, SeedCompatibilityAssumption
  <2> HIDE DEF new
  <2>4. /\ bindings' = (bindings \ {b}) \cup {new}
        /\ UNCHANGED <<issued, roles, resources, synced, fga>>
    BY DEF new, Upsert
  <2>5. KeysOK'
    BY <2>1, <2>2, <2>4 DEF SerialInv, KeysOK, RoleKeys
  <2>6. Seeded => Seeded'
    BY <2>3, <2>4 DEF Seeded
  <2>7. \A c \in bindings' : "crash" \in Faults => (c.id \in SeedIds => c \in SeedBindings)
    BY <2>1, <2>2, <2>3, <2>4 DEF SerialInv, SeedKept
  <2> QED BY <2>4, <2>5, <2>6, <2>7, CommitSerial
<1>2. CASE \E id \in BindingId \ issued :
             /\ bindings' = bindings \cup
                  {[id |-> id, subject |-> <<"user", user>>, role |-> role,
                    scope |-> <<"model", model>>, match |-> "scope", resources |-> <<>>,
                    compatibility |-> TRUE]}
             /\ issued' = issued \cup {id}
             /\ Goto(h, "GetUpserted", [Blank EXCEPT !.left = {id}])
  <2> DEFINE new(id) == [id |-> id, subject |-> <<"user", user>>, role |-> role,
                         scope |-> <<"model", model>>, match |-> "scope", resources |-> <<>>,
                         compatibility |-> TRUE]
  <2>1. PICK id \in BindingId \ issued :
             /\ bindings' = bindings \cup {new(id)}
             /\ issued' = issued \cup {id}
             /\ Goto(h, "GetUpserted", [Blank EXCEPT !.left = {id}])
    BY <1>2
  <2>2. new(id).id = id /\ new(id).resources = <<>>
    OBVIOUS
  <2> HIDE DEF new
  <2>3. UNCHANGED <<roles, resources, synced, fga>>
    BY DEF Upsert
  <2>4. KeysOK'
    BY <1>0, <2>1, <2>2, <2>3 DEF SerialInv, KeysOK, RoleKeys
  <2>5. Seeded => Seeded'
    BY <2>1, <2>3 DEF Seeded
  <2>6. \A c \in bindings' : "crash" \in Faults => (c.id \in SeedIds => c \in SeedBindings)
    BY <2>1, <2>2 DEF SerialInv, SeedKept
  <2> QED BY <2>1, <2>3, <2>4, <2>5, <2>6, CommitSerial
<1> QED BY <1>1, <1>2 DEF Upsert

\* The delete of a binding that is not of the seed.
LEMMA RemoveSerial ==
  ASSUME Serial, TypeOK, SerialInv, NEW h \in Handlers, pc[h] = "Commit",
         NEW ids, "crash" \in Faults => ids \cap SeedIds = {}, RemoveBinding(h, ids)
  PROVE  SerialInv'
<1>1. CASE Fail(h)
  BY <1>1, FailSerial, HandlerType
<1>2. CASE ~Fail(h)
  <2>1. /\ bindings' = {b \in bindings : b.id \notin ids}
        /\ Synchronize(h)
        /\ UNCHANGED <<users, groups, members, roles, resources, issued, synced, fga>>
    BY <1>2 DEF RemoveBinding
  <2>2. KeysOK'
    BY <2>1 DEF SerialInv, KeysOK, RoleKeys
  <2>3. "crash" \in Faults => (Seeded => Seeded')
    BY <2>1 DEF Seeded, SeedIds
  <2>4. \A c \in bindings' : "crash" \in Faults => (c.id \in SeedIds => c \in SeedBindings)
    BY <2>1 DEF SerialInv, SeedKept
  <2> QED BY <2>1, <2>2, <2>3, <2>4, CommitSerial
<1> QED BY <1>1, <1>2

\* Every write of a handler is made while what OpenFGA holds is recorded.
LEMMA CommitsSerial ==
  ASSUME Serial, TypeOK, SerialInv, NEW h \in Handlers,
         \/ CreateUser(h) \/ CreateGroup(h) \/ CreateRole(h)
         \/ AddGroupMember(h) \/ RemoveGroupMember(h) \/ UpdateRole(h)
         \/ CreateBinding(h) \/ DeleteBinding(h) \/ GrantLegacy(h) \/ RevokeLegacy(h)
         \/ CreateResource(h) \/ DeleteResource(h)
  PROVE  SerialInv'
<1> USE HandlerType
<1> DEFINE r == req[h]
<1>0. pc[h] = "Commit" /\ r \in Requests
  BY DEF TypeOK, ProcessesOK, Committing, CreateUser, CreateGroup, CreateRole, AddGroupMember,
         RemoveGroupMember, UpdateRole, CreateBinding, DeleteBinding, GrantLegacy, RevokeLegacy,
         CreateResource, DeleteResource
<1> USE <1>0
<1>1. CASE Fail(h)
  BY <1>1, FailSerial
<1>2. ASSUME Synchronize(h) \/ Respond(h), UNCHANGED <<synced, fga, bindings, roles>>,
             issued \subseteq issued',
             "crash" \in Faults => (SeedResources \subseteq resources => SeedResources \subseteq resources')
      PROVE  SerialInv'
  <2>1. KeysOK'
    BY <1>2 DEF SerialInv, KeysOK, RoleKeys
  <2>2. "crash" \in Faults => (Seeded => Seeded')
    BY <1>2 DEF Seeded
  <2>3. \A c \in bindings' : "crash" \in Faults => (c.id \in SeedIds => c \in SeedBindings)
    BY <1>2 DEF SerialInv, SeedKept
  <2> QED BY <1>2, <2>1, <2>2, <2>3, CommitSerial
<1>3. CASE (CreateUser(h) \/ CreateGroup(h) \/ AddGroupMember(h) \/ RemoveGroupMember(h))
             /\ ~Fail(h)
  BY <1>2, <1>3 DEF CreateUser, CreateGroup, AddGroupMember, RemoveGroupMember
<1>4. CASE CreateResource(h) /\ ~Fail(h)
  BY <1>2, <1>4 DEF CreateResource
<1>5. CASE DeleteResource(h) /\ ~Fail(h)
  <2>1. "crash" \in Faults => \A row \in SeedResources : row.ref # r.resource
    BY <1>5 DEF DeleteResource, Committing, Serial, SparesSeed
  <2> QED BY <1>2, <1>5, <2>1 DEF DeleteResource
<1>6. ASSUME Synchronize(h) \/ Respond(h), UNCHANGED <<synced, fga, bindings, resources, issued>>,
             \A s, t \in roles' : s.id = t.id => s = t,
             \A s \in roles : \E t \in roles' : t.id = s.id
      PROVE  SerialInv'
  <2>1. KeysOK'
    BY <1>6 DEF SerialInv, KeysOK, RoleKeys
  <2>2. Seeded => Seeded'
    BY <1>6 DEF Seeded, RowsWithId
  <2>3. \A c \in bindings' : "crash" \in Faults => (c.id \in SeedIds => c \in SeedBindings)
    BY <1>6 DEF SerialInv, SeedKept
  <2> QED BY <1>6, <2>1, <2>2, <2>3, CommitSerial
<1>7. CASE CreateRole(h) /\ ~Fail(h)
  <2> DEFINE new == [id |-> r.role, builtIn |-> FALSE, revision |-> 1,
                     permissions |-> r.permissions]
  <2>1. roles' = roles \cup {new} /\ RowsWithId(roles, r.role) = {} /\ new.id = r.role
    BY <1>7 DEF CreateRole
  <2> HIDE DEF new
  <2>2. \A s, t \in roles' : s.id = t.id => s = t
    BY <2>1 DEF SerialInv, KeysOK, RoleKeys, RowsWithId
  <2> QED BY <1>6, <1>7, <2>1, <2>2 DEF CreateRole
<1>8. CASE UpdateRole(h) /\ ~Fail(h)
  <2> DEFINE Updated(role) == [role EXCEPT !.revision = @ + 1, !.permissions = r.permissions]
  <2>1. \A role \in roles : Updated(role).id = role.id
    BY DEF TypeOK, StoresOK, Role
  <2>2. roles' = {IF role.id # r.role THEN role ELSE Updated(role) : role \in roles}
    BY <1>8 DEF UpdateRole
  <2> HIDE DEF Updated
  <2>3. \A s, t \in roles' : s.id = t.id => s = t
    BY <2>1, <2>2 DEF SerialInv, KeysOK, RoleKeys
  <2>4. \A s \in roles : \E t \in roles' : t.id = s.id
    BY <2>1, <2>2
  <2> QED BY <1>6, <1>8, <2>3, <2>4 DEF UpdateRole
<1>9. CASE CreateBinding(h) /\ ~Fail(h)
  <2> DEFINE new(id) == [id |-> id, subject |-> r.subject, role |-> r.role, scope |-> r.scope,
                         match |-> r.match, resources |-> r.resources, compatibility |-> FALSE]
  <2>1. PICK id \in BindingId \ issued :
          /\ bindings' = bindings \cup {new(id)}
          /\ issued' = issued \cup {id}
          /\ Synchronize(h)
          /\ UNCHANGED <<users, groups, members, roles, resources, synced, fga>>
    BY <1>9 DEF CreateBinding
  <2>2. new(id).id = id /\ new(id).resources = r.resources
    OBVIOUS
  <2> HIDE DEF new
  <2>3. Distinct(r.resources)
    BY <1>9 DEF CreateBinding, Committing, Serial
  <2>4. KeysOK'
    BY <2>1, <2>2, <2>3 DEF SerialInv, KeysOK, RoleKeys
  <2>5. Seeded => Seeded'
    BY <2>1 DEF Seeded
  <2>6. \A c \in bindings' : "crash" \in Faults => (c.id \in SeedIds => c \in SeedBindings)
    BY <2>1, <2>2 DEF SerialInv, SeedKept
  <2> QED BY <2>1, <2>4, <2>5, <2>6, CommitSerial
<1>10. CASE DeleteBinding(h)
  <2>1. "crash" \in Faults => {r.binding} \cap SeedIds = {}
    BY <1>10 DEF DeleteBinding, Committing, Serial, SparesSeed
  <2> QED BY <1>10, <2>1, RemoveSerial DEF DeleteBinding
<1>11. CASE GrantLegacy(h)
  BY <1>11, UpsertSerial DEF GrantLegacy
<1>12. CASE RevokeLegacy(h)
  <2>1. "crash" \in Faults => local[h].left \cap SeedIds = {}
    BY <1>12 DEF RevokeLegacy, Committing, SerialInv, SeedKept
  <2> QED BY <1>12, <2>1, UpsertSerial, RemoveSerial DEF RevokeLegacy
<1> QED BY <1>1, <1>3, <1>4, <1>5, <1>7, <1>8, <1>9, <1>10, <1>11, <1>12

-------------------------------------------------------------------------------
(* Sync *)

\* Writing the difference turns what was recorded into what is desired, and
\* does nothing where the write has been made already.
LEMMA Difference ==
  ASSUME NEW current, NEW desired, NEW tuples, tuples = current \/ tuples = desired
  PROVE  Applied(tuples, desired \ current, current \ desired) = desired
BY DEF Applied

\* PermissionTuples lists a tuple twice only for a resource named twice.
LEMMA DistinctRepeatsNothing ==
  ASSUME NEW b \in Binding, Distinct(b.resources), NEW permissions
  PROVE  ~Repeats(b, permissions)
<1>1. DOMAIN b.resources \subseteq Nat
  BY DEF Binding
<1> QED BY <1>1 DEF Distinct, Repeats

\* The loop over the bindings lists no tuple twice: each role row is the one with its id.
LEMMA CompileRepeatsNothing ==
  ASSUME TypeOK, KeysOK, NEW p \in Procs, Tracked(p), CompileBinding(p), ~Fail(p)
  PROVE  ~local'[p].repeated
<1>1. PICK b \in local[p].rows : \E role \in RowsWithId(roles, b.role) :
          /\ Goto(p, "Bindings",
                  [local[p] EXCEPT !.rows = @ \ {b},
                                   !.desired = @ \cup BindingTuples(b, role),
                                   !.repeated = @ \/ Repeats(b, role.permissions)])
          /\ pc[p] = "Bindings"
  BY DEF CompileBinding
<1>2. PICK role \in RowsWithId(roles, b.role) :
          Goto(p, "Bindings",
               [local[p] EXCEPT !.rows = @ \ {b},
                                !.desired = @ \cup BindingTuples(b, role),
                                !.repeated = @ \/ Repeats(b, role.permissions)])
  BY <1>1
<1>3. b \in bindings /\ b \in Binding
  BY <1>1 DEF Tracked, Collected, Compiled, TypeOK, StoresOK
<1>4. ~Repeats(b, role.permissions)
  BY <1>3, DistinctRepeatsNothing DEF KeysOK, RoleKeys
<1> DEFINE vals == [local[p] EXCEPT !.rows = @ \ {b},
                                    !.desired = @ \cup BindingTuples(b, role),
                                    !.repeated = @ \/ Repeats(b, role.permissions)]
<1>5. ~vals.repeated
  BY <1>4 DEF Tracked, TypeOK, ProcessesOK, Locals
<1>6. local'[p] = vals
  BY <1>2, GotoOthers
<1> QED BY <1>5, <1>6

\* Engine.Write moves OpenFGA to the projection of the policy, which has one.
LEMMA WriteSerial ==
  ASSUME Serial, TypeOK, SerialInv, NEW p \in Procs, Write(p), ~Fail(p)
  PROVE  SerialInv' /\ Sound(policy) /\ fga' = Project(policy) /\ UNCHANGED policyVars
<1>0. /\ pc[p] = "Write"
      /\ Sound(policy) /\ local[p].desired = Project(policy) /\ local[p].current = synced
  BY DEF Write, SerialInv, Tracked, Collected
<1>1. /\ fga' = Applied(fga, local[p].desired \ local[p].current,
                        local[p].current \ local[p].desired)
      /\ Goto(p, "ReplaceSyncedTuples", local[p])
      /\ UNCHANGED <<policyVars, synced>>
  BY DEF Write
<1>2. fga = synced \/ fga = Project(policy)
  BY DEF SerialInv, Recorded, Projected
<1>3. fga' = Project(policy)
  <2>1. fga' = Applied(fga, Project(policy) \ synced, synced \ Project(policy))
    BY <1>0, <1>1
  <2> QED BY <1>2, <2>1, Difference
<1>4. Projected'
  <2>1. policy' = policy
    BY <1>1 DEF policy, policyVars
  <2> QED BY <1>0, <1>3, <2>1 DEF Projected
<1>5. pc'[p] = "ReplaceSyncedTuples" /\ local'[p] = local[p]
      /\ \A q \in Procs \ {p} : pc'[q] = pc[q] /\ local'[q] = local[q]
  BY <1>1, GotoOthers
<1>6. Tracked(p)'
  BY <1>0, <1>3, <1>4, <1>5 DEF SerialInv, Tracked, Collected, Projected
<1>7. \A q \in Procs : Tracked(q)'
  BY <1>0, <1>5, <1>6, OthersTracked
<1>8. Recorded'
  BY <1>4, <1>5 DEF Recorded
<1>9. KeysOK'
  BY <1>1, KeysKept DEF SerialInv
<1>10. "crash" \in Faults => SeedKept'
  BY <1>0, <1>1, <1>5, SeedKeptByStep DEF SerialInv
<1> QED BY <1>0, <1>1, <1>3, <1>7, <1>8, <1>9, <1>10 DEF SerialInv

\* ReplaceSyncedTuples records what OpenFGA holds, the projection of the policy.
LEMMA ReplaceSerial ==
  ASSUME Serial, TypeOK, SerialInv, NEW p \in Procs, ReplaceSyncedTuples(p)
  PROVE  SerialInv' /\ UNCHANGED <<policyVars, fga>> /\ Projected'
<1>0. /\ pc[p] = "ReplaceSyncedTuples" /\ ~local[p].repeated
      /\ Projected /\ local[p].desired = fga
  BY DEF ReplaceSyncedTuples, SerialInv, Tracked, Collected, Projected
<1>1. /\ synced' = fga
      /\ Return(p, IF p = Main THEN "serving" ELSE server)
      /\ UNCHANGED <<policyVars, fga>>
  BY <1>0 DEF ReplaceSyncedTuples
<1>2. /\ pc'[p] = "idle" /\ local'[p] = Blank
      /\ \A q \in Procs \ {p} : pc'[q] = pc[q] /\ local'[q] = local[q]
  BY <1>1, ReturnOthers
<1>3. \A q \in Procs : Tracked(q)'
  BY <1>0, <1>2, OthersTracked, BlankTracked
<1>4. Recorded'
  BY <1>1 DEF Recorded
<1>5. KeysOK'
  BY <1>1, KeysKept DEF SerialInv
<1>6. "crash" \in Faults => SeedKept'
  BY <1>0, <1>1, <1>2, SeedKeptByStep DEF SerialInv
<1> QED BY <1>0, <1>1, <1>3, <1>4, <1>5, <1>6, ProjectedKept DEF SerialInv

\* Every call of Sync.
LEMMA SyncSerial ==
  ASSUME Serial, TypeOK, SerialInv, NEW p \in Procs, Sync(p)
  PROVE  SerialInv'
<1>0. local[p] \in Locals /\ Tracked(p) /\ KeysOK /\ RoleKeys
  BY DEF TypeOK, ProcessesOK, SerialInv, KeysOK, RoleKeys
<1>1. Collected(p)'
  BY <1>0, SyncCollects DEF Tracked
<1>2. CASE Fail(p) /\ ~ReplaceSyncedTuples(p)
  <2>1. pc[p] # "idle" /\ pc[p] # "ReplaceSyncedTuples"
    BY <1>2 DEF Sync, ListResources, GetResources, ListMemberships, ListBindings, GetBinding,
                CompileBinding, ListSyncedTuples, Write
  <2> QED BY <1>2, <2>1, FailSerial
<1>3. ASSUME NEW stage \in {"GetResources", "ListMemberships", "ListBindings", "Bindings"},
             NEW vals, ~vals.repeated, Goto(p, stage, vals), UNCHANGED stores,
             pc[p] # "idle", pc[p] # "ReplaceSyncedTuples"
      PROVE  SerialInv'
  <2>1. Tracked(p)'
    BY <1>1, <1>3, GotoOthers DEF Tracked
  <2> QED BY <1>3, <2>1, GotoSerial
<1>4. CASE ListResources(p)
  <2>1. ~[Blank EXCEPT !.rows = resources].repeated
    BY DEF Blank
  <2> QED BY <1>3, <1>4, <2>1 DEF ListResources
<1>5. CASE GetResources(p) /\ ~Fail(p)
  <2>1. ~[Blank EXCEPT !.desired = ParentTuples(local[p].rows)].repeated
    BY DEF Blank
  <2> QED BY <1>3, <1>5, <2>1 DEF GetResources
<1>6. CASE ListMemberships(p)
  <2>1. ~[local[p] EXCEPT !.desired = @ \cup MembershipTuples(members)].repeated
    BY <1>0 DEF Tracked, Locals
  <2> QED BY <1>3, <1>6, <2>1 DEF ListMemberships
<1>7. CASE ListBindings(p)
  <2>1. ~[local[p] EXCEPT !.left = {b.id : b \in bindings}].repeated
    BY <1>0 DEF Tracked, Locals
  <2> QED BY <1>3, <1>7, <2>1 DEF ListBindings
<1>8. CASE GetBinding(p) /\ ~Fail(p)
  <2>1. PICK id \in local[p].left :
          /\ Goto(p, "Bindings", [local[p] EXCEPT !.left = @ \ {id},
                                                 !.rows = @ \cup RowsWithId(bindings, id)])
          /\ UNCHANGED stores /\ pc[p] = "Bindings"
    BY <1>8 DEF GetBinding
  <2>2. ~[local[p] EXCEPT !.left = @ \ {id},
                          !.rows = @ \cup RowsWithId(bindings, id)].repeated
    BY <1>0 DEF Tracked, Locals
  <2> QED BY <1>3, <2>1, <2>2
<1>9. CASE CompileBinding(p) /\ ~Fail(p)
  <2>1. PICK vals : Goto(p, "Bindings", vals) /\ UNCHANGED stores /\ pc[p] = "Bindings"
    BY <1>9 DEF CompileBinding
  <2>2. ~vals.repeated
    BY <1>0, <1>9, <2>1, CompileRepeatsNothing, GotoOthers
  <2> QED BY <1>3, <2>1, <2>2
<1>10. CASE ListSyncedTuples(p)
  <2> DEFINE vals == [local[p] EXCEPT !.current = synced]
  <2>1. pc[p] = "Bindings" /\ Goto(p, "Write", vals) /\ UNCHANGED stores
    BY <1>10 DEF ListSyncedTuples
  <2>2. vals.current = synced /\ ~vals.repeated
    BY <1>0 DEF Locals, Tracked
  <2> HIDE DEF vals
  <2>3. Tracked(p)'
    BY <1>1, <2>1, <2>2, GotoOthers DEF Tracked, stores
  <2> QED BY <2>1, <2>3, GotoSerial
<1>11. CASE Write(p) /\ ~Fail(p)
  BY <1>11, WriteSerial
<1>12. CASE ReplaceSyncedTuples(p)
  BY <1>12, ReplaceSerial
<1> QED BY <1>2, <1>4, <1>5, <1>6, <1>7, <1>8, <1>9, <1>10, <1>11, <1>12 DEF Sync

-------------------------------------------------------------------------------
(* The theorems *)

\* A new database and a new OpenFGA store are both empty.
LEMMA SerialInit ==
  ASSUME Serial, Init
  PROVE  SerialInv
<1> USE DEF Init
<1>1. KeysOK
  BY DEF KeysOK, RoleKeys
<1>2. \A p \in Procs : Tracked(p)
  BY DEF Tracked, Collected, Blank
<1>3. Recorded
  BY DEF Recorded
<1>4. SeedKept
  BY HandlerType DEF SeedKept, SeedIds, Pristine
<1> QED BY <1>1, <1>2, <1>3, <1>4 DEF SerialInv

\* Every step of the service, from the lemma about each of its actions.
LEMMA SerialStep ==
  ASSUME Serial, TypeOK, SerialInv, [Next]_vars
  PROVE  SerialInv'
<1>1. CASE Start
  BY <1>1, StartSerial
<1>2. CASE Crash
  BY <1>2, CrashSerial
<1>3. ASSUME NEW h \in Handlers, Receive(h) PROVE SerialInv'
  BY <1>3, ReceiveSerial
<1>4. ASSUME NEW h \in Handlers, Handle(h) PROVE SerialInv'
  BY <1>4, CheckSerial, CommitsSerial DEF Handle
<1>5. ASSUME NEW p \in Procs, Sync(p) PROVE SerialInv'
  BY <1>5, SyncSerial
<1>6. ASSUME NEW p \in Procs, Abort(p) PROVE SerialInv'
  BY <1>6, FailSerial DEF Abort, Serial
<1>7. CASE UNCHANGED vars
  BY <1>7 DEF vars, stores, policyVars, SerialInv, KeysOK, RoleKeys, Tracked, Collected,
              Compiled, Done, Base, Recorded, Projected, policy, SeedKept, Seeded, Pristine
<1> QED BY <1>1, <1>2, <1>3, <1>4, <1>5, <1>6, <1>7 DEF Next

\* At every moment, each Sync has collected the part of the projection of the present
\* policy that its next call says, and OpenFGA holds what was recorded unless a Sync
\* has just written it.
THEOREM SerialInvariant ==
  ASSUME Serial
  PROVE  Spec => []SerialInv
<1>1. Init => SerialInv
  BY SerialInit
<1>2. TypeOK /\ SerialInv /\ [Next]_vars => SerialInv'
  BY SerialStep
<1> QED BY <1>1, <1>2, TypeCorrect, PTL DEF Spec

\* OpenFGA holds what was last recorded as synchronized or the projection of
\* the present policy: a Sync that fails, or that a restart ends, never leaves
\* it with a part of each.
THEOREM SerialExact ==
  ASSUME Serial
  PROVE  Spec => []Exact
<1>1. SerialInv => Exact
  BY DEF SerialInv, Recorded, Exact
<1> QED BY <1>1, SerialInvariant, PTL

\* When Sync succeeds, for a request or for startup, OpenFGA holds the
\* projection of the policy as it is then.
THEOREM SerialSuccess ==
  ASSUME Serial
  PROVE  Spec => SuccessIsEnforced /\ StartupRepairs
<1>1. ASSUME TypeOK, SerialInv, NEW p \in Procs, Succeeds(p) PROVE Projected'
  BY <1>1, ReplaceSerial DEF Succeeds
<1>2. TypeOK /\ SerialInv /\ [Next]_vars =>
        [\A h \in Handlers : Succeeds(h) => Projected']_vars
  BY <1>1, HandlerType
<1>3. TypeOK /\ SerialInv /\ [Next]_vars => [Succeeds(Main) => Projected']_vars
  BY <1>1 DEF Procs
<1> QED BY <1>2, <1>3, SerialInvariant, TypeCorrect, PTL DEF Spec, SuccessIsEnforced, StartupRepairs

\* A step that changes what OpenFGA holds moves it to the projection of the
\* policy, which has one, and leaves the policy alone.
LEMMA StepImplements ==
  ASSUME Serial, TypeOK, SerialInv, [Next]_vars
  PROVE  [P!Decide \/ P!Publish]_<<policy, fga>>
<1>1. CASE fga' = fga
  BY <1>1 DEF P!Decide
<1>2. ASSUME NEW p \in Procs, Write(p), ~Fail(p)
      PROVE  P!Publish
  <2>1. policy' = policy
    BY <1>2, WriteSerial DEF policy, policyVars
  <2> QED BY <1>2, <2>1, WriteSerial DEF P!Publish
<1>3. CASE fga' # fga
  <2> USE <1>3 DEF Fail, stores, policyVars
  <2>1. ~Start /\ ~Crash /\ ~UNCHANGED vars
    BY DEF Start, Seed, Crash, vars
  <2>2. ASSUME NEW h \in Handlers PROVE ~Receive(h)
    BY DEF Receive
  <2>3. ASSUME NEW h \in Handlers PROVE ~Handle(h)
    BY DEF Handle, Authorize, Check, Validate, PreviewRole, PreviewBindings, CreateUser,
           CreateGroup, CreateRole, AddGroupMember, RemoveGroupMember, UpdateRole, CreateBinding,
           DeleteBinding, RemoveBinding, GrantLegacy, RevokeLegacy, Upsert, GetUpserted,
           CreateResource, DeleteResource
  <2>4. ASSUME NEW p \in Procs PROVE ~Abort(p)
    BY DEF Abort
  <2>5. ASSUME NEW p \in Procs, Sync(p) PROVE Write(p) /\ ~Fail(p)
    BY <2>5 DEF Sync, ListResources, GetResources, ListMemberships, ListBindings, GetBinding,
                CompileBinding, ListSyncedTuples, ReplaceSyncedTuples
  <2> QED BY <1>2, <2>1, <2>2, <2>3, <2>4, <2>5 DEF Next
<1> QED BY <1>1, <1>3

\* The service implements Projection: seen from outside, the authority moves
\* in single steps, each to the whole projection of the policy of the moment.
THEOREM SerialImplements ==
  ASSUME Serial
  PROVE  Spec => Implements
<1>1. Init => P!Init
  BY DEF Init, P!Init
<1>2. TypeOK /\ SerialInv /\ [Next]_vars => [P!Decide \/ P!Publish]_<<policy, fga>>
  BY StepImplements
<1> QED BY <1>1, <1>2, SerialInvariant, TypeCorrect, PTL DEF Spec, Implements, P!Spec

-------------------------------------------------------------------------------
(* Without errors: what the tables say is in force at rest.                *)

\* The calls from a handler's write to its answer.
SyncCalls == Unconcerned \ {"idle"}

AtWork == \E h \in Handlers : pc[h] \in SyncCalls

\* The role of every binding is there: roles are never deleted.
RolesFound == \A b \in bindings : \E role \in roles : role.id = b.role

\* What h has listed, or written, is there to be fetched.
RowsThere(h) ==
  /\ pc[h] = "GetUpserted" => \E b \in bindings : b.id \in local[h].left
  /\ pc[h] = "Bindings" => local[h].left \subseteq {b.id : b \in bindings}

\* Between its write and its answer a request may be ahead of OpenFGA.
Settled == (server = "serving" /\ ~AtWork /\ Sound(policy)) => Projected

RestInv ==
  /\ RolesFound
  /\ \A p \in Procs : RowsThere(p)
  /\ Settled

\* What is known of the state besides.
Known ==
  /\ TypeOK /\ SerialInv /\ HandlersInv /\ RolesSeeded
  /\ WellFormed(policy, Id)

\* A Sync fails only for a binding that cannot be projected.
LEMMA SyncSucceeds ==
  ASSUME Serial, Known, NEW p \in Procs, RowsThere(p), Sync(p), Sound(policy)
  PROVE  \/ pc'[p] \in SyncCalls
         \/ ReplaceSyncedTuples(p) /\ Projected'
<1>0. TypeOK /\ SerialInv /\ Tracked(p) /\ Collected(p) /\ pc \in [Procs -> Calls]
  BY DEF Known, SerialInv, Tracked, TypeOK, ProcessesOK
<1>1. ASSUME NEW stage \in SyncCalls, NEW vals, Goto(p, stage, vals) PROVE pc'[p] \in SyncCalls
  BY <1>0, <1>1 DEF Goto
<1>2. /\ "ListResources" \in SyncCalls /\ "GetResources" \in SyncCalls
      /\ "ListMemberships" \in SyncCalls /\ "ListBindings" \in SyncCalls
      /\ "Bindings" \in SyncCalls /\ "Write" \in SyncCalls /\ "ReplaceSyncedTuples" \in SyncCalls
  BY DEF SyncCalls, Unconcerned
<1>3. CASE ListResources(p) \/ ListMemberships(p) \/ ListBindings(p) \/ ListSyncedTuples(p)
  BY <1>1, <1>2, <1>3 DEF ListResources, ListMemberships, ListBindings, ListSyncedTuples
<1>4. CASE GetResources(p)
  <2>1. local[p].rows \subseteq resources
    BY <1>0, <1>4 DEF GetResources, Collected
  <2> QED BY <1>1, <1>2, <1>4, <2>1 DEF GetResources
<1>5. CASE GetBinding(p)
  <2>1. \A id \in local[p].left : RowsWithId(bindings, id) # {}
    BY <1>5 DEF GetBinding, RowsThere, RowsWithId
  <2> QED BY <1>1, <1>2, <1>5, <2>1 DEF GetBinding
<1>6. CASE CompileBinding(p)
  <2>1. local[p].rows \subseteq bindings
    BY <1>0, <1>6 DEF CompileBinding, Collected, Compiled
  <2>2. \A b \in bindings : \E role \in RowsWithId(roles, b.role) : Projectable(b, role.permissions)
    BY DEF Sound, policy, RowsWithId
  <2> QED BY <1>1, <1>2, <1>6, <2>1, <2>2 DEF CompileBinding
<1>7. CASE Write(p)
  <2>1. local[p].desired = Project(policy)
    BY <1>0, <1>7 DEF Write, Collected
  <2>2. \A t \in local[p].desired : Accepted(t)
    BY <2>1, ProjectionAccepted DEF Known
  <2> QED BY <1>1, <1>2, <1>7, <2>2 DEF Write
<1>8. CASE ReplaceSyncedTuples(p)
  BY <1>0, <1>8, ReplaceSerial
<1> QED BY <1>3, <1>4, <1>5, <1>6, <1>7, <1>8 DEF Sync

\* A new role is of no binding: the projection does not change.
LEMMA NewRole ==
  ASSUME RolesFound, NEW new, \A role \in roles : role.id # new.id,
         roles' = roles \cup {new}, UNCHANGED <<members, bindings, resources>>,
         Sound(policy)'
  PROVE  Sound(policy) /\ Project(policy)' = Project(policy)
<1>1. ASSUME NEW b \in bindings
      PROVE  RowsWithId(roles', b.role) = RowsWithId(roles, b.role)
  BY DEF RolesFound, RowsWithId
<1>2. Sound(policy)
  <2> SUFFICES ASSUME NEW b \in bindings
               PROVE  \E role \in roles : role.id = b.role /\ Projectable(b, role.permissions)
    BY DEF Sound, policy
  <2>1. PICK role \in roles' : role.id = b.role /\ Projectable(b, role.permissions)
    BY DEF Sound, policy
  <2> QED BY <1>1, <2>1 DEF RowsWithId
<1>3. \A b \in bindings : TuplesOf(roles', b) = TuplesOf(roles, b)
  BY <1>1 DEF TuplesOf
<1>4. {TuplesOf(roles', b) : b \in bindings} = {TuplesOf(roles, b) : b \in bindings}
  BY <1>3
<1>5. Project(policy)' = Base \cup UNION {TuplesOf(roles', b) : b \in bindings}
  BY DEF Project, policy, Base, TuplesOf
<1> QED BY <1>2, <1>4, <1>5, ProjectParts

\* Every binding that is inserted or changed has a role that is there.
LEMMA RolesFoundStep ==
  ASSUME Serial, Known, RolesFound, [Next]_vars
  PROVE  RolesFound'
<1>0. TypeOK /\ HandlersInv /\ RolesSeeded
  BY DEF Known
<1>1. \A role \in roles : \E new \in roles' : new.id = role.id
  BY <1>0, RoleIdsStay
<1>2. ASSUME NEW b, \E role \in roles : role.id = b.role
      PROVE  \E role \in roles' : role.id = b.role
  BY <1>1, <1>2
<1>3. CASE bindings' \subseteq bindings
  BY <1>2, <1>3 DEF RolesFound
<1>4. CASE Start
  <2>1. \A s \in SeedRoles : \E role \in roles' : role.id = s.id
    BY <1>4 DEF Start, Seed, RowsWithId
  <2>2. \A b \in SeedBindings : \E role \in roles' : role.id = b.role
    BY <2>1, SeedSoundAssumption
  <2>3. bindings' \subseteq bindings \cup SeedBindings
    BY <1>4 DEF Start, Seed
  <2> QED BY <1>2, <2>2, <2>3 DEF RolesFound
<1>5. ASSUME NEW h \in Handlers, CreateBinding(h), ~Fail(h) PROVE RolesFound'
  <2>1. PICK new : bindings' = bindings \cup {new} /\ new.role = req[h].role
    <3> DEFINE new(id) == [id |-> id, subject |-> req[h].subject, role |-> req[h].role,
                           scope |-> req[h].scope, match |-> req[h].match,
                           resources |-> req[h].resources, compatibility |-> FALSE]
    <3>1. PICK id \in BindingId \ issued : bindings' = bindings \cup {new(id)}
      BY <1>5 DEF CreateBinding
    <3>2. new(id).role = req[h].role
      OBVIOUS
    <3> HIDE DEF new
    <3> QED BY <3>1, <3>2
  <2>2. ValidBinding(req[h])
    BY <1>0, <1>5 DEF CreateBinding, Committing, HandlersInv, Established, Validated,
       Validating, Valid
  <2>3. \E role \in roles : role.id = new.role
    BY <2>1, <2>2 DEF ValidBinding, RowsWithId
  <2> QED BY <1>2, <2>1, <2>3 DEF RolesFound
<1>6. ASSUME NEW h \in Handlers, Commit(h), NEW user, NEW access \in Access, NEW model,
             Upsert(h, user, CompatibilityRole(access), model)
      PROVE  RolesFound'
  <2>1. \A s \in SeedRoles : \E role \in roles : role.id = s.id
    BY <1>0, <1>6, CommitBusy DEF RolesSeeded
  <2>2. \E role \in roles : role.id = CompatibilityRole(access)
    <3>1. CompatibilityRole(access) \in {"model-reader", "model-writer", "model-admin"}
      BY DEF CompatibilityRole, Access
    <3> QED BY <2>1, <3>1, CompatibilityRolesAssumption
  <2>3. \A b \in bindings' : b \in bindings \/ b.role = CompatibilityRole(access)
    <3>1. bindings \subseteq Binding
      BY <1>0 DEF TypeOK, StoresOK
    <3>2. \A b \in bindings : [b EXCEPT !.role = CompatibilityRole(access)].role
                                = CompatibilityRole(access)
      BY <3>1 DEF Binding
    <3>3. CompatibilityBindings(bindings, user, model) \subseteq bindings
      BY DEF CompatibilityBindings
    <3>4. CASE \E b \in CompatibilityBindings(bindings, user, model) :
                 bindings' = (bindings \ {b})
                               \cup {[b EXCEPT !.role = CompatibilityRole(access)]}
      BY <3>2, <3>3, <3>4
    <3>5. ASSUME NEW id,
                 bindings' = bindings \cup
                   {[id |-> id, subject |-> <<"user", user>>, role |-> CompatibilityRole(access),
                     scope |-> <<"model", model>>, match |-> "scope", resources |-> <<>>,
                     compatibility |-> TRUE]}
          PROVE  \A b \in bindings' : b \in bindings \/ b.role = CompatibilityRole(access)
      BY <3>5
    <3> QED BY <1>6, <3>4, <3>5 DEF Upsert
  <2> QED BY <1>2, <2>2, <2>3 DEF RolesFound
<1>7. ASSUME NEW h \in Handlers, GrantLegacy(h) \/ RevokeLegacy(h) PROVE RolesFound'
  <2>1. req[h] \in Requests /\ req[h].op \in {"GrantLegacy", "RevokeLegacy"} /\ Commit(h)
    BY <1>0, <1>7, CommitBusy DEF GrantLegacy, RevokeLegacy, Committing, Commit
  <2>2. req[h].access \in Access
    BY <2>1, RequestParts
  <2>3. CASE GrantLegacy(h)
    BY <1>6, <2>1, <2>2, <2>3 DEF GrantLegacy
  <2>4. CASE RevokeLegacy(h) /\ NextAccess(req[h].access) = "none"
    BY <1>3, <2>4 DEF RevokeLegacy, RemoveBinding, Fail, stores, policyVars
  <2>5. CASE RevokeLegacy(h) /\ NextAccess(req[h].access) # "none"
    <3>1. NextAccess(req[h].access) \in Access
      BY <2>2, <2>5 DEF NextAccess, Access
    <3> QED BY <1>6, <2>1, <2>5, <3>1 DEF RevokeLegacy
  <2> QED BY <1>7, <2>3, <2>4, <2>5
<1>8. ASSUME NEW h \in Handlers, Commit(h), ~CreateBinding(h), ~GrantLegacy(h), ~RevokeLegacy(h)
      PROVE  bindings' \subseteq bindings
  BY <1>8 DEF Commit, CreateUser, CreateGroup, CreateRole, AddGroupMember, RemoveGroupMember,
     UpdateRole, DeleteBinding, RemoveBinding, CreateResource, DeleteResource, Fail, stores,
     policyVars
<1>9. CASE policyVars' = policyVars
  BY <1>3, <1>9 DEF policyVars
<1>10. ASSUME NEW h \in Handlers, CreateBinding(h), Fail(h) PROVE RolesFound'
  BY <1>9, <1>10 DEF Fail, stores
<1> QED BY <1>3, <1>4, <1>5, <1>7, <1>8, <1>9, <1>10, PolicyChanges

\* The row an upsert writes is the one it leaves to be read again.
LEMMA UpsertLeaves ==
  ASSUME TypeOK, NEW h \in Handlers, NEW user, NEW role, NEW model, Upsert(h, user, role, model)
  PROVE  \E b \in bindings' : b.id \in local'[h].left
<1>1. ASSUME NEW id, Goto(h, "GetUpserted", [Blank EXCEPT !.left = {id}])
      PROVE  id \in local'[h].left
  BY <1>1, HandlerType DEF Goto, Blank, TypeOK, ProcessesOK
<1>2. CASE \E b \in CompatibilityBindings(bindings, user, model) :
             /\ bindings' = (bindings \ {b}) \cup {[b EXCEPT !.role = role]}
             /\ Goto(h, "GetUpserted", [Blank EXCEPT !.left = {b.id}])
  <2>1. PICK b \in CompatibilityBindings(bindings, user, model) :
          /\ bindings' = (bindings \ {b}) \cup {[b EXCEPT !.role = role]}
          /\ Goto(h, "GetUpserted", [Blank EXCEPT !.left = {b.id}])
    BY <1>2
  <2>2. b \in Binding
    BY DEF CompatibilityBindings, TypeOK, StoresOK
  <2>3. [b EXCEPT !.role = role].id = b.id
    BY <2>2 DEF Binding
  <2> QED BY <1>1, <2>1, <2>3
<1>3. CASE \E id \in BindingId \ issued :
             /\ \E new : new.id = id /\ bindings' = bindings \cup {new}
             /\ Goto(h, "GetUpserted", [Blank EXCEPT !.left = {id}])
  BY <1>1, <1>3
<1>4. CASE ~\E b \in CompatibilityBindings(bindings, user, model) :
             /\ bindings' = (bindings \ {b}) \cup {[b EXCEPT !.role = role]}
             /\ Goto(h, "GetUpserted", [Blank EXCEPT !.left = {b.id}])
  <2> DEFINE new(id) == [id |-> id, subject |-> <<"user", user>>, role |-> role,
                         scope |-> <<"model", model>>, match |-> "scope", resources |-> <<>>,
                         compatibility |-> TRUE]
  <2>1. PICK id \in BindingId \ issued :
          /\ bindings' = bindings \cup {new(id)}
          /\ Goto(h, "GetUpserted", [Blank EXCEPT !.left = {id}])
    BY <1>4 DEF Upsert
  <2>2. new(id).id = id
    OBVIOUS
  <2> HIDE DEF new
  <2> QED BY <1>3, <2>1, <2>2
<1> QED BY <1>2, <1>4

\* The ids that Sync has listed are those of rows, which stay while it runs alone.
LEMMA ListedThere ==
  ASSUME TypeOK, NEW p \in Procs, RowsThere(p), Sync(p) \/ Abort(p), pc'[p] = "Bindings"
  PROVE  local'[p].left \subseteq {b.id : b \in bindings'}
<1>1. bindings' = bindings
  BY SyncKeeps DEF Abort, Fail, stores, policyVars
<1>2. local[p] \in Locals /\ local \in [Procs -> Locals] /\ pc \in [Procs -> Calls]
  BY DEF TypeOK, ProcessesOK
<1>3. ~Fail(p) /\ ~\E state : Return(p, state)
  BY <1>2 DEF Fail, Return
<1>4. CASE ListBindings(p)
  BY <1>1, <1>2, <1>4 DEF ListBindings, Goto, Locals
<1>5. CASE GetBinding(p)
  <2>1. PICK id \in local[p].left :
          Goto(p, "Bindings", [local[p] EXCEPT !.left = @ \ {id},
                                               !.rows = @ \cup RowsWithId(bindings, id)])
    BY <1>3, <1>5 DEF GetBinding
  <2>2. local'[p].left \subseteq local[p].left
    BY <1>2, <2>1 DEF Goto, Locals
  <2> QED BY <1>1, <1>5, <2>2 DEF GetBinding, RowsThere
<1>6. CASE CompileBinding(p)
  <2>1. PICK rows, desired, repeated :
          Goto(p, "Bindings", [local[p] EXCEPT !.rows = rows, !.desired = desired,
                                               !.repeated = repeated])
    BY <1>3, <1>6 DEF CompileBinding
  <2>2. local'[p].left = local[p].left
    BY <1>2, <2>1 DEF Goto, Locals
  <2> QED BY <1>1, <1>6, <2>2 DEF CompileBinding
<1>7. CASE ~ListBindings(p) /\ ~GetBinding(p) /\ ~CompileBinding(p)
  BY <1>2, <1>3, <1>7 DEF Sync, ListResources, GetResources, ListMemberships,
     ListSyncedTuples, Write, ReplaceSyncedTuples, Abort, Goto
<1> QED BY <1>4, <1>5, <1>6, <1>7

\* What a goroutine goes back to is there to be fetched.
LEMMA RowsThereStep ==
  ASSUME Serial, Known, [Next]_vars, \A p \in Procs : RowsThere(p)
  PROVE  \A p \in Procs : RowsThere(p)'
<1> SUFFICES ASSUME NEW p \in Procs PROVE RowsThere(p)'
  OBVIOUS
<1> USE HandlerType
<1>0. TypeOK
  BY DEF Known
<1>1. CASE UNCHANGED <<bindings, pc, local>>
  BY <1>1 DEF RowsThere
<1>2. ASSUME pc'[p] \notin {"GetUpserted", "Bindings"} PROVE RowsThere(p)'
  BY <1>2 DEF RowsThere
<1>3. CASE Start \/ Crash
  <2>1. pc'[p] \in {"idle", "ListResources"} \/ (Start /\ pc'[p] = pc[p])
    BY <1>0, <1>3 DEF Start, Crash, TypeOK, ProcessesOK
  <2>2. Start => pc[p] = "idle"
    BY <1>0 DEF Start, TypeOK, ProcessesOK, Procs
  <2> QED BY <1>2, <2>1, <2>2
<1>4. ASSUME NEW q \in Procs, q # p, pc[q] # "idle", \A r \in Procs \ {q} : pc'[r] = pc[r]
      PROVE  RowsThere(p)'
  <2>1. pc[p] = "idle"
    BY <1>0, <1>4, Alone
  <2> QED BY <1>2, <1>4, <2>1
<1>5. ASSUME NEW h \in Handlers, Receive(h) PROVE RowsThere(p)'
  <2>1. CASE p = h
    BY <1>0, <1>2, <1>5, <2>1 DEF Receive, TypeOK, ProcessesOK, FirstCall
  <2>2. CASE p # h
    <3>1. pc'[p] = pc[p] /\ local'[p] = local[p] /\ bindings' = bindings
      BY <1>0, <1>5, <2>2 DEF Receive, TypeOK, ProcessesOK, stores, policyVars
    <3> QED BY <3>1 DEF RowsThere
  <2> QED BY <2>1, <2>2
<1>6. ASSUME NEW h \in Handlers, Handle(h) PROVE RowsThere(p)'
  <2>1. pc[h] # "idle" /\ \A r \in Procs \ {h} : pc'[r] = pc[r]
    <3>1. pc[h] # "idle"
      BY <1>6 DEF Handle, Authorize, Check, Validate, PreviewRole, PreviewBindings, GetUpserted,
         CreateUser, CreateGroup, CreateRole, AddGroupMember, RemoveGroupMember, UpdateRole,
         CreateBinding, DeleteBinding, GrantLegacy, RevokeLegacy, CreateResource,
         DeleteResource, Committing
    <3> QED BY <1>0, <1>6, <3>1, HandlesOn, GotoOthers, ReturnOthers
  <2>2. CASE p # h
    BY <1>4, <2>1, <2>2
  <2>3. CASE p = h /\ Reads(h)
    <3>1. pc'[h] \notin {"GetUpserted", "Bindings"}
      BY <1>0, <2>3 DEF Reads, Authorize, Check, Validate, PreviewRole, PreviewBindings,
         GetUpserted, Synchronize, Goto, Fail, Return, TypeOK, ProcessesOK, AfterCheck,
         AfterValidate
    <3> QED BY <1>2, <2>3, <3>1
  <2>4. CASE p = h /\ Commit(h)
    <3>1. pc'[h] = "GetUpserted" => GrantLegacy(h) \/ RevokeLegacy(h)
      BY <1>0, <2>4 DEF Commit, CreateUser, CreateGroup, CreateRole, AddGroupMember,
         RemoveGroupMember, UpdateRole, CreateBinding, DeleteBinding, RemoveBinding,
         CreateResource, DeleteResource, Synchronize, Respond, Goto, Fail, Return, TypeOK,
         ProcessesOK
    <3>2. ASSUME NEW user, NEW role, NEW model, Upsert(h, user, role, model)
          PROVE  \E b \in bindings' : b.id \in local'[h].left
      BY <1>0, <3>2, UpsertLeaves
    <3>3. ASSUME NEW ids, RemoveBinding(h, ids) PROVE pc'[h] # "GetUpserted"
      BY <1>0, <3>3 DEF RemoveBinding, Synchronize, Goto, Fail, Return, TypeOK, ProcessesOK
    <3>4. pc'[h] # "Bindings"
      BY <1>0, <2>4, CommitMoves
    <3> QED BY <2>4, <3>1, <3>2, <3>3, <3>4 DEF GrantLegacy, RevokeLegacy, RowsThere
  <2> QED BY <1>6, <2>2, <2>3, <2>4, HandleParts
<1>7. ASSUME NEW q \in Procs, Sync(q) \/ Abort(q) PROVE RowsThere(p)'
  <2>1. CASE p # q
    BY <1>0, <1>4, <1>7, <2>1, SyncMoves
  <2>2. CASE p = q
    <3>1. pc'[p] # "GetUpserted"
      BY <1>0, <1>7, <2>2 DEF Sync, ListResources, GetResources, ListMemberships, ListBindings,
         GetBinding, CompileBinding, ListSyncedTuples, Write, ReplaceSyncedTuples, Abort, Fail,
         Goto, Return, TypeOK, ProcessesOK
    <3>2. ASSUME pc'[p] = "Bindings" PROVE local'[p].left \subseteq {b.id : b \in bindings'}
      BY <1>0, <1>7, <2>2, <3>2, ListedThere
    <3> QED BY <3>1, <3>2 DEF RowsThere
  <2> QED BY <2>1, <2>2
<1> QED BY <1>1, <1>3, <1>5, <1>6, <1>7 DEF Next, vars, stores, policyVars

\* A write that is answered at once, and one that fails, leave the projection as it is.
LEMMA AnsweredAtOnce ==
  ASSUME Serial, Known, RolesFound, Settled, NEW h \in Handlers, Commit(h), pc'[h] = "idle"
  PROVE  Settled'
<1> USE HandlerType
<1>0. TypeOK /\ pc[h] = "Commit" /\ server = "serving"
  BY CommitBusy DEF Known
<1>1. ~AtWork
  BY <1>0, Alone DEF AtWork, SyncCalls, Unconcerned
<1>2. CASE UNCHANGED <<members, roles, bindings, resources, fga>>
  <2>1. policy' = policy
    BY <1>2 DEF policy
  <2> QED BY <1>0, <1>1, <1>2, <2>1 DEF Settled, Projected
<1>3. CASE Fail(h)
  BY <1>2, <1>3 DEF Fail, stores, policyVars
<1>4. CASE CreateRole(h) /\ ~Fail(h)
  <2> DEFINE new == [id |-> req[h].role, builtIn |-> FALSE, revision |-> 1,
                     permissions |-> req[h].permissions]
  <2>1. /\ roles' = roles \cup {new} /\ new.id = req[h].role
        /\ RowsWithId(roles, req[h].role) = {}
        /\ UNCHANGED <<members, bindings, resources, fga>>
    BY <1>4 DEF CreateRole
  <2> HIDE DEF new
  <2>2. \A role \in roles : role.id # new.id
    BY <2>1 DEF RowsWithId
  <2>3. Sound(policy)' => Sound(policy) /\ Project(policy)' = Project(policy)
    BY <2>1, <2>2, NewRole
  <2> QED BY <1>0, <1>1, <2>1, <2>3 DEF Settled, Projected
<1>5. CASE ~Fail(h) /\ ~CreateRole(h)
  <2>1. ~Synchronize(h) /\ \A id : ~Goto(h, "GetUpserted", [Blank EXCEPT !.left = {id}])
    BY <1>0 DEF Synchronize, Goto, TypeOK, ProcessesOK
  <2>2. CreateUser(h) \/ CreateGroup(h)
    BY <1>5, <2>1 DEF Commit, AddGroupMember, RemoveGroupMember, UpdateRole, CreateBinding,
       DeleteBinding, RemoveBinding, GrantLegacy, RevokeLegacy, Upsert, CreateResource,
       DeleteResource
  <2> QED BY <1>2, <1>5, <2>2 DEF CreateUser, CreateGroup
<1> QED BY <1>3, <1>4, <1>5

\* The calls after a handler's write end only when the policy is in force, or has no projection.
LEMMA SettledStep ==
  ASSUME Serial, "error" \notin Faults, Known, RestInv, [Next]_vars
  PROVE  Settled'
<1> USE HandlerType
<1>0. TypeOK /\ Settled
  BY DEF Known, RestInv
<1>1. ASSUME NEW p \in Handlers, pc'[p] \in SyncCalls PROVE Settled'
  BY <1>1 DEF Settled, AtWork
<1>2. ASSUME UNCHANGED <<policyVars, fga, server>>, AtWork => AtWork' PROVE Settled'
  <2>1. policy' = policy
    BY <1>2 DEF policy, policyVars
  <2> QED BY <1>0, <1>2, <2>1 DEF Settled, Projected
<1>3. CASE Start \/ Crash
  BY <1>3 DEF Start, Crash, Settled
<1>4. ASSUME NEW h \in Handlers, Receive(h) PROVE Settled'
  <2>1. AtWork => AtWork'
    BY <1>0, <1>4 DEF Receive, AtWork, SyncCalls, Unconcerned, TypeOK, ProcessesOK
  <2> QED BY <1>2, <1>4, <2>1 DEF Receive, stores
<1>5. ASSUME NEW h \in Handlers, Handle(h) PROVE Settled'
  <2>1. CASE GetUpserted(h)
    <3>1. RowsThere(h)
      BY DEF RestInv
    <3>2. Synchronize(h)
      BY <2>1, <3>1 DEF GetUpserted, RowsThere
    <3>3. pc'[h] \in SyncCalls
      BY <1>0, <3>2 DEF Synchronize, Goto, SyncCalls, Unconcerned, TypeOK, ProcessesOK
    <3> QED BY <1>1, <3>3
  <2>2. CASE Reads(h) /\ ~GetUpserted(h)
    <3>1. pc[h] # "idle" /\ pc[h] \notin SyncCalls
      BY <2>2 DEF Reads, Authorize, Check, Validate, PreviewRole, PreviewBindings, SyncCalls,
         Unconcerned
    <3>2. ~AtWork
      BY <1>0, <3>1, Alone DEF AtWork, SyncCalls
    <3>3. server' = server
      BY <2>2 DEF Reads, Authorize, Check, Validate, PreviewRole, PreviewBindings, Goto, Fail,
         Return
    <3> QED BY <1>2, <2>2, <3>2, <3>3, ReadsKeep DEF stores
  <2>3. CASE Commit(h)
    <3>1. pc'[h] \in {"idle", "ListResources", "GetUpserted"}
      BY <1>0, <2>3, CommitMoves
    <3>2. CASE pc'[h] = "idle"
      BY <2>3, <3>2, AnsweredAtOnce DEF RestInv
    <3>3. CASE pc'[h] # "idle"
      BY <1>1, <3>1, <3>3 DEF SyncCalls, Unconcerned
    <3> QED BY <3>2, <3>3
  <2> QED BY <1>5, <2>1, <2>2, <2>3, HandleParts
<1>6. ASSUME NEW p \in Procs, Sync(p) PROVE Settled'
  <2> SUFFICES ASSUME (server = "serving" /\ ~AtWork /\ Sound(policy))' PROVE Projected'
    BY DEF Settled
  <2>1. policy' = policy /\ RowsThere(p)
    BY <1>6, SyncKeeps DEF policy, policyVars, RestInv
  <2>2. pc'[p] \in SyncCalls \/ Projected'
    BY <1>6, <2>1, SyncSucceeds
  <2>3. CASE p = Main /\ pc'[p] \in SyncCalls
    <3>1. server' = server
      BY <1>0, <1>6, <2>3 DEF Sync, ListResources, GetResources, ListMemberships, ListBindings,
         GetBinding, CompileBinding, ListSyncedTuples, Write, ReplaceSyncedTuples, Fail, Goto,
         Return, SyncCalls, TypeOK, ProcessesOK
    <3>2. pc[p] # "idle"
      BY <1>0, <1>6, SyncMoves
    <3> QED BY <1>0, <2>3, <3>1, <3>2 DEF TypeOK, ProcessesOK
  <2>4. CASE p \in Handlers /\ pc'[p] \in SyncCalls
    BY <2>4 DEF AtWork
  <2> QED BY <2>2, <2>3, <2>4 DEF Procs
<1>7. ASSUME NEW p \in Procs PROVE ~Abort(p)
  BY DEF Abort, Serial
<1>8. CASE UNCHANGED vars
  <2>1. AtWork' = AtWork
    BY <1>8 DEF vars, AtWork
  <2> QED BY <1>2, <1>8, <2>1 DEF vars, stores
<1> QED BY <1>3, <1>4, <1>5, <1>6, <1>7, <1>8 DEF Next

\* What is needed at every moment for the projection to be in force at rest.
LEMMA RestStep ==
  ASSUME Serial, "error" \notin Faults, Known, RestInv, [Next]_vars
  PROVE  RestInv'
BY RolesFoundStep, RowsThereStep, SettledStep DEF RestInv

\* A new database has no rows, and nobody serves it.
LEMMA RestInit ==
  ASSUME Init
  PROVE  RestInv
BY HandlerType DEF Init, RestInv, RolesFound, RowsThere, Settled

\* At every moment the rows that a request goes back to are there, and what the
\* tables say is in force unless a request has still to bring it into force.
THEOREM RestInvariant ==
  ASSUME Serial, "error" \notin Faults
  PROVE  Spec => [](Known /\ RestInv)
<1>1. OneAtATime
  BY DEF Serial, OneAtATime
<1>2. Init => RolesSeeded /\ RestInv
  BY RestInit DEF Init, RolesSeeded
<1>3. TypeOK /\ RolesSeeded /\ [Next]_vars => RolesSeeded'
  BY RolesSeededStep
<1>4. Known /\ RestInv /\ [Next]_vars => RestInv'
  BY RestStep
<1>5. Known <=> (TypeOK /\ SerialInv /\ HandlersInv /\ RolesSeeded /\ WellFormed(policy, Id))
  BY DEF Known
<1>6. Spec => []HandlersInv
  BY <1>1, HandlersInvariant
<1>7. Spec => []SerialInv
  BY SerialInvariant
<1> QED BY <1>2, <1>3, <1>4, <1>5, <1>6, <1>7, PolicyIsWellFormed, TypeCorrect, PTL DEF Spec

\* With one request at a time and no failure but the end of the process,
\* OpenFGA holds the projection of the policy whenever no request is in
\* progress, provided that every binding stored can be projected.
THEOREM EnforcedWithoutErrors ==
  ASSUME Serial, "error" \notin Faults
  PROVE  Spec => [](Sound(policy) => EnforcedAtRest)
<1>1. Known /\ RestInv => (Sound(policy) => EnforcedAtRest)
  BY HandlerType DEF RestInv, Settled, EnforcedAtRest, Idle, AtWork, SyncCalls
<1> QED BY <1>1, RestInvariant, PTL

\* OpenFGA then answers every check as the policy says.
THEOREM DecidesWithoutErrors ==
  ASSUME Serial, "error" \notin Faults
  PROVE  Spec => [](Sound(policy) => DecidesAtRest)
<1>1. Known /\ RestInv => (Sound(policy) => DecidesAtRest)
  BY HandlerType, ProjectedDecides
     DEF Known, RestInv, Settled, DecidesAtRest, Idle, AtWork, SyncCalls
<1> QED BY <1>1, RestInvariant, PTL
===============================================================================
