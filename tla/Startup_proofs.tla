----------------------------- MODULE Startup_proofs ---------------------------
(***************************************************************************)
(* Theorems about Startup, for every number of stores and models: however  *)
(* often the process fails, is stopped, is killed, or loses an answer.     *)
(***************************************************************************)
EXTENDS Startup, SequenceTheorems, TLAPS

\* The model that is remembered is one of the store that is remembered.
ModelOfStore ==
  settings.model # None =>
    settings.model \in 1..Len(models) /\ models[settings.model] = settings.store

\* What Bootstrap knows at each of its calls.
ClientKnows ==
  /\ phase = "createStore" => settings.store = None
  /\ phase = "setStore" => settings.store = None /\ client.store \in 1..stores
  /\ phase \in {"readModel", "writeModel", "setModel"} =>
       client.store = settings.store /\ settings.store # None
  /\ phase = "setModel" =>
       client.model \in 1..Len(models) /\ models[client.model] = client.store

\* What engine main has at each of its calls: nil is left over from the loop
\* only if the context is done.
EngineKnows ==
  /\ phase \in Bootstrapping \cup {"down", "open"} => engine = NoIds
  /\ phase = "syncRead" =>
       (engine = NoIds /\ cancelled) \/ (engine = settings /\ settings.model # None)
  /\ phase \in {"syncWrite", "syncRecord", "listen", "serve"} =>
       engine = settings /\ settings.model # None
  /\ phase \in {"syncRecord", "listen", "serve"} => engine.store \in filled

\* The inductive invariant.
StartupInv ==
  /\ StartupTypeOK
  /\ settings.store <= stores
  /\ ModelOfStore
  /\ RecordOfRemembered
  /\ ClientKnows
  /\ EngineKnows

\* Every model belongs to a store, so that a remembered model comes with a
\* remembered store.
LEMMA ModelNeedsStore ==
  ASSUME StartupInv, settings.model # None
  PROVE  settings.store \in 1..MaxStore
<1>1. settings.model \in 1..Len(models) /\ models[settings.model] = settings.store
  BY DEF StartupInv, ModelOfStore
<1>2. models \in Seq(1..MaxStore)
  BY DEF StartupInv, StartupTypeOK
<1>3. models[settings.model] \in 1..MaxStore
  BY <1>1, <1>2, ElementOfSeq
<1> QED BY <1>1, <1>3

\* The process begins with no store, no settings and nothing in hand.
LEMMA StartupInitial == StartupInit => StartupInv
<1> SUFFICES ASSUME StartupInit PROVE StartupInv
  OBVIOUS
<1> USE BoundsAssumption DEF BoundsAssumption, StartupInit, NoIds, None
<1>1. StartupTypeOK
  <2>1. NoIds \in Ids
    BY DEF Ids
  <2>2. models \in Seq(1..MaxStore) /\ Len(models) <= MaxModel
    <3> HIDE DEF NoIds
    <3> QED OBVIOUS
  <2>3. settings \in Ids /\ client \in Ids /\ engine \in Ids
    BY <2>1
  <2>4. recorded \in 0..MaxStore /\ stores \in 0..MaxStore
    OBVIOUS
  <2>5. phase \in Running \cup {"down"} /\ end \in {"none", "killed", "stopped", "fatal"}
    OBVIOUS
  <2>6. filled \subseteq 1..MaxStore /\ cancelled \in BOOLEAN
    OBVIOUS
  <2> QED BY <2>2, <2>3, <2>4, <2>5, <2>6 DEF StartupTypeOK
<1>2. ModelOfStore /\ RecordOfRemembered
  BY DEF ModelOfStore, RecordOfRemembered
<1>3. ClientKnows /\ EngineKnows
  BY DEF ClientKnows, EngineKnows, Bootstrapping
<1> QED BY <1>1, <1>2, <1>3 DEF StartupInv

\* The end of the process, whatever it was doing: only its memory is lost.
LEMMA EndKeeps ==
  ASSUME StartupInv, NEW why \in {"killed", "stopped", "fatal"}, End(why)
  PROVE  StartupInv'
<1> USE BoundsAssumption DEF BoundsAssumption, End, NoIds, None, database, openfga
<1>1. StartupTypeOK'
  <2>1. NoIds \in Ids
    BY DEF Ids
  <2> QED BY <2>1 DEF StartupInv, StartupTypeOK, Running
<1>2. (settings.store <= stores)' /\ ModelOfStore' /\ RecordOfRemembered'
  BY DEF StartupInv, ModelOfStore, RecordOfRemembered
<1>3. ClientKnows' /\ EngineKnows'
  BY DEF ClientKnows, EngineKnows, Bootstrapping
<1> QED BY <1>1, <1>2, <1>3 DEF StartupInv

\* log.Fatal ends the process and leaves what is stored.
LEMMA FatalKeeps == ASSUME StartupInv, Fatal PROVE StartupInv'
BY EndKeeps DEF Fatal

\* Bootstrap gives up, from any of its calls.
LEMMA FailedKeeps ==
  ASSUME StartupInv, phase \in Bootstrapping, Failed
  PROVE  StartupInv'
<1> USE BoundsAssumption DEF BoundsAssumption, Failed, GoTo, NoIds, None, database, openfga
<1>1. StartupTypeOK'
  <2>1. NoIds \in Ids
    BY DEF Ids
  <2> QED BY <2>1 DEF StartupInv, StartupTypeOK, Running, Bootstrapping
<1>2. (settings.store <= stores)' /\ ModelOfStore' /\ RecordOfRemembered'
  BY DEF StartupInv, ModelOfStore, RecordOfRemembered
<1>3. ClientKnows' /\ EngineKnows'
  BY DEF StartupInv, ClientKnows, EngineKnows, Bootstrapping
<1> QED BY <1>1, <1>2, <1>3 DEF StartupInv

\* A step that moves main on and changes no id.
LEMMA MovesKeep ==
  ASSUME StartupInv, UNCHANGED <<client, engine, database, openfga>>,
         phase' \in Running, cancelled' \in BOOLEAN,
         end' \in {"none", "killed", "stopped", "fatal"},
         ClientKnows', EngineKnows'
  PROVE  StartupInv'
<1> USE DEF database, openfga
<1>1. StartupTypeOK'
  BY DEF StartupInv, StartupTypeOK
<1>2. (settings.store <= stores)' /\ ModelOfStore' /\ RecordOfRemembered'
  BY DEF StartupInv, ModelOfStore, RecordOfRemembered
<1> QED BY <1>1, <1>2 DEF StartupInv

\* Steps outside Bootstrap that change no id.
LEMMA LoopKeeps ==
  ASSUME StartupInv, Launch \/ Open \/ Signal \/ Kill \/ Attempt \/ Retry
  PROVE  StartupInv'
<1> USE DEF StartupTypeOK, database, openfga
<1>1. CASE Launch
  <2>1. UNCHANGED <<client, engine, database, openfga>>
    BY <1>1 DEF Launch
  <2>2. phase' \in Running /\ cancelled' \in BOOLEAN /\ end' \in {"none", "killed", "stopped", "fatal"}
    BY <1>1 DEF Launch, Running, StartupInv
  <2>3. ClientKnows' /\ EngineKnows'
    BY <1>1 DEF Launch, StartupInv, ClientKnows, EngineKnows, Bootstrapping
  <2> QED BY <2>1, <2>2, <2>3, MovesKeep
<1>2. CASE Open /\ ~Fatal
  <2>1. UNCHANGED <<client, engine, database, openfga>>
    BY <1>2 DEF Open
  <2>2. phase' \in Running /\ cancelled' \in BOOLEAN /\ end' \in {"none", "killed", "stopped", "fatal"}
    BY <1>2 DEF Open, GoTo, Running, Bootstrapping, StartupInv
  <2>3. ClientKnows' /\ EngineKnows'
    BY <1>2 DEF Open, GoTo, StartupInv, ClientKnows, EngineKnows, Bootstrapping
  <2> QED BY <2>1, <2>2, <2>3, MovesKeep
<1>3. CASE Signal
  <2>1. UNCHANGED <<client, engine, database, openfga>>
    BY <1>3 DEF Signal
  <2>2. phase' \in Running /\ cancelled' \in BOOLEAN /\ end' \in {"none", "killed", "stopped", "fatal"}
    BY <1>3 DEF Signal, StartupInv
  <2>3. ClientKnows' /\ EngineKnows'
    BY <1>3 DEF Signal, StartupInv, ClientKnows, EngineKnows
  <2> QED BY <2>1, <2>2, <2>3, MovesKeep
<1>4. CASE Kill
  BY <1>4, EndKeeps DEF Kill
<1>5. CASE Attempt
  <2>1. UNCHANGED <<client, engine, database, openfga>>
    BY <1>5 DEF Attempt
  <2>2. phase' \in Running /\ cancelled' \in BOOLEAN /\ end' \in {"none", "killed", "stopped", "fatal"}
    BY <1>5 DEF Attempt, GoTo, Running, Bootstrapping, StartupInv
  <2>3. ClientKnows' /\ EngineKnows'
    BY <1>5 DEF Attempt, GoTo, StartupInv, ClientKnows, EngineKnows, Bootstrapping
  <2> QED BY <2>1, <2>2, <2>3, MovesKeep
<1>6. CASE Retry /\ ~Fatal
  <2>1. UNCHANGED <<client, engine, database, openfga>>
    BY <1>6 DEF Retry
  <2>2. phase' \in Running /\ cancelled' \in BOOLEAN /\ end' \in {"none", "killed", "stopped", "fatal"}
    BY <1>6 DEF Retry, GoTo, Running, Bootstrapping, StartupInv
  <2>3. ClientKnows' /\ EngineKnows'
    BY <1>6 DEF Retry, GoTo, StartupInv, ClientKnows, EngineKnows, Bootstrapping
  <2> QED BY <2>1, <2>2, <2>3, MovesKeep
<1> QED BY <1>1, <1>2, <1>3, <1>4, <1>5, <1>6, FatalKeeps

\* The types of the ids, one by one.
LEMMA IdTypes ==
  ASSUME StartupInv
  PROVE  /\ settings.store \in 0..MaxStore /\ settings.model \in 0..MaxModel
         /\ client.store \in 0..MaxStore /\ client.model \in 0..MaxModel
         /\ settings = [store |-> settings.store, model |-> settings.model]
         /\ client = [store |-> client.store, model |-> client.model]
         /\ stores \in 0..MaxStore /\ Len(models) \in 0..MaxModel
         /\ models \in Seq(1..MaxStore)
<1>1. settings \in Ids /\ client \in Ids
  BY DEF StartupInv, StartupTypeOK
<1>2. models \in Seq(1..MaxStore) /\ Len(models) <= MaxModel /\ stores \in 0..MaxStore
  BY DEF StartupInv, StartupTypeOK
<1>3. Len(models) \in Nat
  BY <1>2, LenProperties
<1> QED BY <1>1, <1>2, <1>3, BoundsAssumption DEF BoundsAssumption, Ids

\* The store: it is created only when none is remembered, and when the id of a
\* new one is kept nothing is known of another.
LEMMA StoreKeeps ==
  ASSUME StartupInv, ReadStore \/ CreateStore \/ CreateStoreUnanswered \/ SetStore
  PROVE  StartupInv'
<1> USE BoundsAssumption DEF BoundsAssumption, None
<1>1. CASE ReadStore
  <2> USE DEF database, openfga
  <2>1. client' \in Ids
    BY <1>1 DEF ReadStore, StartupInv, StartupTypeOK, Ids
  <2>2. StartupTypeOK'
    BY <1>1, <2>1 DEF ReadStore, GoTo, StartupInv, StartupTypeOK, Running, Bootstrapping
  <2>3. (settings.store <= stores)' /\ ModelOfStore' /\ RecordOfRemembered'
    BY <1>1 DEF ReadStore, StartupInv, ModelOfStore, RecordOfRemembered
  <2>4. ClientKnows'
    BY <1>1 DEF ReadStore, GoTo, StartupInv, StartupTypeOK, Ids, ClientKnows
  <2>5. EngineKnows'
    BY <1>1 DEF ReadStore, GoTo, StartupInv, EngineKnows, Bootstrapping
  <2> QED BY <2>2, <2>3, <2>4, <2>5 DEF StartupInv
<1>2. ASSUME CreateStore \/ CreateStoreUnanswered PROVE StartupInv'
  <2>1. /\ stores < MaxStore /\ stores' = stores + 1
        /\ phase = "createStore" /\ phase' \in {"setStore", "retry"}
        /\ engine' = engine /\ settings' = settings /\ recorded' = recorded /\ models' = models
        /\ filled' = filled /\ cancelled' = cancelled /\ end' = end
    BY <1>2, IdTypes DEF CreateStore, CreateStoreUnanswered, GoTo, database
  <2>2. stores' \in 1..MaxStore /\ settings.store <= stores /\ settings.store \in Nat
    BY <2>1, IdTypes DEF StartupInv
  <2>3. client' = [client EXCEPT !.store = stores + 1] \/ (client' = NoIds /\ phase' = "retry")
    BY <1>2 DEF CreateStore, CreateStoreUnanswered, GoTo
  <2>4. client' \in Ids /\ (phase' = "setStore" => client'.store = stores')
    BY <2>1, <2>2, <2>3, IdTypes DEF Ids, NoIds
  <2>5. StartupTypeOK'
    BY <2>1, <2>2, <2>4 DEF StartupInv, StartupTypeOK, Running, Bootstrapping
  <2>6. (settings.store <= stores)'
    BY <2>1, <2>2, IdTypes
  <2>7. ModelOfStore' /\ RecordOfRemembered'
    BY <2>1 DEF StartupInv, ModelOfStore, RecordOfRemembered
  <2>8. ClientKnows'
    BY <2>1, <2>2, <2>4 DEF StartupInv, ClientKnows
  <2>9. EngineKnows'
    BY <2>1 DEF StartupInv, EngineKnows, Bootstrapping
  <2> QED BY <2>5, <2>6, <2>7, <2>8, <2>9 DEF StartupInv
<1>3. CASE SetStore
  <2>1. /\ phase = "setStore" /\ phase' = "readModel"
        /\ settings' = [settings EXCEPT !.store = client.store]
        /\ client' = client /\ engine' = engine /\ recorded' = recorded /\ stores' = stores
        /\ models' = models /\ filled' = filled /\ cancelled' = cancelled /\ end' = end
    BY <1>3 DEF SetStore, GoTo, openfga
  <2>2. settings.store = None /\ client.store \in 1..stores
    BY <2>1 DEF StartupInv, ClientKnows
  <2>3. settings.model = None
    BY <2>2, ModelNeedsStore
  <2>4. recorded = None /\ filled = {}
    BY <2>2 DEF StartupInv, StartupTypeOK, RecordOfRemembered
  <2>5. settings' \in Ids /\ settings'.store = client.store /\ settings'.model = None
    BY <2>1, <2>3, IdTypes DEF Ids
  <2>6. StartupTypeOK'
    BY <2>1, <2>5 DEF StartupInv, StartupTypeOK, Running, Bootstrapping
  <2>7. (settings.store <= stores)' /\ ModelOfStore'
    BY <2>1, <2>2, <2>5, IdTypes DEF ModelOfStore
  <2>8. RecordOfRemembered'
    BY <2>1, <2>4 DEF RecordOfRemembered
  <2>9. ClientKnows'
    BY <2>1, <2>2, <2>5, IdTypes DEF ClientKnows
  <2>10. EngineKnows'
    BY <2>1 DEF StartupInv, EngineKnows, Bootstrapping
  <2> QED BY <2>6, <2>7, <2>8, <2>9, <2>10 DEF StartupInv
<1> QED BY <1>1, <1>2, <1>3

\* The model: it is written to the store that is remembered.
LEMMA ModelKeeps ==
  ASSUME StartupInv, ReadModel \/ WriteModel \/ WriteModelUnanswered \/ SetModel
  PROVE  StartupInv'
<1> USE BoundsAssumption DEF BoundsAssumption, None
<1>1. CASE ReadModel
  <2>1. /\ phase = "readModel" /\ ~cancelled
        /\ settings' = settings /\ recorded' = recorded /\ stores' = stores /\ models' = models
        /\ filled' = filled /\ cancelled' = cancelled /\ end' = end
    BY <1>1 DEF ReadModel, GoTo, database, openfga
  <2>2. client.store = settings.store /\ settings.store # None
    BY <2>1 DEF StartupInv, ClientKnows
  <2>3. \/ phase' = "writeModel" /\ UNCHANGED <<client, engine>>
        \/ /\ phase' = "syncRead" /\ settings.model # None
           /\ engine' = [client EXCEPT !.model = settings.model] /\ client' = NoIds
    BY <1>1 DEF ReadModel, GoTo
  <2>4. phase' = "syncRead" => engine' = settings /\ settings.model # None
    BY <2>2, <2>3, IdTypes
  <2>5. client' \in Ids /\ engine' \in Ids
    BY <2>3, IdTypes DEF Ids, NoIds, StartupInv, StartupTypeOK
  <2>6. StartupTypeOK'
    BY <2>1, <2>3, <2>5 DEF StartupInv, StartupTypeOK, Running, Bootstrapping
  <2>7. (settings.store <= stores)' /\ ModelOfStore' /\ RecordOfRemembered'
    BY <2>1 DEF StartupInv, ModelOfStore, RecordOfRemembered
  <2>8. ClientKnows'
    BY <2>1, <2>2, <2>3 DEF ClientKnows
  <2>9. EngineKnows'
    BY <2>1, <2>3, <2>4 DEF StartupInv, EngineKnows, Bootstrapping
  <2> QED BY <2>6, <2>7, <2>8, <2>9 DEF StartupInv
<1>2. ASSUME WriteModel \/ WriteModelUnanswered PROVE StartupInv'
  <2>1. /\ phase = "writeModel" /\ phase' \in {"setModel", "retry"}
        /\ Len(models) < MaxModel /\ models' = Append(models, client.store)
        /\ engine' = engine /\ settings' = settings /\ recorded' = recorded /\ stores' = stores
        /\ filled' = filled /\ cancelled' = cancelled /\ end' = end
    BY <1>2, IdTypes DEF WriteModel, WriteModelUnanswered, GoTo, database
  <2>2. client.store = settings.store /\ client.store \in 1..MaxStore
    BY <2>1, IdTypes DEF StartupInv, ClientKnows
  <2>3. /\ models' \in Seq(1..MaxStore) /\ Len(models') = Len(models) + 1
        /\ \A i \in 1..Len(models) : models'[i] = models[i]
        /\ models'[Len(models) + 1] = client.store
    BY <2>1, <2>2, IdTypes, AppendProperties
  <2>4. \/ client' = [client EXCEPT !.model = Len(models) + 1]
        \/ client' = NoIds /\ phase' = "retry"
    BY <1>2 DEF WriteModel, WriteModelUnanswered, GoTo
  <2>5. /\ client' \in Ids
        /\ phase' = "setModel" => /\ client'.store = client.store
                                  /\ client'.model = Len(models')
    BY <2>1, <2>3, <2>4, IdTypes DEF Ids, NoIds
  <2>6. StartupTypeOK'
    <3>1. Len(models') <= MaxModel
      BY <2>1, <2>3, IdTypes
    <3> QED BY <2>1, <2>3, <2>5, <3>1 DEF StartupInv, StartupTypeOK, Running, Bootstrapping
  <2>7. ModelOfStore'
    <3>1. CASE settings.model = None
      BY <2>1, <3>1 DEF ModelOfStore
    <3>2. CASE settings.model # None
      <4>1. settings.model \in 1..Len(models) /\ models[settings.model] = settings.store
        BY <3>2 DEF StartupInv, ModelOfStore
      <4>2. settings.model \in 1..Len(models') /\ models'[settings.model] = settings.store
        BY <4>1, <2>3, IdTypes
      <4> QED BY <4>2, <2>1 DEF ModelOfStore
    <3> QED BY <3>1, <3>2
  <2>8. (settings.store <= stores)' /\ RecordOfRemembered'
    BY <2>1 DEF StartupInv, RecordOfRemembered
  <2>9. ClientKnows'
    <3>1. settings.store # None
      BY <2>2
    <3>2. phase' = "setModel" =>
            client'.model \in 1..Len(models') /\ models'[client'.model] = client'.store
      BY <2>3, <2>5, IdTypes
    <3> QED BY <2>1, <2>2, <2>5, <3>1, <3>2 DEF ClientKnows
  <2>10. EngineKnows'
    BY <2>1 DEF StartupInv, EngineKnows, Bootstrapping
  <2> QED BY <2>6, <2>7, <2>8, <2>9, <2>10 DEF StartupInv
<1>3. CASE SetModel
  <2>1. /\ phase = "setModel" /\ phase' = "syncRead"
        /\ settings' = [settings EXCEPT !.model = client.model]
        /\ engine' = client /\ client' = NoIds
        /\ recorded' = recorded /\ stores' = stores /\ models' = models /\ filled' = filled
        /\ cancelled' = cancelled /\ end' = end
    BY <1>3 DEF SetModel, GoTo, openfga
  <2>2. /\ client.store = settings.store
        /\ client.model \in 1..Len(models) /\ models[client.model] = client.store
    BY <2>1 DEF StartupInv, ClientKnows
  <2>3. /\ settings' = client /\ settings'.store = settings.store
        /\ settings'.model = client.model
    BY <2>1, <2>2, IdTypes
  <2>4. client' \in Ids /\ engine' \in Ids /\ settings' \in Ids
    BY <2>1, <2>3 DEF Ids, NoIds, StartupInv, StartupTypeOK
  <2>5. StartupTypeOK'
    BY <2>1, <2>4 DEF StartupInv, StartupTypeOK, Running, Bootstrapping
  <2>6. ModelOfStore'
    BY <2>1, <2>2, <2>3 DEF ModelOfStore
  <2>7. (settings.store <= stores)' /\ RecordOfRemembered'
    BY <2>1, <2>3 DEF StartupInv, RecordOfRemembered
  <2>8. ClientKnows'
    BY <2>1 DEF ClientKnows
  <2>9. EngineKnows'
    BY <2>1, <2>2, <2>3, IdTypes DEF EngineKnows, Bootstrapping
  <2> QED BY <2>5, <2>6, <2>7, <2>8, <2>9 DEF StartupInv
<1> QED BY <1>1, <1>2, <1>3

\* The first Sync and the server: nothing is written without an engine, and
\* nothing but to the store that is remembered.
LEMMA SyncKeeps ==
  ASSUME StartupInv, SyncRead \/ SyncWrite \/ SyncRecord \/ Listen \/ Stop
  PROVE  StartupInv'
<1> USE BoundsAssumption DEF BoundsAssumption, None
<1>1. CASE (SyncRead \/ Listen) /\ ~Fatal
  <2>1. /\ client' = client /\ engine' = engine /\ settings' = settings /\ recorded' = recorded
        /\ stores' = stores /\ models' = models /\ filled' = filled /\ cancelled' = cancelled
        /\ end' = end
    BY <1>1 DEF SyncRead, Listen, GoTo, database, openfga
  <2>2. \/ phase = "syncRead" /\ ~cancelled /\ phase' = "syncWrite"
        \/ phase = "listen" /\ phase' = "serve"
    BY <1>1 DEF SyncRead, Listen, GoTo
  <2>3. StartupTypeOK'
    BY <2>1, <2>2 DEF StartupInv, StartupTypeOK, Running, Bootstrapping
  <2>4. (settings.store <= stores)' /\ ModelOfStore' /\ RecordOfRemembered'
    BY <2>1 DEF StartupInv, ModelOfStore, RecordOfRemembered
  <2>5. ClientKnows' /\ EngineKnows'
    BY <2>1, <2>2 DEF StartupInv, ClientKnows, EngineKnows, Bootstrapping
  <2> QED BY <2>3, <2>4, <2>5 DEF StartupInv
<1>2. CASE SyncWrite /\ ~Fatal
  <2>1. /\ phase = "syncWrite" /\ phase' = "syncRecord"
        /\ filled' = IF recorded = None THEN filled \cup {engine.store} ELSE filled
        /\ client' = client /\ engine' = engine /\ settings' = settings /\ recorded' = recorded
        /\ stores' = stores /\ models' = models /\ cancelled' = cancelled /\ end' = end
    BY <1>2 DEF SyncWrite, GoTo, database
  <2>2. engine = settings /\ settings.model # None
    BY <2>1 DEF StartupInv, EngineKnows
  <2>3. settings.store \in 1..MaxStore
    BY <2>2, ModelNeedsStore
  <2>4. /\ filled \subseteq {settings.store}
        /\ recorded # None => recorded = settings.store /\ recorded \in filled
    BY DEF StartupInv, RecordOfRemembered
  <2>5. filled' \subseteq {settings.store} /\ engine.store \in filled'
    BY <2>1, <2>2, <2>4
  <2>6. StartupTypeOK'
    BY <2>1, <2>3, <2>5 DEF StartupInv, StartupTypeOK, Running, Bootstrapping
  <2>7. (settings.store <= stores)' /\ ModelOfStore'
    BY <2>1 DEF StartupInv, ModelOfStore
  <2>8. RecordOfRemembered'
    BY <2>1, <2>4, <2>5 DEF RecordOfRemembered
  <2>9. ClientKnows' /\ EngineKnows'
    BY <2>1, <2>2, <2>5 DEF ClientKnows, EngineKnows, Bootstrapping
  <2> QED BY <2>6, <2>7, <2>8, <2>9 DEF StartupInv
<1>3. CASE SyncRecord /\ ~Fatal
  <2>1. /\ phase = "syncRecord" /\ phase' = "listen" /\ recorded' = engine.store
        /\ client' = client /\ engine' = engine /\ settings' = settings /\ stores' = stores
        /\ models' = models /\ filled' = filled /\ cancelled' = cancelled /\ end' = end
    BY <1>3 DEF SyncRecord, GoTo, openfga
  <2>2. engine = settings /\ settings.model # None /\ engine.store \in filled
    BY <2>1 DEF StartupInv, EngineKnows
  <2>3. StartupTypeOK'
    BY <2>1, <2>2, IdTypes DEF StartupInv, StartupTypeOK, Running, Bootstrapping
  <2>4. (settings.store <= stores)' /\ ModelOfStore' /\ RecordOfRemembered'
    BY <2>1, <2>2 DEF StartupInv, ModelOfStore, RecordOfRemembered
  <2>5. ClientKnows' /\ EngineKnows'
    BY <2>1, <2>2 DEF ClientKnows, EngineKnows, Bootstrapping
  <2> QED BY <2>3, <2>4, <2>5 DEF StartupInv
<1>4. CASE Stop
  BY <1>4, EndKeeps DEF Stop
<1> QED BY <1>1, <1>2, <1>3, <1>4, FatalKeeps

\* The invariant is inductive.
LEMMA StartupInductive == StartupInv /\ [StartupNext]_startupVars => StartupInv'
<1> SUFFICES ASSUME StartupInv, [StartupNext]_startupVars PROVE StartupInv'
  OBVIOUS
<1>1. CASE Fail
  <2>1. phase \in Bootstrapping /\ Failed
    BY <1>1 DEF Fail, Bootstrapping
  <2> QED BY <2>1, FailedKeeps
<1>2. CASE UNCHANGED startupVars
  BY <1>2 DEF startupVars, processVars, database, openfga, StartupInv, StartupTypeOK,
              ModelOfStore, RecordOfRemembered, ClientKnows, EngineKnows
<1> QED BY <1>1, <1>2, LoopKeeps, StoreKeeps, ModelKeeps, SyncKeeps
        DEF StartupNext, Main, Bootstrap

-------------------------------------------------------------------------------

\* The ids are ids, and OpenFGA has as many stores and models as the bounds say.
THEOREM StartupTypeCorrect == StartupSpec => []StartupTypeOK
<1>1. StartupInv => StartupTypeOK
  BY DEF StartupInv
<1> QED BY <1>1, StartupInitial, StartupInductive, PTL DEF StartupSpec

\* However often the process was interrupted, what serves is the store and the
\* model that are remembered, and the store has the tuples of the policy.
THEOREM ServesTheRemembered == StartupSpec => []ServesRemembered
<1>1. StartupInv => ServesRemembered
  <2> SUFFICES ASSUME StartupInv, phase = "serve" PROVE ServesRemembered
    BY DEF ServesRemembered
  <2>1. engine = settings /\ settings.model # None /\ engine.store \in filled
    BY DEF StartupInv, EngineKnows
  <2>2. settings.store \in 1..MaxStore
    BY <2>1, ModelNeedsStore
  <2>3. settings.model \in 1..Len(models) /\ models[settings.model] = settings.store
    BY <2>1 DEF StartupInv, ModelOfStore
  <2>4. settings.store \in 1..stores
    BY <2>2, IdTypes DEF StartupInv
  <2> QED BY <2>1, <2>3, <2>4 DEF ServesRemembered
<1> QED BY <1>1, StartupInitial, StartupInductive, PTL DEF StartupSpec

\* The record of the tuples is one of the store that is remembered.
THEOREM RecordsTheRemembered == StartupSpec => []RecordOfRemembered
<1>1. StartupInv => RecordOfRemembered
  BY DEF StartupInv
<1> QED BY <1>1, StartupInitial, StartupInductive, PTL DEF StartupSpec

\* A nil engine is never called.
THEOREM EngineIsThere == StartupSpec => []EngineThere
<1>1. StartupInv => EngineThere
  BY DEF StartupInv, EngineKnows, EngineThere, NoIds
<1> QED BY <1>1, StartupInitial, StartupInductive, PTL DEF StartupSpec
===============================================================================
