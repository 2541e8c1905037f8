------------------------------- MODULE Startup --------------------------------
(***************************************************************************)
(* The life of the server process (cmd/server/main.go) and the bootstrap   *)
(* of its engine (Bootstrap in internal/openfga/openfga.go).               *)
(*                                                                         *)
(* OpenFGA gives its stores and models ids of its own, and the process     *)
(* keeps the two it uses in the settings table, each in a statement after  *)
(* the call that made it.  Each of these calls may fail, the answer of     *)
(* OpenFGA may be lost, and the process may be killed or told to stop in   *)
(* between; it then finds in SQLite what it had written there, and in      *)
(* OpenFGA what it had created there.                                      *)
(*                                                                         *)
(* Ids are numbers in the order in which OpenFGA hands them out.  Of the   *)
(* policy it matters here only which store its tuples are in.              *)
(***************************************************************************)
EXTENDS Naturals, Sequences

CONSTANTS
  MaxStore,      \* bound: how many stores are created in all
  MaxModel       \* bound: how many models are written in all

ASSUME BoundsAssumption == MaxStore \in Nat \ {0} /\ MaxModel \in Nat \ {0}

None == 0

VARIABLES
  phase,        \* the next call of main
  settings,     \* the ids in the settings table, None where there is no row
  stores,       \* OpenFGA: how many stores there are
  models,       \* OpenFGA: the model that has each id, by its store
  filled,       \* OpenFGA: the stores that the policy's tuples were written to
  recorded,     \* the store whose tuples synced_tuples lists, or None
  client,       \* the ids that this Bootstrap has read or been given
  engine,       \* the ids of the engine that the service got; None for nil
  cancelled,    \* whether the context of main is done: SIGINT or SIGTERM
  end           \* how the process ended, until the next start

processVars == <<phase, client, engine, cancelled, end>>
database == <<settings, recorded>>
openfga == <<stores, models, filled>>
startupVars == <<processVars, database, openfga>>

Ids == [store : 0..MaxStore, model : 0..MaxModel]
NoIds == [store |-> None, model |-> None]

Bootstrapping == {"attempt", "readStore", "createStore", "setStore",
                  "readModel", "writeModel", "setModel", "retry"}
Running == {"open"} \cup Bootstrapping \cup
           {"syncRead", "syncWrite", "syncRecord", "listen", "serve"}

StartupInit ==
  /\ phase = "down" /\ end = "none"
  /\ settings = NoIds /\ recorded = None
  /\ stores = 0 /\ models = <<>> /\ filled = {}
  /\ client = NoIds /\ engine = NoIds
  /\ cancelled = FALSE

-------------------------------------------------------------------------------
(* The process *)

\* The process is gone, and its memory with it.
End(why) ==
  /\ phase' = "down" /\ end' = why
  /\ client' = NoIds /\ engine' = NoIds /\ cancelled' = FALSE
  /\ UNCHANGED <<database, openfga>>

\* log.Fatal
Fatal == End("fatal")

GoTo(next) == phase' = next /\ UNCHANGED <<cancelled, end>>

Launch ==
  /\ phase = "down"
  /\ phase' = "open" /\ end' = "none"
  /\ UNCHANGED <<client, engine, cancelled, database, openfga>>

\* store.Open, with the context of main
Open ==
  /\ phase = "open"
  /\ \/ ~cancelled /\ GoTo("attempt") /\ UNCHANGED <<client, engine, database, openfga>>
     \/ Fatal

\* The bound: an id that is not going to be remembered is only spent while
\* there is another.
Spare == /\ phase = "setStore" => stores < MaxStore
         /\ phase = "setModel" => Len(models) < MaxModel

\* A signal: only the context knows of it.
Signal ==
  /\ phase \in Running /\ ~cancelled /\ Spare
  /\ cancelled' = TRUE
  /\ UNCHANGED <<phase, client, engine, end, database, openfga>>

Kill ==
  /\ phase \in Running /\ Spare
  /\ End("killed")

-------------------------------------------------------------------------------
(* The loop around Bootstrap *)

\* for ctx.Err() == nil: a context that is done ends the loop, with the engine
\* of the last attempt, which is nil.
Attempt ==
  /\ phase = "attempt"
  /\ GoTo(IF cancelled THEN "syncRead" ELSE "readStore")
  /\ UNCHANGED <<client, engine, database, openfga>>

\* Bootstrap returns an error: main waits for a second or for the signal.
\* Faulty variant of Failed: the first error is fatal.
FailedForGood == Fatal
Failed ==
  /\ GoTo("retry")
  /\ client' = NoIds
  /\ UNCHANGED <<engine, database, openfga>>

\* Faulty variant of Retry: it waits for the second alone.
RetryUntold ==
  /\ phase = "retry"
  /\ GoTo("readStore")
  /\ UNCHANGED <<client, engine, database, openfga>>
\* If the second has passed and the signal is there, select takes either.
Retry ==
  /\ phase = "retry"
  /\ \/ cancelled /\ Fatal
     \/ GoTo("attempt") /\ UNCHANGED <<client, engine, database, openfga>>

\* A call of Bootstrap that has no effect fails.
Fail ==
  /\ phase \in {"readStore", "createStore", "readModel", "writeModel"}
     \/ (phase \in {"setStore", "setModel"} /\ Spare)
  /\ Failed

-------------------------------------------------------------------------------
(* Bootstrap *)

\* Faulty variant of ReadStore: every attempt makes a store of its own.
ReadStoreForgetful ==
  /\ phase = "readStore" /\ ~cancelled
  /\ IF stores < MaxStore
     THEN GoTo("createStore") /\ UNCHANGED client
     ELSE GoTo("readModel") /\ client' = [client EXCEPT !.store = settings.store]
  /\ UNCHANGED <<engine, database, openfga>>
ReadStore ==
  /\ phase = "readStore" /\ ~cancelled
  /\ IF settings.store = None
     THEN GoTo("createStore") /\ UNCHANGED client
     ELSE GoTo("readModel") /\ client' = [client EXCEPT !.store = settings.store]
  /\ UNCHANGED <<engine, database, openfga>>

\* Faulty variant of CreateStore: the id in the answer is left unread.
CreateStoreUnread ==
  /\ phase = "createStore" /\ ~cancelled /\ stores < MaxStore
  /\ stores' = stores + 1
  /\ GoTo("setStore")
  /\ UNCHANGED <<client, engine, database, models, filled>>
CreateStore ==
  /\ phase = "createStore" /\ ~cancelled /\ stores < MaxStore
  /\ stores' = stores + 1
  /\ client' = [client EXCEPT !.store = stores + 1]
  /\ GoTo("setStore")
  /\ UNCHANGED <<engine, database, models, filled>>

\* The store is there, the answer is not.
CreateStoreUnanswered ==
  /\ phase = "createStore" /\ stores + 1 < MaxStore
  /\ stores' = stores + 1
  /\ GoTo("retry") /\ client' = NoIds
  /\ UNCHANGED <<engine, database, models, filled>>

\* Faulty variant of SetStore: the id is not kept.
SetStoreInMemory ==
  /\ phase = "setStore" /\ ~cancelled
  /\ GoTo("readModel")
  /\ UNCHANGED <<client, engine, database, openfga>>
SetStore ==
  /\ phase = "setStore" /\ ~cancelled
  /\ settings' = [settings EXCEPT !.store = client.store]
  /\ GoTo("readModel")
  /\ UNCHANGED <<client, engine, recorded, openfga>>

ReadModel ==
  /\ phase = "readModel" /\ ~cancelled
  /\ IF settings.model = None
     THEN GoTo("writeModel") /\ UNCHANGED <<client, engine>>
     ELSE /\ GoTo("syncRead")
          /\ engine' = [client EXCEPT !.model = settings.model]
          /\ client' = NoIds
  /\ UNCHANGED <<database, openfga>>

WriteModel ==
  /\ phase = "writeModel" /\ ~cancelled /\ Len(models) < MaxModel
  /\ models' = Append(models, client.store)
  /\ client' = [client EXCEPT !.model = Len(models) + 1]
  /\ GoTo("setModel")
  /\ UNCHANGED <<engine, database, stores, filled>>

WriteModelUnanswered ==
  /\ phase = "writeModel" /\ Len(models) + 1 < MaxModel
  /\ models' = Append(models, client.store)
  /\ GoTo("retry") /\ client' = NoIds
  /\ UNCHANGED <<engine, database, stores, filled>>

SetModel ==
  /\ phase = "setModel" /\ ~cancelled
  /\ settings' = [settings EXCEPT !.model = client.model]
  /\ engine' = client /\ client' = NoIds
  /\ GoTo("syncRead")
  /\ UNCHANGED <<recorded, openfga>>

-------------------------------------------------------------------------------
(* The startup Sync, of which any error is fatal *)

\* The queries fail when the context is done; the engine may be nil then.
\* Faulty variant of SyncRead: the context is not asked.
SyncReadRegardless ==
  /\ phase = "syncRead"
  /\ GoTo("syncWrite")
  /\ UNCHANGED <<client, engine, database, openfga>>
SyncRead ==
  /\ phase = "syncRead"
  /\ \/ ~cancelled /\ GoTo("syncWrite") /\ UNCHANGED <<client, engine, database, openfga>>
     \/ Fatal

\* What is written is the difference to what is recorded: everything, or, when
\* there is a record, nothing.  (The policy does not change here.)
SyncWrite ==
  /\ phase = "syncWrite"
  /\ \/ /\ ~cancelled
        /\ filled' = IF recorded = None THEN filled \cup {engine.store} ELSE filled
        /\ GoTo("syncRecord")
        /\ UNCHANGED <<client, engine, database, stores, models>>
     \/ Fatal

SyncRecord ==
  /\ phase = "syncRecord"
  /\ \/ /\ ~cancelled
        /\ recorded' = engine.store
        /\ GoTo("listen")
        /\ UNCHANGED <<client, engine, settings, openfga>>
     \/ Fatal

\* The address may be taken.  A signal that came before ends ListenAndServe as
\* soon as it is called, or shortly after.
Listen ==
  /\ phase = "listen"
  /\ \/ GoTo("serve") /\ UNCHANGED <<client, engine, database, openfga>>
     \/ Fatal

\* Shutdown closes the listener, ListenAndServe returns, and so does main.
Stop ==
  /\ phase \in {"listen", "serve"} /\ cancelled
  /\ End("stopped")

Bootstrap ==
  \/ ReadStore \/ CreateStore \/ CreateStoreUnanswered \/ SetStore
  \/ ReadModel \/ WriteModel \/ WriteModelUnanswered \/ SetModel \/ Fail

\* What the process does of its own accord.
Main == Open \/ Attempt \/ Retry \/ Bootstrap \/ SyncRead \/ SyncWrite \/ SyncRecord \/ Listen \/ Stop

StartupNext == Launch \/ Main \/ Signal \/ Kill

StartupSpec == StartupInit /\ [][StartupNext]_startupVars

-------------------------------------------------------------------------------
(* Properties *)

\* The types of the variables of the process, its settings and OpenFGA.
StartupTypeOK ==
  /\ phase \in Running \cup {"down"}
  /\ settings \in Ids /\ recorded \in 0..MaxStore
  /\ stores \in 0..MaxStore
  /\ models \in Seq(1..MaxStore) /\ Len(models) <= MaxModel
  /\ filled \subseteq 1..MaxStore
  /\ client \in Ids /\ engine \in Ids
  /\ cancelled \in BOOLEAN
  /\ end \in {"none", "killed", "stopped", "fatal"}

\* Whatever was created and lost before: a process that serves uses the store
\* and the model that the next one will use too; the model is one of that
\* store; and the store has the tuples of the policy.
ServesRemembered ==
  phase = "serve" =>
    /\ engine = settings
    /\ engine.store \in 1..stores /\ engine.store \in filled
    /\ engine.model \in 1..Len(models) /\ models[engine.model] = engine.store

\* synced_tuples, which has no column for the store, is about the store that is
\* remembered; and no tuples were written to one that is forgotten.
RecordOfRemembered ==
  /\ recorded # None => recorded = settings.store /\ recorded \in filled
  /\ filled \subseteq {settings.store}

\* A signal can end the loop around Bootstrap without an engine; nothing then
\* reaches the call that would need one.
EngineThere ==
  phase \in {"syncWrite", "syncRecord", "listen", "serve"} => engine # NoIds
===============================================================================
