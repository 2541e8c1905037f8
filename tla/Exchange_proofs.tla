----------------------------- MODULE Exchange_proofs --------------------------
(***************************************************************************)
(* Theorems about Exchange, for any names and any calls of the client.     *)
(***************************************************************************)
EXTENDS Exchange, Api_proofs, Startup_proofs

\* The process in Exchange is that of Startup: a call never moves it.
LEMMA StepOfProcess == [Next]_vars => [StartupNext]_startupVars
<1> SUFFICES ASSUME [Next]_vars PROVE [StartupNext]_startupVars
  OBVIOUS
<1>1. CASE Relaunch
  BY <1>1 DEF Relaunch, StartupNext
<1>2. CASE UNCHANGED vars
  BY <1>2 DEF vars
<1>3. CASE \/ OfCall(Send) \/ OfCall(Refused) \/ OfCall(Route) \/ OfCall(Decode)
           \/ OfCall(Identify) \/ OfCall(Return) \/ OfCall(Commit) \/ OfCall(Conclude)
           \/ OfCall(Respond) \/ OfCall(Receive) \/ OfCall(TimeOut) \/ OfCall(Leave)
  BY <1>3 DEF OfCall
<1>4. CASE \/ Process(Open) \/ Process(Attempt) \/ Process(Retry) \/ Process(Fail)
           \/ Process(ReadStore) \/ Process(CreateStore) \/ Process(CreateStoreUnanswered)
           \/ Process(SetStore) \/ Process(ReadModel) \/ Process(WriteModel)
           \/ Process(WriteModelUnanswered) \/ Process(SetModel)
  BY <1>4 DEF Process, StartupNext, Main, Bootstrap
<1>5. CASE \/ Process(SyncRead) \/ Process(SyncWrite) \/ Process(SyncRecord)
           \/ Process(Listen) \/ Process(Stop) \/ Process(Signal) \/ Process(Kill)
  BY <1>5 DEF Process, StartupNext, Main
<1> QED BY <1>1, <1>2, <1>3, <1>4, <1>5 DEF Next

\* Exchange implements Startup: what holds of the process alone holds of it
\* under any calls.
THEOREM ProcessUnderCalls == Spec => StartupSpec
<1>1. Init => StartupInit
  BY DEF Init
<1> QED BY <1>1, StepOfProcess, PTL DEF Spec, StartupSpec

\* Whatever is called and however often the process was interrupted: what serves
\* is what is remembered.
THEOREM ServesUnderCalls == Spec => []ServesRemembered
BY ProcessUnderCalls, ServesTheRemembered, PTL

-------------------------------------------------------------------------------
(* Steps of the call *)

\* What a step may be for the call.
LEMMA StepOfCall ==
  ASSUME [Next]_vars
  PROVE  \/ UNCHANGED exchangeVars \/ HangUp
         \/ Send \/ Refused \/ Route \/ Decode \/ Identify \/ Return \/ Commit
         \/ Conclude \/ Respond \/ Receive \/ TimeOut \/ Leave
<1>1. CASE Relaunch
  BY <1>1 DEF Relaunch
<1>2. CASE UNCHANGED vars
  BY <1>2 DEF vars
<1>3. CASE \/ OfCall(Send) \/ OfCall(Refused) \/ OfCall(Route) \/ OfCall(Decode)
           \/ OfCall(Identify) \/ OfCall(Return) \/ OfCall(Commit) \/ OfCall(Conclude)
           \/ OfCall(Respond) \/ OfCall(Receive) \/ OfCall(TimeOut) \/ OfCall(Leave)
  BY <1>3 DEF OfCall
<1>4. CASE \/ Process(Open) \/ Process(Attempt) \/ Process(Retry) \/ Process(Fail)
           \/ Process(ReadStore) \/ Process(CreateStore) \/ Process(CreateStoreUnanswered)
           \/ Process(SetStore) \/ Process(ReadModel) \/ Process(WriteModel)
           \/ Process(WriteModelUnanswered) \/ Process(SetModel)
           \/ Process(SyncRead) \/ Process(SyncWrite) \/ Process(SyncRecord)
           \/ Process(Listen) \/ Process(Stop) \/ Process(Signal) \/ Process(Kill)
  BY <1>4 DEF Process
<1> QED BY <1>1, <1>2, <1>3, <1>4 DEF Next

\* What is true of a change at each stage of the call that made it.
ChangeInv ==
  /\ stage \in {"idle", "sent", "routed", "decoded", "calling"} => ~changed
  /\ stage \in {"calling", "written", "returned"} => served = route
  /\ stage \in AtServer \cup {"idle"} => answer = NoAnswer
  /\ changed => served.op \in Mutations /\ answer.status \notin {401, 403, 409}
  /\ changed /\ stage = "returned" => result \in Service[served.op].after \cup {"ok"}

\* Every step of a call or of the process keeps what is known of its change.
LEMMA ChangeInductive == ChangeInv /\ [Next]_vars => ChangeInv'
<1> SUFFICES ASSUME ChangeInv, [Next]_vars PROVE ChangeInv'
  OBVIOUS
<1> USE DEF ChangeInv, AtServer, To
<1>1. CASE UNCHANGED exchangeVars
  BY <1>1 DEF exchangeVars
<1>2. CASE HangUp /\ ~UNCHANGED exchangeVars
  BY <1>2 DEF HangUp
<1>3. CASE Send \/ Refused \/ Receive \/ TimeOut
  BY <1>3 DEF Send, Refused, Receive, TimeOut
<1>4. CASE Route
  BY <1>4 DEF Route, Write
<1>5. CASE Decode
  BY <1>5 DEF Decode, Write
<1>6. CASE Identify
  BY <1>6 DEF Identify, Write
<1>7. CASE Return
  BY <1>7 DEF Return
<1>8. CASE Commit
  <2>1. NoAnswer.status = 0
    BY DEF NoAnswer, Answer
  <2> QED BY <1>8, <2>1 DEF Commit
<1>9. CASE Conclude
  BY <1>9 DEF Conclude
<1>10. CASE Respond
  <2>1. stage = "returned" /\ served = route /\ UNCHANGED <<changed, served, result, route>>
    BY <1>10 DEF Respond
  <2>2. CASE Write(Written(route.op, Handled(route.op, result)))
    <3>1. changed => Written(route.op, Handled(route.op, result)).status \in Told \cup {500}
      BY <2>1, WrittenTold
    <3>2. changed => answer'.status \notin {401, 403, 409}
      BY <2>2, <3>1 DEF Write, Told
    <3>3. stage' = "answered"
      BY <2>2 DEF Write
    <3> QED BY <2>1, <3>2, <3>3
  <2>3. CASE To("over") /\ UNCHANGED answer
    BY <2>1, <2>3
  <2> QED BY <1>10, <2>2, <2>3 DEF Respond
<1>11. CASE Leave
  BY <1>11 DEF Leave
<1> QED BY StepOfCall, <1>1, <1>2, <1>3, <1>4, <1>5, <1>6, <1>7, <1>8, <1>9, <1>10, <1>11

\* A refusal (401, 403 or 409) is never the answer to a call that has changed
\* something, although its Sync can still have failed.
THEOREM RefusalsChangeNothing == Spec => []RefusalChangesNothing
<1>1. Init => ChangeInv
  BY DEF Init, ChangeInv, AtServer
<1>2. ChangeInv => RefusalChangesNothing
  BY DEF ChangeInv, RefusalChangesNothing
<1> QED BY <1>1, <1>2, ChangeInductive, PTL DEF Spec

-------------------------------------------------------------------------------
(* Identity *)

\* A redirect keeps the header that names the caller.
LEMMA RedirectionKeepsUser ==
  ASSUME NEW q \in Redirections(request),
         "user" \in DOMAIN request
  PROVE  "user" \in DOMAIN q /\ q.user = request.user
BY DEF Redirections

\* A call by nobody in particular.
Anonymous == call # NoCall /\ call.user = ""

\* How far such a call gets, and what its caller may have been told.
UserInv ==
  /\ stage = "idle" => served = NoCall /\ told = "nothing"
  /\ stage \in AtServer => "user" \in DOMAIN request /\ request.user = call.user
  /\ stage \in AtServer \ {"sent"} => route.op \in DOMAIN Routes
  /\ Anonymous => \/ served.op = "GetHealth"
                  \/ /\ served = NoCall /\ told # "success"
                     /\ stage \notin {"calling", "written", "returned"}
                     /\ stage = "answered" => answer.status \in {400, 401, 404, 405, 500}

\* Every step keeps what is known of the caller.
LEMMA UserInductive == UserInv /\ [Next]_vars => UserInv'
<1> SUFFICES ASSUME UserInv, [Next]_vars PROVE UserInv'
  OBVIOUS
<1> USE DEF UserInv, AtServer, To, Tell
<1>0. UNCHANGED call => (Anonymous' <=> Anonymous)
  BY DEF Anonymous
<1>1. CASE UNCHANGED exchangeVars
  BY <1>1, <1>0 DEF exchangeVars
<1>2. CASE HangUp /\ ~UNCHANGED exchangeVars
  BY <1>2, <1>0 DEF HangUp
<1>3. CASE Send
  <2>1. stage = "idle" /\ stage' = "sent" /\ UNCHANGED <<route, served, answer, told>>
    BY <1>3 DEF Send
  <2>2. "user" \in DOMAIN request' /\ request'.user = call'.user
    BY <1>3 DEF Send, NewRequest
  <2> QED BY <2>1, <2>2
<1>4. CASE Refused \/ TimeOut
  BY <1>4, <1>0 DEF Refused, TimeOut
<1>5. CASE Route
  <2>1. stage = "sent" /\ UNCHANGED <<call, served, told>>
    BY <1>5 DEF Route
  <2>2. CASE request' \in Redirections(request) /\ UNCHANGED <<stage, route, answer>>
    BY <2>1, <2>2, <1>0, RedirectionKeepsUser
  <2>3. ASSUME NEW op \in Routed(request), UNCHANGED request,
               IF Binds(op, request)
               THEN /\ route' = [op |-> op, args |-> PathValues(op, request.path)]
                    /\ To("routed") /\ UNCHANGED answer
               ELSE Write(Text(400)) /\ UNCHANGED route
        PROVE UserInv'
    <3>1. op \in DOMAIN Routes
      BY DEF Routed, OnPath
    <3> QED BY <2>1, <2>3, <3>1, <1>0 DEF Write, Text, Answer
  <2>4. ASSUME Write(Text(IF OnPath(request.path) # {} THEN 405 ELSE 404)),
               UNCHANGED <<request, route>>
        PROVE UserInv'
    BY <2>1, <2>4, <1>0 DEF Write, Text, Answer
  <2> QED BY <1>5, <2>2, <2>3, <2>4 DEF Route
<1>6. CASE Decode
  BY <1>6, <1>0 DEF Decode, Write, Text, Answer
<1>7. CASE Identify
  <2>1. /\ stage = "decoded" /\ UNCHANGED <<call, request, route, told>>
        /\ request.user = call.user /\ route.op \in DOMAIN Routes
    BY <1>7 DEF Identify
  <2>2. CASE Admits(route.op, request.user)
    <3>1. served' = route /\ stage' = "calling"
      BY <1>7, <2>2 DEF Identify
    <3>2. Anonymous => route.op = "GetHealth"
      BY <2>1, <2>2 DEF Admits, Anonymous
    <3> QED BY <2>1, <3>1, <3>2, <1>0
  <2>3. CASE ~Admits(route.op, request.user)
    <3>1. route.op # "GetHealth"
      BY <2>3 DEF Admits
    <3>2. /\ stage' = "answered" /\ UNCHANGED served
          /\ answer' = Written(route.op, unauthorized(route.op))
      BY <1>7, <2>3 DEF Identify, Write
    <3>3. answer'.status \in {401, 500}
      BY <2>1, <3>1, <3>2, UnauthorizedTold
    <3> QED BY <2>1, <3>2, <3>3, <1>0
  <2> QED BY <2>2, <2>3
<1>8. CASE Return \/ Commit \/ Conclude
  BY <1>8, <1>0 DEF Return, Commit, Conclude
<1>9. CASE Respond
  BY <1>9, <1>0 DEF Respond, Write
<1>10. CASE Receive
  <2>1. /\ stage = "answered" /\ stage' = "over"
        /\ UNCHANGED <<call, request, route, served, answer>>
        /\ told' = IF told = "nothing" THEN Printed(answer) ELSE told
    BY <1>10 DEF Receive
  <2>2. answer.status \in {400, 401, 404, 405, 500} => Printed(answer) = "error"
    BY DEF Printed
  <2> QED BY <2>1, <2>2, <1>0
<1>11. CASE Leave
  BY <1>11 DEF Leave, NoCall
<1> QED BY StepOfCall, <1>1, <1>2, <1>3, <1>4, <1>5, <1>6, <1>7, <1>8, <1>9, <1>10, <1>11

\* Whatever is called without an identity, through redirects and all: only
\* GetHealth reaches the service, and no other call is told as a success.
THEOREM OnlyTheIdentified == Spec => []Identified
<1>1. Init => UserInv
  BY DEF Init, UserInv, AtServer
<1>2. UserInv => Identified
  <2>1. NoCall.op = "none"
    BY DEF NoCall
  <2>2. UserInv /\ Anonymous =>
          served.op \in {"none", "GetHealth"} /\ (told = "success" => served.op = "GetHealth")
    BY <2>1 DEF UserInv
  <2> QED BY <2>2 DEF Identified, Anonymous
<1> QED BY <1>1, <1>2, UserInductive, PTL DEF Spec

-------------------------------------------------------------------------------
(* Success *)

\* What the service was asked to write and is told as a success is done to its end.
ServedIsDone == served.op \in Mutations /\ told = "success" => changed /\ result = "ok"

Failing == {400, 401, 403, 404, 405, 409, 500}

DoneInv ==
  /\ stage \in AtServer \cup {"idle"} => told # "success"
  /\ stage \in {"idle", "sent", "routed", "decoded"} => served = NoCall
  /\ stage \in {"calling", "written", "returned"} => served = route
  /\ stage = "written" => changed
  /\ stage = "returned" /\ served.op \in Mutations =>
       result \in Errors \/ (result = "ok" /\ changed)
  /\ stage = "answered" /\ served.op \in Mutations =>
       answer.status \in Failing \/ (result = "ok" /\ changed)
  /\ ServedIsDone

\* Every step keeps what a success stands on.
LEMMA DoneInductive == DoneInv /\ [Next]_vars => DoneInv'
<1> SUFFICES ASSUME DoneInv, [Next]_vars PROVE DoneInv'
  OBVIOUS
<1> USE DEF DoneInv, ServedIsDone, AtServer, To, Tell
<1>0. NoCall.op \notin Mutations
  BY MutationsAre DEF NoCall
<1>1. CASE UNCHANGED exchangeVars
  BY <1>1 DEF exchangeVars
<1>2. CASE HangUp /\ ~UNCHANGED exchangeVars
  BY <1>2 DEF HangUp
<1>3. CASE Send \/ Refused \/ TimeOut
  BY <1>3, <1>0 DEF Send, Refused, TimeOut
<1>4. CASE Route
  BY <1>4, <1>0 DEF Route, Write
<1>5. CASE Decode
  BY <1>5, <1>0 DEF Decode, Write
<1>6. CASE Identify
  BY <1>6, <1>0 DEF Identify, Write
<1>7. CASE Return
  <2>1. served.op \in Mutations => result' \in Errors
    BY <1>7, FailureOfWrite DEF Return
  <2> QED BY <1>7, <2>1 DEF Return
<1>8. CASE Commit
  BY <1>8 DEF Commit
<1>9. CASE Conclude
  <2>1. served.op \in Mutations => result' \in Errors \cup {"ok"}
    BY <1>9, FailureOfWrite DEF Conclude
  <2> QED BY <1>9, <2>1 DEF Conclude
<1>10. CASE Respond
  <2>1. stage = "returned" /\ served = route /\ UNCHANGED <<changed, served, result, route>>
    BY <1>10 DEF Respond
  <2>2. CASE Write(Written(route.op, Handled(route.op, result))) /\ UNCHANGED told
    <3>1. served.op \in Mutations /\ result \in Errors => answer'.status \in Failing
      BY <2>1, <2>2, WrittenFailure DEF Write, Failing
    <3> QED BY <2>1, <2>2, <3>1 DEF Write
  <2>3. CASE To("over") /\ Tell("error")
    BY <2>1, <2>3
  <2> QED BY <1>10, <2>2, <2>3 DEF Respond
<1>11. CASE Receive
  <2>1. /\ stage = "answered" /\ stage' = "over"
        /\ UNCHANGED <<served, changed, result, answer>>
        /\ told' = IF told = "nothing" THEN Printed(answer) ELSE told
    BY <1>11 DEF Receive
  <2>2. answer.status \in Failing => Printed(answer) = "error"
    BY DEF Printed, Failing
  <2> QED BY <2>1, <2>2
<1>12. CASE Leave
  BY <1>12, <1>0 DEF Leave
<1> QED BY StepOfCall, <1>1, <1>2, <1>3, <1>4, <1>5, <1>6, <1>7, <1>8, <1>9, <1>10, <1>11, <1>12

\* Whatever fails, is interrupted or comes too late: a write of the service that
\* is told as a success has been made, and so has all that follows it.
THEOREM SuccessesAreDone == Spec => []ServedIsDone
<1>1. Init => DoneInv
  <2>1. NoCall.op \notin Mutations
    BY MutationsAre DEF NoCall
  <2> QED BY <2>1 DEF Init, DoneInv, ServedIsDone, AtServer
<1>2. DoneInv => ServedIsDone
  BY DEF DoneInv
<1> QED BY <1>1, <1>2, DoneInductive, PTL DEF Spec

-------------------------------------------------------------------------------
(* Answers *)

\* While the server works on a call, the process only goes on serving or ends.
LEMMA ServingEnds ==
  ASSUME phase = "serve", [Next]_vars
  PROVE  phase' = "serve" \/ (phase' = "down" /\ HangUp)
<1>0. UNCHANGED startupVars => phase' = "serve"
  BY DEF startupVars, processVars
<1>1. CASE Relaunch
  BY <1>1 DEF Relaunch, Launch
<1>2. CASE UNCHANGED vars
  BY <1>2, <1>0 DEF vars
<1>3. CASE \/ OfCall(Send) \/ OfCall(Refused) \/ OfCall(Route) \/ OfCall(Decode)
           \/ OfCall(Identify) \/ OfCall(Return) \/ OfCall(Commit) \/ OfCall(Conclude)
           \/ OfCall(Respond) \/ OfCall(Receive) \/ OfCall(TimeOut) \/ OfCall(Leave)
  BY <1>3, <1>0 DEF OfCall
<1>4. CASE \/ Process(Open) \/ Process(Attempt) \/ Process(Retry) \/ Process(Fail)
           \/ Process(ReadStore) \/ Process(CreateStore) \/ Process(CreateStoreUnanswered)
           \/ Process(SetStore) \/ Process(ReadModel) \/ Process(WriteModel)
           \/ Process(WriteModelUnanswered) \/ Process(SetModel)
           \/ Process(SyncRead) \/ Process(SyncWrite) \/ Process(SyncRecord)
           \/ Process(Listen)
  BY <1>4 DEF Process, Open, Attempt, Retry, Fail, ReadStore, CreateStore,
     CreateStoreUnanswered, SetStore, ReadModel, WriteModel, WriteModelUnanswered, SetModel,
     SyncRead, SyncWrite, SyncRecord, Listen
<1>5. CASE Process(Signal) \/ Process(Stop) \/ Process(Kill)
  BY <1>5 DEF Process, Signal, Stop, Kill, End
<1> QED BY <1>1, <1>2, <1>3, <1>4, <1>5 DEF Next

\* The server works on a call only while the process serves.
Serving == stage \in AtServer => phase = "serve"

\* Every step keeps the server's work within the life of the process.
LEMMA ServingInductive == Serving /\ [Next]_vars => Serving'
<1> SUFFICES ASSUME Serving, [Next]_vars PROVE Serving'
  OBVIOUS
<1>1. CASE stage \in AtServer
  <2>1. phase' = "serve" \/ HangUp
    BY <1>1, ServingEnds DEF Serving
  <2>2. HangUp => stage' = "over"
    BY <1>1 DEF HangUp, To
  <2> QED BY <2>1, <2>2 DEF Serving, AtServer
<1>2. CASE stage \notin AtServer
  <2>1. CASE UNCHANGED exchangeVars \/ HangUp
    BY <1>2, <2>1 DEF exchangeVars, HangUp, Serving
  <2>2. CASE Send
    <3>1. phase = "serve" /\ stage = "idle" /\ stage' = "sent"
      BY <2>2 DEF Send, To
    <3>2. ~HangUp
      BY <1>2, <3>1 DEF HangUp, exchangeVars
    <3> QED BY <3>1, <3>2, ServingEnds DEF Serving
  <2>3. CASE Refused \/ Receive \/ TimeOut \/ Leave
    BY <1>2, <2>3 DEF Refused, Receive, TimeOut, Leave, To, AtServer, Serving
  <2>4. ~Route /\ ~Decode /\ ~Identify /\ ~Return /\ ~Commit /\ ~Conclude /\ ~Respond
    BY <1>2 DEF Route, Decode, Identify, Return, Commit, Conclude, Respond, AtServer
  <2> QED BY StepOfCall, <2>1, <2>2, <2>3, <2>4
<1> QED BY <1>1, <1>2

\* The types of a call, and what is known of its answer at each stage.
AnswerInv ==
  /\ stage \in AtServer \cup {"idle", "answered", "over"}
  /\ call \in Calls \/ call = NoCall
  /\ route.op \in Ops \cup {"none"} /\ served \in {route, NoCall}
  /\ changed \in BOOLEAN
  /\ result \in Errors \cup {"none", "ok"}
  /\ answer.status \in Statuses \cup {0, 405, 500}
  /\ answer.body \in {"none", "text", "json"}
  /\ told \in {"nothing", "success", "error"}
  /\ stage \in {"routed", "decoded", "calling", "written", "returned"} => route.op \in Ops
  /\ stage \in {"calling", "written", "returned"} => served = route
  /\ stage \in {"idle", "sent", "routed", "decoded"} => served = NoCall
  /\ stage = "returned" => result \in Errors \cup {"ok"}
  /\ stage \in AtServer \cup {"idle"} => answer = NoAnswer
  /\ Understood

\* Every step keeps the types, and what is known of the answer.
LEMMA AnswerInductive == AnswerInv /\ [Next]_vars => AnswerInv'
<1> SUFFICES ASSUME AnswerInv, [Next]_vars PROVE AnswerInv'
  OBVIOUS
<1> USE DEF AnswerInv, AtServer, To, Tell, Understood
<1>a. NoCall.op = "none" /\ "none" \notin Ops
  BY OpsAre DEF NoCall
<1>b. NoAnswer.status = 0 /\ NoAnswer.body = "none"
  BY DEF NoAnswer, Answer
<1>c. \A status : Text(status).status = status /\ Text(status).body = "text"
  BY DEF Text, Answer
<1>1. CASE UNCHANGED exchangeVars
  BY <1>1 DEF exchangeVars
<1>2. CASE HangUp /\ ~UNCHANGED exchangeVars
  BY <1>2 DEF HangUp
<1>3. CASE Send
  BY <1>3 DEF Send
<1>4. CASE Refused \/ TimeOut
  BY <1>4 DEF Refused, TimeOut
<1>5. CASE Route
  <2>1. stage = "sent" /\ UNCHANGED <<call, served, changed, result, told>>
    BY <1>5 DEF Route
  <2>2. CASE UNCHANGED <<stage, route, answer>>
    BY <2>1, <2>2
  <2>3. ASSUME NEW op \in Routed(request),
               route' = [op |-> op, args |-> PathValues(op, request.path)],
               stage' = "routed", UNCHANGED answer
        PROVE  AnswerInv'
    <3>1. op \in Ops
      BY RoutesAre DEF Routed, OnPath
    <3>2. route'.op \in Ops
      BY <2>3, <3>1
    <3> QED BY <2>1, <2>3, <3>2
  <2>4. ASSUME NEW status \in {400, 404, 405}, Write(Text(status)), UNCHANGED route
        PROVE  AnswerInv'
    BY <2>1, <2>4, <1>c DEF Write, Statuses
  <2> QED BY <1>5, <2>2, <2>3, <2>4 DEF Route
<1>6. CASE Decode
  BY <1>6, <1>c DEF Decode, Write, Statuses
<1>7. CASE Identify
  <2>1. stage = "decoded" /\ UNCHANGED <<call, request, route, changed, result, told>>
    BY <1>7 DEF Identify
  <2>2. CASE served' = route /\ stage' = "calling" /\ UNCHANGED answer
    BY <2>1, <2>2
  <2>3. CASE Write(Written(route.op, unauthorized(route.op))) /\ UNCHANGED served
    BY <2>1, <2>3, WrittenUnauthorized DEF Write, Statuses
  <2> QED BY <1>7, <2>2, <2>3 DEF Identify
<1>8. CASE Return \/ Commit \/ Conclude
  <2>1. /\ stage \in {"calling", "written"} /\ stage' \in {"written", "returned"}
        /\ UNCHANGED <<call, request, route, served, answer, told>>
        /\ changed' \in BOOLEAN
    <3>1. CASE Return
      BY <3>1 DEF Return
    <3>2. CASE Commit
      BY <3>2 DEF Commit
    <3>3. CASE Conclude
      BY <3>3 DEF Conclude
    <3> QED BY <1>8, <3>1, <3>2, <3>3
  <2>2. result' \in Errors \cup {"ok"} \/ (stage' = "written" /\ UNCHANGED result)
    BY <1>8, ServiceErrors DEF Return, Commit, Conclude
  <2> QED BY <2>1, <2>2
<1>9. CASE Respond
  <2>1. stage = "returned" /\ UNCHANGED <<call, request, route, served, changed, result>>
    BY <1>9 DEF Respond
  <2>2. CASE Write(Written(route.op, Handled(route.op, result))) /\ UNCHANGED told
    BY <2>1, <2>2, WrittenUnderstood DEF Write
  <2>3. CASE stage' = "over" /\ Tell("error") /\ UNCHANGED answer
    BY <2>1, <2>3
  <2> QED BY <1>9, <2>2, <2>3 DEF Respond
<1>10. CASE Receive
  <2>1. Printed(answer) \in {"success", "error"}
    BY DEF Printed
  <2> QED BY <1>10, <2>1 DEF Receive
<1>11. CASE Leave
  BY <1>11, <1>a, <1>b DEF Leave
<1> QED BY StepOfCall, <1>1, <1>2, <1>3, <1>4, <1>5, <1>6, <1>7, <1>8, <1>9, <1>10, <1>11

\* It holds before the call.
LEMMA AnswerInit == Init => AnswerInv /\ Serving
<1>1. NoCall.op = "none"
  BY DEF NoCall
<1>2. NoAnswer.status = 0 /\ NoAnswer.body = "none"
  BY DEF NoAnswer, Answer
<1> QED BY <1>1, <1>2 DEF Init, AnswerInv, Serving, AtServer, Understood

\* The state of a call stays of its types, whatever is called, and the server works
\* on it only while the process serves.
THEOREM ExchangeTypeCorrect == Spec => []ExchangeTypeOK
<1>1. AnswerInv /\ Serving => ExchangeTypeOK
  BY DEF AnswerInv, Serving, ExchangeTypeOK, Statuses
<1> QED BY <1>1, AnswerInit, AnswerInductive, ServingInductive, PTL DEF Spec

\* Every body that a handler writes is decoded by the client for that operation:
\* the generated client and server agree on the statuses.
THEOREM AnswersUnderstood == Spec => []Understood
<1>1. AnswerInv => Understood
  BY DEF AnswerInv
<1> QED BY <1>1, AnswerInit, AnswerInductive, PTL DEF Spec

-------------------------------------------------------------------------------
(* The call that is served *)

\* The calls have values for their templates.
LEMMA CallsWellMade ==
  ASSUME NEW c \in Calls
  PROVE  WellMade(c, Names)
<1>1. c \in [op : Ops, args : Seq(Names), body : {"none", "text", "json"},
             ifMatch : BOOLEAN, user : {"", "someone"}]
  BY CallsAssumption
<1> QED BY <1>1, ArityAssumption DEF WellMade

\* What is known of the request, the route and the service of a call.
CalledInv ==
  /\ stage \in AtServer => call \in Calls
  /\ stage = "sent" => /\ {"path", "method"} \subseteq DOMAIN request
                       /\ Asks(request.method, request.path, call)
  /\ stage \in {"routed", "decoded"} => MeantBy(route, call)
  /\ served # NoCall => MeantBy(served, call)

\* Every step, redirects included, keeps what the request asks for.
LEMMA CalledInductive == AnswerInv /\ CalledInv /\ [Next]_vars => CalledInv'
<1> SUFFICES ASSUME AnswerInv, CalledInv, [Next]_vars PROVE CalledInv'
  OBVIOUS
<1>0. /\ stage \in AtServer => call \in Calls
      /\ stage = "sent" => /\ {"path", "method"} \subseteq DOMAIN request
                           /\ Asks(request.method, request.path, call)
      /\ stage \in {"routed", "decoded"} => MeantBy(route, call)
      /\ served # NoCall => MeantBy(served, call)
      /\ stage \in {"idle", "sent", "routed", "decoded"} => served = NoCall
  BY DEF CalledInv, AnswerInv
<1> USE DEF AtServer, To
<1>1. CASE UNCHANGED exchangeVars
  BY <1>0, <1>1 DEF exchangeVars, CalledInv
<1>2. CASE HangUp /\ ~UNCHANGED exchangeVars
  BY <1>0, <1>2 DEF HangUp, CalledInv
<1>3. CASE Send
  <2>1. PICK c \in Calls : call' = c /\ request' = NewRequest(c)
    BY <1>3 DEF Send
  <2>2. stage = "idle" /\ stage' = "sent" /\ UNCHANGED served
    BY <1>3 DEF Send
  <2>3. {"path", "method"} \subseteq DOMAIN request' /\ Asks(request'.method, request'.path,
        call')
    BY <2>1, SentAsks, CallsWellMade
  <2> QED BY <1>0, <2>1, <2>2, <2>3 DEF CalledInv
<1>4. CASE Refused \/ Receive
  BY <1>0, <1>4 DEF Refused, Receive, CalledInv
<1>5. CASE TimeOut
  BY <1>0, <1>5 DEF TimeOut, CalledInv
<1>6. CASE Leave
  BY <1>0, <1>6 DEF Leave, CalledInv
<1>7. CASE Route
  <2>1. /\ stage = "sent" /\ UNCHANGED <<call, served, changed, result, told>>
        /\ call \in Calls /\ call.op \in Ops /\ served = NoCall
    BY <1>0, <1>7, CallsWellMade, ArgsOf DEF Route
  <2>2. CASE /\ Clean(request.path) # request.path
             /\ request' \in Redirections(request)
             /\ UNCHANGED <<stage, route, answer>>
    <3>1. /\ {"path", "method"} \subseteq DOMAIN request'
          /\ request'.path = Clean(request.path)
          /\ request'.method \in {request.method, "GET"}
      BY <1>0, <2>1, <2>2 DEF Redirections
    <3>2. Asks(request'.method, request'.path, call)
      BY <1>0, <2>1, <2>2, <3>1, RedirectedAsks
    <3> QED BY <1>0, <2>1, <2>2, <3>1, <3>2 DEF CalledInv
  <2>3. ASSUME Clean(request.path) = request.path, NEW op \in Routed(request),
               route' = [op |-> op, args |-> PathValues(op, request.path)], stage' = "routed"
        PROVE  CalledInv'
    <3>1. MeantBy(route', call)
      BY <1>0, <2>1, <2>3, RoutedAsMeant
    <3> QED BY <2>1, <2>3, <3>1 DEF CalledInv
  <2>4. CASE stage' = "answered"
    BY <2>1, <2>4 DEF CalledInv
  <2> QED BY <1>7, <2>2, <2>3, <2>4 DEF Route, Write
<1>8. CASE Decode
  BY <1>0, <1>8 DEF Decode, Write, CalledInv
<1>9. CASE Identify
  BY <1>0, <1>9 DEF Identify, Write, CalledInv
<1>10. CASE Return \/ Commit \/ Conclude
  BY <1>0, <1>10 DEF Return, Commit, Conclude, CalledInv
<1>11. CASE Respond
  BY <1>0, <1>11 DEF Respond, Write, CalledInv
<1> QED BY StepOfCall, <1>1, <1>2, <1>3, <1>4, <1>5, <1>6, <1>7, <1>8, <1>9, <1>10, <1>11

\* PermissionService is called with what the command says.
LEMMA MeantIs == CalledInv => CalledAsMeant
<1>1. \A c : ~Usual(c) => \E i \in DOMAIN c.args : c.args[i] \in {"", ".", ".."}
  BY DEF Usual, Ordinary
<1> QED BY <1>1 DEF CalledInv, CalledAsMeant, MeantBy

\* Before the call nothing is asked for.
LEMMA CalledInit == Init => CalledInv
BY DEF Init, CalledInv, AtServer

\* The service is called with the operation and the values of the command; only
\* when a name in it is "", "." or ".." can it be another, and then both only read.
THEOREM CallsAsMeant == Spec => []CalledAsMeant
<1> QED BY AnswerInit, AnswerInductive, CalledInit, CalledInductive, MeantIs, PTL DEF Spec

-------------------------------------------------------------------------------
(* Success and the call *)

\* A success is only told of what the service was called with.
HeardInv ==
  /\ stage \in AtServer \cup {"idle"} => told # "success"
  /\ stage = "answered" /\ served = NoCall => answer.status \in {400, 401, 404, 405, 500}
  /\ served = NoCall => told # "success"

\* Every step keeps what the client has heard.
LEMMA HeardInductive == AnswerInv /\ HeardInv /\ [Next]_vars => HeardInv'
<1> SUFFICES ASSUME AnswerInv, HeardInv, [Next]_vars PROVE HeardInv'
  OBVIOUS
<1> USE DEF HeardInv, AtServer, To, Tell
<1>0. /\ stage \in {"idle", "sent", "routed", "decoded"} => served = NoCall
      /\ stage \in {"routed", "decoded", "calling", "written", "returned"} => route.op \in Ops
      /\ stage \in {"calling", "written", "returned"} => served = route
  BY DEF AnswerInv
<1>a. NoCall.op = "none" /\ "none" \notin Ops
  BY OpsAre DEF NoCall
<1>b. \A status : Text(status).status = status
  BY DEF Text, Answer
<1>1. CASE UNCHANGED exchangeVars
  BY <1>1 DEF exchangeVars
<1>2. CASE HangUp /\ ~UNCHANGED exchangeVars
  BY <1>2 DEF HangUp
<1>3. CASE Send \/ Refused \/ TimeOut
  BY <1>3 DEF Send, Refused, TimeOut
<1>4. CASE Route \/ Decode
  BY <1>4, <1>b DEF Route, Decode, Write
<1>5. CASE Identify
  <2>1. stage = "decoded" /\ served = NoCall /\ route.op \in Ops /\ UNCHANGED told
    BY <1>0, <1>5 DEF Identify
  <2>2. CASE Admits(route.op, request.user)
    <3>1. served' = route /\ stage' = "calling"
      BY <1>5, <2>2 DEF Identify
    <3> QED BY <1>a, <2>1, <3>1
  <2>3. CASE ~Admits(route.op, request.user)
    <3>1. stage' = "answered" /\ answer' = Written(route.op, unauthorized(route.op))
      BY <1>5, <2>3 DEF Identify, Write
    <3>2. route.op # "GetHealth"
      BY <2>3 DEF Admits
    <3>3. answer'.status \in {401, 500}
      BY <2>1, <3>1, <3>2, RoutesAre, UnauthorizedTold
    <3> QED BY <2>1, <3>1, <3>3
  <2> QED BY <2>2, <2>3
<1>6. CASE Return \/ Commit \/ Conclude
  BY <1>6 DEF Return, Commit, Conclude
<1>7. CASE Respond
  <2>1. stage = "returned" /\ UNCHANGED served /\ served # NoCall
    BY <1>0, <1>7, <1>a DEF Respond
  <2>2. stage' \in {"answered", "over"} /\ told' \in {told, "error"}
    BY <1>7 DEF Respond, Write
  <2> QED BY <2>1, <2>2
<1>8. CASE Receive
  <2>1. answer.status \in {400, 401, 404, 405, 500} => Printed(answer) = "error"
    BY DEF Printed
  <2> QED BY <1>8, <2>1 DEF Receive
<1>9. CASE Leave
  BY <1>9 DEF Leave
<1> QED BY StepOfCall, <1>1, <1>2, <1>3, <1>4, <1>5, <1>6, <1>7, <1>8, <1>9

\* What the client has heard, is served and is done is the call's.
LEMMA HeardIsDone == AnswerInv /\ CalledInv /\ DoneInv /\ HeardInv => SuccessIsDone
<1> SUFFICES ASSUME CalledInv, ServedIsDone, HeardInv, told = "success", call.op \in Mutations
             PROVE  served.op = call.op /\ changed /\ result = "ok"
  BY DEF SuccessIsDone, DoneInv
<1>1. served # NoCall
  BY DEF HeardInv
<1>2. served.op = call.op
  BY <1>1 DEF CalledInv, MeantBy
<1> QED BY <1>2 DEF ServedIsDone

\* Before the call nothing is heard.
LEMMA HeardInit == Init => HeardInv
BY DEF Init, HeardInv, AtServer

\* A command that changes something and is told as a success has been done: the
\* service made that very change and all that follows it.
THEOREM SuccessesAreOfTheCall == Spec => []SuccessIsDone
<1>1. Init => DoneInv
  <2>1. NoCall.op \notin Mutations
    BY MutationsAre DEF NoCall
  <2> QED BY <2>1 DEF Init, DoneInv, ServedIsDone, AtServer
<1> QED BY <1>1, AnswerInit, AnswerInductive, CalledInit, CalledInductive, HeardInit,
           HeardInductive, DoneInductive, HeardIsDone, PTL DEF Spec
===============================================================================
