------------------------------- MODULE Exchange -------------------------------
(***************************************************************************)
(* One call of the client, from the command to what is told of it: over    *)
(* the generated client (ApiClient), the router and the generated server   *)
(* (ApiServer), the handlers (HttpServer) and the service (Outcomes), in a *)
(* process that starts and ends as in Startup.                             *)
(*                                                                         *)
(* The client is that of cmd/permissions-demo/main.go, or another user of  *)
(* the generated client, which also reaches the three operations that have *)
(* no command and may leave out what the commands always send.             *)
(***************************************************************************)
EXTENDS Startup, ApiClient, Outcomes, FiniteSets

CONSTANTS
  Names,         \* the names and ids that a call takes, as strings
  Calls          \* the calls that are made

ASSUME CallsAssumption ==
  Calls \subseteq [op : Ops, args : Seq(Names), body : {"none", "text", "json"},
                   ifMatch : BOOLEAN, user : {"", "someone"}]
ASSUME ArityAssumption == \A c \in Calls : Len(c.args) = Arity(c.op)

VARIABLES
  stage,         \* how far the call is
  call,          \* the call
  request,       \* the request on the wire
  route,         \* the operation and the path values that the server made of it
  served,        \* what the service was called with
  changed,       \* whether the service has changed state
  result,        \* what it returned: "ok" or an error
  answer,        \* what the server wrote
  told           \* what the client says: "nothing" yet, "success" or "error"

exchangeVars == <<stage, call, request, route, served, changed, result, answer, told>>
vars == <<startupVars, exchangeVars>>

NoCall == [op |-> "none", args |-> <<>>]
NoRequest == [method |-> "none", path |-> <<>>, body |-> "none", ifMatch |-> FALSE, user |-> ""]
NoAnswer == Answer(0, "none")

Init ==
  /\ StartupInit
  /\ stage = "idle" /\ call = NoCall /\ request = NoRequest
  /\ route = NoCall /\ served = NoCall /\ changed = FALSE /\ result = "none"
  /\ answer = NoAnswer /\ told = "nothing"

\* Where the server works on the call.
AtServer == {"sent", "routed", "decoded", "calling", "written", "returned"}

To(next) == stage' = next
Tell(what) == told' = IF told = "nothing" THEN what ELSE told

\* The server writes an answer.
Write(a) == answer' = a /\ To("answered")

-------------------------------------------------------------------------------
(* The client *)

\* The commands of run, by their first word.
Commands ==
  [permissions |-> {"ListPermissions"},
   users |-> {"ListUsers", "CreateUser"},
   groups |-> {"ListGroups", "CreateGroup", "AddGroupMember", "RemoveGroupMember"},
   roles |-> {"ListRoles", "GetRole", "CreateRole", "PreviewRoleUpdate", "UpdateRole"},
   bindings |-> {"ListBindings", "DeleteBinding", "CreateBinding"},
   grant |-> {"GrantLegacyAccess"},
   revoke |-> {"RevokeLegacyAccess"},
   can |-> {"CheckAuthorization"},
   resources |-> {"ListResources", "CreateResource", "DeleteResource"},
   config |-> {"GetApplicationConfig", "UpdateApplicationConfig"},
   ssh |-> {"SSHUnit", "SSHMachine"}]

\* Commands always send the typed body and the revision.
IsCommand(c) == /\ \E word \in DOMAIN Commands : c.op \in Commands[word]
                /\ c.body = "json" /\ c.ifMatch

\* The call is made.
Send ==
  /\ stage = "idle" /\ phase = "serve"
  /\ \E c \in Calls : call' = c /\ request' = NewRequest(c)
  /\ To("sent")
  /\ UNCHANGED <<route, served, changed, result, answer, told>>

\* Nobody listens: the connection is refused, whatever the call is.
Refused ==
  /\ stage = "idle" /\ phase # "serve"
  /\ To("over") /\ Tell("error")
  /\ UNCHANGED <<call, request, route, served, changed, result, answer>>

\* printResponse: what a command says of the answer.
Printed(a) ==
  IF a.status >= 400 THEN "error"
  ELSE IF a.body = "none" THEN "success"
  ELSE IF a.body = "json" THEN "success"
  ELSE "error"

Receive ==
  /\ stage = "answered"
  /\ Tell(Printed(answer))
  /\ To("over")
  /\ UNCHANGED <<call, request, route, served, changed, result, answer>>

\* Faulty variant of TimeOut: the http.Client has no Timeout.
NoTimeOut == FALSE /\ UNCHANGED exchangeVars
\* The http.Client gives up after 15 seconds.  The handler's context is then
\* cancelled; the handler itself goes on to its next failing call.
TimeOut ==
  /\ stage \in AtServer \cup {"answered"} /\ told = "nothing"
  /\ Tell("error")
  /\ UNCHANGED <<stage, call, request, route, served, changed, result, answer>>

\* The command ends, and the next one may be given.
Leave ==
  /\ stage = "over"
  /\ stage' = "idle" /\ call' = NoCall /\ request' = NoRequest
  /\ route' = NoCall /\ served' = NoCall /\ changed' = FALSE /\ result' = "none"
  /\ answer' = NoAnswer /\ told' = "nothing"

-------------------------------------------------------------------------------
(* The server *)

\* The mux redirects, finds the operation, or has none: for the method (405), or
\* for the path (404).  The wrapper then binds the values of the operation.
Route ==
  /\ stage = "sent"
  /\ \/ /\ Clean(request.path) # request.path
        /\ request' \in Redirections(request)
        /\ UNCHANGED <<stage, route, answer>>
     \/ /\ Clean(request.path) = request.path
        /\ \E op \in Routed(request) :
             IF Binds(op, request)
             THEN /\ route' = [op |-> op, args |-> PathValues(op, request.path)]
                  /\ To("routed")
                  /\ UNCHANGED answer
             ELSE Write(Text(400)) /\ UNCHANGED route
        /\ UNCHANGED request
     \/ /\ Clean(request.path) = request.path
        /\ Routed(request) = {}
        /\ Write(Text(IF OnPath(request.path) # {} THEN 405 ELSE 404))
        /\ UNCHANGED <<request, route>>
  /\ UNCHANGED <<call, served, changed, result, told>>

\* strictHandler decodes before any middleware runs.
Decode ==
  /\ stage = "routed"
  /\ IF Decodes(route.op, request)
     THEN To("decoded") /\ UNCHANGED answer
     ELSE Write(Text(400))
  /\ UNCHANGED <<call, request, route, served, changed, result, told>>

Identify ==
  /\ stage = "decoded"
  /\ IF Admits(route.op, request.user)
     THEN /\ served' = route
          /\ To("calling")
          /\ UNCHANGED answer
     ELSE /\ Write(Written(route.op, unauthorized(route.op)))
          /\ UNCHANGED served
  /\ UNCHANGED <<call, request, route, changed, result, told>>

\* The service returns without a change: an error, or what was asked for.
Return ==
  /\ stage = "calling"
  /\ result' \in Service[served.op].before \cup
                 (IF served.op \in Mutations THEN {} ELSE {"ok"})
  /\ To("returned")
  /\ UNCHANGED <<call, request, route, served, changed, answer, told>>

\* The change is in the database.
Commit ==
  /\ stage = "calling" /\ served.op \in Mutations
  /\ changed' = TRUE
  /\ To("written")
  /\ UNCHANGED <<call, request, route, served, result, answer, told>>

\* What follows the change succeeds or fails.
Conclude ==
  /\ stage = "written"
  /\ result' \in Service[served.op].after \cup {"ok"}
  /\ To("returned")
  /\ UNCHANGED <<call, request, route, served, changed, answer, told>>

\* The handler's response is written, unless WriteTimeout has passed.
Respond ==
  /\ stage = "returned"
  /\ \/ Write(Written(route.op, Handled(route.op, result))) /\ UNCHANGED told
     \/ To("over") /\ Tell("error") /\ UNCHANGED answer
  /\ UNCHANGED <<call, request, route, served, changed, result>>

\* Faulty variant of HangUp: the process ends and a handler of it goes on.
HangUpUnheard == UNCHANGED exchangeVars
\* The process ends: the client's connection is closed, the handler is gone.
HangUp ==
  IF stage \in AtServer
  THEN /\ To("over") /\ Tell("error")
       /\ UNCHANGED <<call, request, route, served, changed, result, answer>>
  ELSE UNCHANGED exchangeVars

-------------------------------------------------------------------------------

\* A step of the process, and what its end means for the call.
Process(Step) ==
  Step /\ IF phase' = "down" THEN HangUp ELSE UNCHANGED exchangeVars

\* A step of the call.
OfCall(Step) == Step /\ UNCHANGED startupVars

\* The bound: the process is started again when the client is done with a call,
\* for the rest of which it is of no concern.
Relaunch == stage = "idle" /\ Launch /\ UNCHANGED exchangeVars

Next ==
  \/ Relaunch
  \/ Process(Open) \/ Process(Attempt) \/ Process(Retry) \/ Process(Fail)
  \/ Process(ReadStore) \/ Process(CreateStore) \/ Process(CreateStoreUnanswered)
  \/ Process(SetStore)
  \/ Process(ReadModel) \/ Process(WriteModel) \/ Process(WriteModelUnanswered)
  \/ Process(SetModel)
  \/ Process(SyncRead) \/ Process(SyncWrite) \/ Process(SyncRecord)
  \/ Process(Listen) \/ Process(Stop) \/ Process(Signal) \/ Process(Kill)
  \/ OfCall(Send) \/ OfCall(Refused)
  \/ OfCall(Route) \/ OfCall(Decode) \/ OfCall(Identify)
  \/ OfCall(Return) \/ OfCall(Commit) \/ OfCall(Conclude) \/ OfCall(Respond)
  \/ OfCall(Receive) \/ OfCall(TimeOut) \/ OfCall(Leave)

Spec == Init /\ [][Next]_vars

\* The process goes on; calls that keep being tried succeed at last.  The client
\* has its timer and its answer.  Nothing makes OpenFGA or a handler answer.
FairSpec ==
  /\ Spec
  /\ WF_vars(Process(Main))
  /\ SF_vars(Process(ReadStore)) /\ SF_vars(Process(CreateStore)) /\ SF_vars(Process(SetStore))
  /\ SF_vars(Process(ReadModel)) /\ SF_vars(Process(WriteModel)) /\ SF_vars(Process(SetModel))
  /\ WF_vars(OfCall(Receive \/ TimeOut \/ Leave))

-------------------------------------------------------------------------------
(* Properties *)

\* The types of the variables of a call.
ExchangeTypeOK ==
  /\ stage \in AtServer \cup {"idle", "answered", "over"}
  /\ stage \in AtServer => phase = "serve"
  /\ call \in Calls \/ call = NoCall
  /\ route.op \in Ops \cup {"none"} /\ served \in {route, NoCall}
  /\ changed \in BOOLEAN
  /\ result \in Errors \cup {"none", "ok"}
  /\ answer.status \in {0, 200, 201, 204, 400, 401, 403, 404, 405, 409, 500, 503}
  /\ answer.body \in {"none", "text", "json"}
  /\ told \in {"nothing", "success", "error"}

\* Whatever is given as a name or an id (empty, a dot, two dots, a word of the
\* API), what the service is called with is what the command says: through
\* templates, resolution of the path, redirects, the router and the parameters.
\* Names that are no path segments may turn one read into another, never into
\* a change.
CalledAsMeant ==
  served # NoCall =>
    \/ served = [op |-> call.op, args |-> call.args]
    \/ /\ {served.op, call.op} \cap Mutations = {}
       /\ \E i \in DOMAIN call.args : call.args[i] \in {"", ".", ".."}

\* Without an identity nothing but GetHealth reaches the service, and no caller
\* is left to believe that it did: unauthorized has a response for every
\* operation, of that operation's type.
Identified ==
  call # NoCall /\ call.user = "" =>
    /\ served.op \in {"none", "GetHealth"}
    /\ told = "success" => served.op = "GetHealth"

\* A refusal (401, 403 or 409) says that nothing was changed, although a request
\* can still fail, with other answers, after its change.
RefusalChangesNothing == answer.status \in {401, 403, 409} => ~changed

\* What is told as a success has been done: the operation called for, to its
\* end.  (For reads see FailuresTold.)
SuccessIsDone ==
  told = "success" /\ call.op \in Mutations =>
    served.op = call.op /\ changed /\ result = "ok"

\* Every answer of a handler is one that the client knows for the operation it
\* called (or was redirected to): no response is of another operation's type,
\* and none with a status that the parser drops.
Understood ==
  served # NoCall /\ answer # NoAnswer /\ answer.body # "none" =>
    Decoded(served.op, answer)

\* PERMISSIONS_API.md on decisions: "An inability to obtain a decision fails
\* closed and is reported as an error."
FailuresTold == result = "unavailable" => told # "success"

\* Every call comes to an end for the one who made it: by an answer, by the end
\* of the process or by the client's timer, even if OpenFGA never answers.
CallsEnd == stage # "idle" ~> (told # "nothing" \/ stage = "idle")

\* SIGINT or SIGTERM ends the process from whatever it is doing, also while it
\* waits for OpenFGA and when its first Sync has no engine.
StopsWhenTold == cancelled ~> phase = "down"

\* A bootstrap that finds OpenFGA failing, or its answers lost, is tried again
\* until there is an engine, unless the process is stopped.
Bootstraps ==
  phase \in Bootstrapping ~>
    (engine # NoIds \/ cancelled \/ (phase = "down" /\ end # "fatal"))
===============================================================================
