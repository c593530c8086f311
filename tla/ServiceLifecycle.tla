-------------------------- MODULE ServiceLifecycle --------------------------
(***************************************************************************)
(* The shared service of a worker process and its OpenAI client, whose     *)
(* connections all requests use: get_service makes them for the first      *)
(* request, close_service forgets and closes them when the server's        *)
(* lifespan ends (api/chat_completions.py:103-132, main.py:13-18).         *)
(*                                                                         *)
(* A request is seen from outside: its body is read, it is given the       *)
(* service, is let in when the limiter has room, gets a connection of the  *)
(* pool or waits for one, and ends; what happens in between is in          *)
(* GatewayRuntime.  Both implement Custody, which says what the two agree  *)
(* on: a body dropped inside send() waits for the event loop's finalizer   *)
(* ("orphaned") with its slot and its stream; a stream is given up if its  *)
(* deadline passed before its body was started, or if its close did not    *)
(* succeed (GivesUpStream); and a close that raises in the                 *)
(* finalizer takes the slot with it ("leaked").                            *)
(*                                                                         *)
(* Of uvicorn: a first signal stops the listener, and the lifespan ends    *)
(* when the tasks of all requests have; no graceful timeout is configured  *)
(* (Dockerfile).  A second signal ends the process at once.  The process   *)
(* may also run the lifespan again, as test clients do.                    *)
(*                                                                         *)
(* An operator whose name ends in _Bug is a wrong version of the           *)
(* definition after it, used only to see that a property notices.          *)
(***************************************************************************)
EXTENDS Naturals, FiniteSets

CONSTANTS Requests,
          Clients,         \* bound: the clients ever made
          Capacity,        \* GATEWAY_MAX_INFLIGHT_REQUESTS
          MaxConnections,  \* OPENAI_MAX_CONNECTIONS
          None

ASSUME SettingsAssumption == Capacity \in Nat \ {0} /\ MaxConnections \in Nat \ {0}
ASSUME NoneAssumption == None \notin Clients

VARIABLES
  server,         \* what uvicorn is doing
  service,        \* _service: the client it uses
  openaiClient,   \* _openai_client
  clients,        \* clients[c]: the state of client c
  pc,             \* pc[r]: where request r is
  svc,            \* svc[r]: the client of the service that r was given
  connection      \* connection[r]: "used" by r's upstream stream; "left" to that
                  \* stream, which nobody but the client will close; or "none"

vars == <<server, service, openaiClient, clients, pc, svc, connection>>

requestVars == <<pc, svc, connection>>

lifeVars == <<server, service, openaiClient, clients>>

\* Requests that are handled: they have been given the service.
Served == {r \in Requests : pc[r] \in {"checking", "waiting", "upstream"}}

\* Requests for which the server has a task.
Busy == Served \cup {r \in Requests : pc[r] = "received"}

\* Requests that hold a slot of the limiter: GatewayRuntime!SlotAccounting.
Inside == {r \in Requests : pc[r] \in {"waiting", "upstream", "orphaned", "leaked"}}

InUse(c) == {r \in Requests : connection[r] # "none" /\ svc[r] = c}

PoolHasRoom(c) == Cardinality(InUse(c)) < MaxConnections

Init == /\ server = "running"
        /\ service = None
        /\ openaiClient = None
        /\ clients = [c \in Clients |-> "none"]
        /\ pc = [r \in Requests |-> "idle"]
        /\ svc = [r \in Requests |-> None]
        /\ connection = [r \in Requests |-> "none"]

-----------------------------------------------------------------------------
(* get_service.  It has no await, so that nothing comes between its steps. *)

\* The first test, for a service that exists, is missing.
GetService_Bug(c) ==
  /\ clients[c] = "none"
  /\ openaiClient' = c /\ service' = c
  /\ clients' = [clients EXCEPT ![c] = "open"]

\* The global that close_service looks at is not set.
GetService_UnrecordedBug(c) ==
  \/ /\ service # None /\ c = service
     /\ UNCHANGED <<service, openaiClient, clients>>
  \/ /\ service = None /\ clients[c] = "none"
     /\ service' = c
     /\ clients' = [clients EXCEPT ![c] = "open"]
     /\ UNCHANGED openaiClient

\* The service with client c is there, or is made.
GetService(c) ==
  \/ /\ service # None /\ c = service
     /\ UNCHANGED <<service, openaiClient, clients>>
  \/ /\ service = None /\ clients[c] = "none"
     /\ openaiClient' = c /\ service' = c
     /\ clients' = [clients EXCEPT ![c] = "open"]

\* The server starts a task when it has the head of the request.
Accept(r) == /\ server = "running"
             /\ pc[r] = "idle"
             /\ pc' = [pc EXCEPT ![r] = "received"]
             /\ UNCHANGED <<lifeVars, svc, connection>>

\* The client leaves before its body is read, or the body is not JSON: the
\* dependencies are not called.
BodyFails(r) == /\ pc[r] = "received"
                /\ pc' = [pc EXCEPT ![r] = "done"]
                /\ UNCHANGED <<lifeVars, svc, connection>>

\* The body is there and get_service is called, whether or not the server has
\* been told to stop meanwhile.  The second dependency, verify_gateway_key, runs
\* in a thread: a request has its service before it is checked.
Arrive(r, c) == /\ pc[r] = "received"
                /\ GetService(c)
                /\ pc' = [pc EXCEPT ![r] = "checking"]
                /\ svc' = [svc EXCEPT ![r] = c]
                /\ UNCHANGED <<server, connection>>

\* The error is caught, and the request goes on without a service.
ArriveFails_Bug(r) == /\ pc[r] = "received"
                      /\ service = None
                      /\ pc' = [pc EXCEPT ![r] = "checking"]
                      /\ UNCHANGED <<lifeVars, svc, connection>>

\* create_async_openai_client raises, for want of an API key: no global is set.
ArriveFails(r) == /\ pc[r] = "received"
                  /\ service = None
                  /\ pc' = [pc EXCEPT ![r] = "done"]
                  /\ UNCHANGED <<lifeVars, svc, connection>>

-----------------------------------------------------------------------------
(* The handler *)

\* 401 for a wrong key, 400 for a body that is not a request, 503 when there is
\* no room.
TurnAway(r) == /\ pc[r] = "checking"
               /\ pc' = [pc EXCEPT ![r] = "done"]
               /\ UNCHANGED <<lifeVars, svc, connection>>

\* An off-by-one.
HasRoom_Bug == Cardinality(Inside) <= Capacity

HasRoom == Cardinality(Inside) < Capacity

\* Let in, and the SDK's create takes a connection or waits for one.
Enter(r) == /\ pc[r] = "checking"
            /\ HasRoom
            /\ IF PoolHasRoom(svc[r])
               THEN /\ pc' = [pc EXCEPT ![r] = "upstream"]
                    /\ connection' = [connection EXCEPT ![r] = "used"]
               ELSE /\ pc' = [pc EXCEPT ![r] = "waiting"]
                    /\ UNCHANGED connection
            /\ UNCHANGED <<lifeVars, svc>>

GetsConnection(r) == /\ pc[r] = "waiting"
                     /\ PoolHasRoom(svc[r])
                     /\ pc' = [pc EXCEPT ![r] = "upstream"]
                     /\ connection' = [connection EXCEPT ![r] = "used"]
                     /\ UNCHANGED <<lifeVars, svc>>

\* There is no limit to the wait.
GivesUp_Bug(r) == FALSE /\ UNCHANGED vars

\* OPENAI_POOL_TIMEOUT_SECONDS: the client gets a 504.
GivesUp(r) == /\ pc[r] = "waiting"
              /\ pc' = [pc EXCEPT ![r] = "done"]
              /\ UNCHANGED <<lifeVars, svc, connection>>

\* The connection goes back to the pool, unless the stream was given up.
Freed(r) == IF connection[r] = "used" THEN "none" ELSE connection[r]

\* The stream is closed, and the task goes on: [DONE] or an error frame is next.
ClosesStream(r) == /\ pc[r] = "upstream"
                   /\ connection[r] = "used"
                   /\ connection' = [connection EXCEPT ![r] = "none"]
                   /\ UNCHANGED <<lifeVars, pc, svc>>

\* The mapper is closed before it was started, or the close of the stream
\* raises or is cut short.
GivesUpStream(r) == /\ pc[r] = "upstream"
                    /\ connection[r] = "used"
                    /\ connection' = [connection EXCEPT ![r] = "left"]
                    /\ UNCHANGED <<lifeVars, pc, svc>>

\* Answered, failed, timed out or cancelled: the slot is given back.
Ends(r) == /\ pc[r] = "upstream"
           /\ pc' = [pc EXCEPT ![r] = "done"]
           /\ connection' = [connection EXCEPT ![r] = Freed(r)]
           /\ UNCHANGED <<lifeVars, svc>>

Dropped(r) == /\ pc[r] = "upstream"
              /\ pc' = [pc EXCEPT ![r] = "orphaned"]
              /\ UNCHANGED <<lifeVars, svc, connection>>

\* The slot is freed, and the close is left to whoever comes last.
Finalized_Bug(r) == /\ pc[r] = "orphaned"
                    /\ pc' = [pc EXCEPT ![r] = "done"]
                    /\ UNCHANGED <<lifeVars, svc, connection>>

\* The finalizer's task closes the stream, if that was not tried yet, and
\* frees the slot.
Finalized(r) == /\ pc[r] = "orphaned"
                /\ pc' = [pc EXCEPT ![r] = "done"]
                /\ connection' = [connection EXCEPT ![r] = Freed(r)]
                /\ UNCHANGED <<lifeVars, svc>>

\* That close raises, before the slot is freed.
FinalizerRaises(r) == /\ pc[r] = "orphaned"
                      /\ connection[r] = "used"
                      /\ pc' = [pc EXCEPT ![r] = "leaked"]
                      /\ \E left \in {"none", "left"} : connection' = [connection EXCEPT ![r] = left]
                      /\ UNCHANGED <<lifeVars, svc>>

-----------------------------------------------------------------------------
(* The server, and close_service *)

Signal == /\ server = "running"
          /\ server' = "draining"
          /\ UNCHANGED <<service, openaiClient, clients, requestVars>>

SecondSignal == /\ server = "draining"
                /\ server' = "killed"
                /\ UNCHANGED <<service, openaiClient, clients, requestVars>>

\* The service is not forgotten.
CloseService_Bug ==
  /\ server = "draining" /\ Busy = {}
  /\ server' = IF openaiClient = None THEN "stopped" ELSE "closing"
  /\ openaiClient' = None
  /\ clients' = [c \in Clients |-> IF c = openaiClient THEN "closing" ELSE clients[c]]
  /\ UNCHANGED <<service, requestVars>>

\* close_service, to its await.
CloseService ==
  /\ server = "draining" /\ Busy = {}
  /\ server' = IF openaiClient = None THEN "stopped" ELSE "closing"
  /\ openaiClient' = None /\ service' = None
  /\ clients' = [c \in Clients |-> IF c = openaiClient THEN "closing" ELSE clients[c]]
  /\ UNCHANGED requestVars

\* The pool is closed, with every connection that was left in it.
ClientClosed ==
  /\ server = "closing"
  /\ server' = "stopped"
  /\ clients' = [c \in Clients |-> IF clients[c] = "closing" THEN "closed" ELSE clients[c]]
  /\ connection' = [r \in Requests |->
                      IF svc[r] # None /\ clients[svc[r]] = "closing" THEN "none" ELSE connection[r]]
  /\ UNCHANGED <<service, openaiClient, pc, svc>>

RunAgain == /\ server = "stopped"
            /\ server' = "running"
            /\ UNCHANGED <<service, openaiClient, clients, requestVars>>

Next == \/ \E r \in Requests : \/ \E c \in Clients : Arrive(r, c)
                               \/ Accept(r) \/ BodyFails(r) \/ ArriveFails(r)
                               \/ TurnAway(r) \/ Enter(r)
                               \/ GetsConnection(r) \/ GivesUp(r)
                               \/ ClosesStream(r) \/ GivesUpStream(r) \/ Ends(r)
                               \/ Dropped(r) \/ Finalized(r) \/ FinalizerRaises(r)
        \/ Signal \/ SecondSignal \/ CloseService \/ ClientClosed \/ RunAgain

Spec == Init /\ [][Next]_vars

\* A client sends its body or leaves; the loop runs its tasks; a wait for a
\* connection is limited; a request ends, by its deadline if not before, as long
\* as its client reads or leaves (GatewayRuntime!ImplementsFairAdmission); the
\* close of a client returns.
Fairness ==
  /\ \A r \in Requests :
       /\ WF_vars(BodyFails(r) \/ ArriveFails(r) \/ \E c \in Clients : Arrive(r, c))
       /\ WF_vars(TurnAway(r) \/ Enter(r))
       /\ WF_vars(GetsConnection(r) \/ GivesUp(r))
       /\ WF_vars(Ends(r) \/ Dropped(r))
       /\ WF_vars(Finalized(r) \/ FinalizerRaises(r))
  /\ WF_vars(CloseService)
  /\ WF_vars(ClientClosed)

FairSpec == Spec /\ Fairness

-----------------------------------------------------------------------------
(* Properties *)

\* Every variable has its type, and a request that is being handled has a service.
TypeOK ==
  /\ server \in {"running", "draining", "closing", "stopped", "killed"}
  /\ service \in Clients \cup {None}
  /\ openaiClient \in Clients \cup {None}
  /\ clients \in [Clients -> {"none", "open", "closing", "closed"}]
  /\ pc \in [Requests -> {"idle", "received", "checking", "waiting", "upstream",
                         "orphaned", "leaked", "done"}]
  /\ svc \in [Requests -> Clients \cup {None}]
  /\ connection \in [Requests -> {"none", "used", "left"}]
  /\ \A r \in Served : svc[r] \in Clients

\* However many requests come at once, and however often the lifespan is run,
\* there is one client with connections at a time, the one that requests are
\* given and that close_service will close.
OneClient ==
  \A c \in Clients : clients[c] = "open" => c = service /\ c = openaiClient

\* No request that is being handled has a client that is closed or closing.
NoUseAfterClose ==
  \A r \in Served : clients[svc[r]] = "open"

\* When the lifespan is over, no connection to OpenAI is left: neither a client
\* nor a stream that a request left open.
NothingLeftOpen ==
  server = "stopped" => /\ \A c \in Clients : clients[c] \in {"none", "closed"}
                        /\ \A r \in Requests : connection[r] = "none"

\* Streams that nobody will close before the client is.
LeftOpen == {r \in Requests : connection[r] = "left" /\ pc[r] = "done"}

\* With no fewer connections than slots (as by default) a request that is let
\* in waits for a connection only after a stream was left open: the slots, not
\* the pool, are what limits requests.
SlotsLimitConnections ==
  [][\A r \in Requests :
       pc'[r] = "waiting" /\ pc[r] # "waiting"
         => LeftOpen # {} \/ MaxConnections < Capacity]_vars

-----------------------------------------------------------------------------
(* Who has to give back the slot and to close the stream: Custody *)

slotBar == [r \in Requests |->
              CASE pc[r] \in {"waiting", "upstream"} -> "task"
                [] pc[r] = "orphaned"                -> "finalizer"
                [] pc[r] = "leaked"                  -> "lost"
                [] OTHER                             -> "free"]

streamBar == [r \in Requests |->
                CASE connection[r] = "none" -> "none"
                  [] connection[r] = "left" -> "nobody"
                  [] OTHER                  -> slotBar[r]]

C == INSTANCE Custody WITH slot <- slotBar, stream <- streamBar

\* A request keeps its slot until its stream is closed or given up, whoever
\* has to do it, and a shutdown closes no stream under a request's task.
ImplementsCustody == C!Spec

-----------------------------------------------------------------------------
(* Liveness *)

\* A signal ends the server, unless it is ended by force: no request is waited
\* for in vain, as long as clients send and read, or leave.
ShutdownCompletes == server = "draining" ~> server \in {"stopped", "killed"}
=============================================================================
