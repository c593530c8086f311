--------------------------- MODULE GatewayRuntime ---------------------------
(***************************************************************************)
(* The life of a request in the production (async) path of the gateway:    *)
(* POST /v1/chat/completions in app/api/chat_completions.py together with  *)
(* the streaming facade of app/services/async_chat_service.py and the two  *)
(* async SSE generators.  Everything runs on one event loop, so a step is  *)
(* what happens between two awaits.                                        *)
(*                                                                         *)
(* A streamed body is a nest of async generators driven by one server task *)
(* T, which alternates between asking for the next frame ("reading") and   *)
(* pushing a frame to the client ("sending").  While T is pushing, every   *)
(* generator is suspended at a yield; an exception that hits T there never *)
(* enters the generators, which are then closed later by the event loop's  *)
(* finalizer for dropped async generators ("orphaned", "finalizing").      *)
(*                                                                         *)
(* Abstracted: the contents of frames and answers, the two non-streaming   *)
(* modes (one route "json"), wording of errors, logging other than the     *)
(* outcome that is logged.  Not here: the sync fall-backs used only with   *)
(* injected services.                                                      *)
(*                                                                         *)
(* An operator whose name ends in _Bug is a plausible wrong version of the *)
(* definition after it.  Nothing uses it: it is there to be put in place   *)
(* of that definition, to see that a property notices.                     *)
(***************************************************************************)
EXTENDS Naturals, FiniteSets

CONSTANTS Requests,     \* the requests the server ever receives
          Capacity,     \* GATEWAY_MAX_INFLIGHT_REQUESTS
          CloseMayFail  \* whether closing an upstream stream can raise

ASSUME CapacityAssumption == Capacity \in Nat \ {0}
ASSUME CloseMayFailAssumption == CloseMayFail \in BOOLEAN

VARIABLES
  active,     \* InflightLimiter._active
  pc,         \* where request r's code is
  route,      \* which branch of the handler serves r
  upstream,   \* the upstream call of r, seen from OpenAI's side
  closed,     \* the deadline wrapper's _closed: nobody will call close again
  exc,        \* the exception being carried through a close, "none" if none
  clock,      \* 1: the absolute deadline of r has passed
              \* 2: the guard's own, later, timer is due as well
  connected,  \* the client of r is still there
  last,       \* the last frame handed to the server for r's client
  outcome     \* the handler's or the guard's outcome of r, which the log records
              \* at its end, if its finally clause gets there

vars == <<active, pc, route, upstream, closed, exc, clock, connected, last, outcome>>

-----------------------------------------------------------------------------
(* Vocabulary *)

Routes == {"json", "native", "responses"}

\* T is suspended in send() while a generator sits at one of these yields.
TimedSends == {"sending", "sending_final", "sending_done"}
ErrorSends == {"error", "error_done"}

PCs == {"idle", "creating", "handoff", "reading", "closing", "orphaned",
        "finalizing", "leaked", "done"} \cup TimedSends \cup ErrorSends

Upstreams == {"none", "pending", "open", "closing", "closed"}

Frames == {"none", "data", "final", "error", "done"}

\* What an iteration over the upstream stream may raise.
UpstreamErrors == {"APITimeoutError", "APIConnectionError", "Exception"}

\* The exceptions the guard answers with an error frame, and how it logs them.
Reported == UpstreamErrors \cup {"TimeoutError"}

OutcomeOf == [e \in Reported |->
                CASE e = "APITimeoutError"    -> "upstream_timeout"
                  [] e = "APIConnectionError" -> "upstream_connection_error"
                  [] e = "TimeoutError"       -> "request_deadline"
                  [] OTHER                    -> "stream_error"]

Outcomes == {"none", "busy", "ok", "http_error", "http_timeout", "completed",
             "upstream_timeout", "upstream_connection_error",
             "request_deadline", "stream_error", "client_disconnect"}

\* The requests that have been counted in and not yet counted out.
Holders == {r \in Requests : pc[r] \notin {"idle", "done"}}

Settled(r) == pc[r] \in {"done", "leaked"}

-----------------------------------------------------------------------------
(* The limiter *)

CanAcquire_Bug == active <= Capacity

CanAcquire == active < Capacity

Acquire == active' = active + 1

Release == active' = IF active > 0 THEN active - 1 ELSE active

-----------------------------------------------------------------------------
(* The two timers of a body.  Both belong to task T; each is armed as long *)
(* as its "async with" block has not been left.                            *)

\* _DeadlineAsyncIterable._iterate: in Responses mode the mapper closes the
\* upstream inside the block, in native mode _iterate does so after it.
IterateArmed(r) ==
  pc[r] \in CASE route[r] = "responses" -> {"reading", "closing"} \cup TimedSends
              [] route[r] = "native"    -> {"reading", "sending"}
              [] OTHER                  -> {}

\* _guarded_async_sse
GuardArmed(r) == pc[r] \in {"reading", "closing"} \cup TimedSends

\* A timeout around each read instead of around the whole iteration.
TimerDue_Bug(r) == clock[r] >= 1 /\ pc[r] = "reading"

TimerDue(r) == \/ clock[r] >= 1 /\ IterateArmed(r)
               \/ clock[r] = 2 /\ GuardArmed(r)

-----------------------------------------------------------------------------
(* Steps that several actions share *)

\* The request is over: its slot is given back and its outcome logged.
Finish(r, how) ==
  /\ pc' = [pc EXCEPT ![r] = "done"]
  /\ outcome' = [outcome EXCEPT ![r] = how]
  /\ Release

\* A generator yields a frame: T takes it to the client's socket.
Emit(r, where, frame) ==
  /\ pc' = [pc EXCEPT ![r] = where]
  /\ last' = [last EXCEPT ![r] = frame]

\* A finally block of the stream calls close() on the upstream stream and
\* awaits it, with exception e on its way out.
BeginClose(r, e) ==
  /\ pc' = [pc EXCEPT ![r] = "closing"]
  /\ exc' = [exc EXCEPT ![r] = e]
  /\ closed' = [closed EXCEPT ![r] = TRUE]
  /\ upstream' = [upstream EXCEPT ![r] = "closing"]

\* The exception itself is logged in place of the outcome it stands for.
Continue_Bug(r, e) ==
  /\ exc' = [exc EXCEPT ![r] = "none"]
  /\ Emit(r, "error", "error")
  /\ outcome' = [outcome EXCEPT ![r] = e]
  /\ UNCHANGED active

\* The close is behind T, and e is what leaves the generators under the guard.
Continue(r, e) ==
  /\ exc' = [exc EXCEPT ![r] = "none"]
  /\ \/ /\ e = "none"
        /\ route[r] = "native"
        /\ Emit(r, "sending_done", "done")
        /\ UNCHANGED <<active, outcome>>
     \/ /\ e = "none"
        /\ route[r] = "responses"
        /\ Finish(r, outcome[r])
        /\ UNCHANGED last
     \/ /\ e = "CancelledError"
        /\ Finish(r, "client_disconnect")
        /\ UNCHANGED last
     \/ /\ e \in Reported
        /\ Emit(r, "error", "error")
        /\ outcome' = [outcome EXCEPT ![r] = OutcomeOf[e]]
        /\ UNCHANGED active

-----------------------------------------------------------------------------
(* Initial state *)

Init ==
  /\ active = 0
  /\ pc = [r \in Requests |-> "idle"]
  /\ route = [r \in Requests |-> "none"]
  /\ upstream = [r \in Requests |-> "none"]
  /\ closed = [r \in Requests |-> FALSE]
  /\ exc = [r \in Requests |-> "none"]
  /\ clock = [r \in Requests |-> 0]
  /\ connected = [r \in Requests |-> TRUE]
  /\ last = [r \in Requests |-> "none"]
  /\ outcome = [r \in Requests |-> "none"]

-----------------------------------------------------------------------------
(* The handler *)

\* No slot: 503 gateway_busy at once.
Refuse(r) ==
  /\ pc[r] = "idle"
  /\ ~CanAcquire
  /\ pc' = [pc EXCEPT ![r] = "done"]
  /\ outcome' = [outcome EXCEPT ![r] = "busy"]
  /\ UNCHANGED <<active, route, upstream, closed, exc, clock, connected, last>>

\* The slot is taken, and select_mode or _prepare_request raises ValueError
\* before the first await: 400, and the finally clause gives the slot back.
Invalid(r) ==
  /\ pc[r] = "idle"
  /\ CanAcquire
  /\ pc' = [pc EXCEPT ![r] = "done"]
  /\ outcome' = [outcome EXCEPT ![r] = "http_error"]
  /\ UNCHANGED <<active, route, upstream, closed, exc, clock, connected, last>>

\* The slot is taken and the upstream call is on its way.
Admit(r, way) ==
  /\ pc[r] = "idle"
  /\ CanAcquire
  /\ Acquire
  /\ pc' = [pc EXCEPT ![r] = "creating"]
  /\ route' = [route EXCEPT ![r] = way]
  /\ upstream' = [upstream EXCEPT ![r] = "pending"]
  /\ UNCHANGED <<closed, exc, clock, connected, last, outcome>>

\* The upstream call fails before an answer: an HTTP error, the slot is freed.
CreateFails(r) ==
  /\ pc[r] = "creating"
  /\ upstream' = [upstream EXCEPT ![r] = "closed"]
  /\ Finish(r, "http_error")
  /\ UNCHANGED <<route, closed, exc, clock, connected, last>>

\* asyncio.timeout around the upstream call fires: 504, the slot is freed.
CreateTimesOut(r) ==
  /\ pc[r] = "creating"
  /\ clock[r] >= 1
  /\ upstream' = [upstream EXCEPT ![r] = "closed"]
  /\ Finish(r, "http_timeout")
  /\ UNCHANGED <<route, closed, exc, clock, connected, last>>

\* A non-streaming answer has been read to its end.
AnswerJson(r) ==
  /\ pc[r] = "creating"
  /\ route[r] = "json"
  /\ upstream' = [upstream EXCEPT ![r] = "closed"]
  /\ Finish(r, "ok")
  /\ UNCHANGED <<route, closed, exc, clock, connected, last>>

\* The slot is freed when the response is handed over, as in the sync path.
HandOff_Bug(r) ==
  /\ pc[r] = "creating"
  /\ route[r] # "json"
  /\ upstream' = [upstream EXCEPT ![r] = "open"]
  /\ pc' = [pc EXCEPT ![r] = "handoff"]
  /\ Release
  /\ UNCHANGED <<route, closed, exc, clock, connected, last, outcome>>

\* The upstream stream is open: the StreamingResponse takes over the slot
\* (stream_handoff keeps the handler's finally clause from freeing it).
HandOff(r) ==
  /\ pc[r] = "creating"
  /\ route[r] # "json"
  /\ upstream' = [upstream EXCEPT ![r] = "open"]
  /\ pc' = [pc EXCEPT ![r] = "handoff"]
  /\ UNCHANGED <<active, route, closed, exc, clock, connected, last, outcome>>

-----------------------------------------------------------------------------
(* The streamed body *)

\* The server starts the guard, the guard starts _iterate, in time.
StartBody(r) ==
  /\ pc[r] = "handoff"
  /\ clock[r] = 0
  /\ pc' = [pc EXCEPT ![r] = "reading"]
  /\ outcome' = [outcome EXCEPT ![r] = "completed"]
  /\ UNCHANGED <<active, route, upstream, closed, exc, clock, connected, last>>

\* The deadline passed before the first iteration: _iterate calls aclose()
\* and raises TimeoutError.  In native mode that closes the upstream stream.
\* In Responses mode it closes the mapper, a generator that was never
\* started: its finally clause, which would close the upstream, never runs.
StartBodyLate(r) ==
  /\ pc[r] = "handoff"
  /\ clock[r] >= 1
  /\ \/ /\ route[r] = "native"
        /\ BeginClose(r, "TimeoutError")
        /\ outcome' = [outcome EXCEPT ![r] = "completed"]
        /\ UNCHANGED last
     \/ /\ route[r] = "responses"
        /\ closed' = [closed EXCEPT ![r] = TRUE]
        /\ Emit(r, "error", "error")
        /\ outcome' = [outcome EXCEPT ![r] = OutcomeOf["TimeoutError"]]
        /\ UNCHANGED <<upstream, exc>>
  /\ UNCHANGED <<active, route, clock, connected>>

\* An upstream event or chunk that yields one more frame.
UpstreamChunk(r) ==
  /\ pc[r] = "reading"
  /\ Emit(r, "sending", "data")
  /\ UNCHANGED <<active, route, upstream, closed, exc, clock, connected, outcome>>

\* response.completed or .incomplete ("final"), response.failed or error.
UpstreamTerminal(r, frame) ==
  /\ pc[r] = "reading"
  /\ route[r] = "responses"
  /\ Emit(r, "sending_final", frame)
  /\ UNCHANGED <<active, route, upstream, closed, exc, clock, connected, outcome>>

\* The upstream stream is exhausted (in Responses mode: with no terminal event).
UpstreamEnds(r) ==
  /\ pc[r] = "reading"
  /\ BeginClose(r, "none")
  /\ UNCHANGED <<active, route, clock, connected, last, outcome>>

\* The next read raises; the generators' finally clauses close the upstream.
UpstreamFails(r, e) ==
  /\ pc[r] = "reading"
  /\ BeginClose(r, e)
  /\ UNCHANGED <<active, route, clock, connected, last, outcome>>

\* A timer cancels T in a read; its block turns the cancellation into
\* TimeoutError.
DeadlineInRead(r) ==
  /\ pc[r] = "reading"
  /\ TimerDue(r)
  /\ BeginClose(r, "TimeoutError")
  /\ UNCHANGED <<active, route, clock, connected, last, outcome>>

\* The cancellation is taken for the deadline.
CancelInRead_Bug(r) ==
  /\ pc[r] = "reading"
  /\ ~connected[r]
  /\ BeginClose(r, "TimeoutError")
  /\ UNCHANGED <<active, route, clock, connected, last, outcome>>

\* The server cancels T in a read because the client is gone.
CancelInRead(r) ==
  /\ pc[r] = "reading"
  /\ ~connected[r]
  /\ BeginClose(r, "CancelledError")
  /\ UNCHANGED <<active, route, clock, connected, last, outcome>>

\* send() returns, and the generators go on after the yield.  After a content
\* frame the mapper asks for the next event.
ContentSent(r) ==
  /\ pc[r] = "sending"
  /\ pc' = [pc EXCEPT ![r] = "reading"]
  /\ UNCHANGED <<active, upstream, closed, exc, last, outcome>>

\* After the frame of a terminal event comes [DONE].
FinalSent(r) ==
  /\ pc[r] = "sending_final"
  /\ Emit(r, "sending_done", "done")
  /\ UNCHANGED <<active, upstream, closed, exc, outcome>>

\* The return after the terminal event is missing: the mapper reads on.
DoneSent_Bug(r) ==
  /\ pc[r] = "sending_done"
  /\ pc' = [pc EXCEPT ![r] = "reading"]
  /\ UNCHANGED <<active, upstream, closed, exc, last, outcome>>

\* After [DONE] the mapper returns, which closes the upstream; the native
\* generator sends [DONE] after the close and is over.
DoneSent(r) ==
  /\ pc[r] = "sending_done"
  /\ \/ /\ route[r] = "responses"
        /\ BeginClose(r, "none")
        /\ UNCHANGED <<active, last, outcome>>
     \/ /\ route[r] = "native"
        /\ Finish(r, outcome[r])
        /\ UNCHANGED <<upstream, closed, exc, last>>

\* The [DONE] after an error frame is missing.
ErrorSent_Bug(r) ==
  /\ pc[r] = "error"
  /\ Finish(r, outcome[r])
  /\ UNCHANGED <<upstream, closed, exc, last>>

\* After the guard's error frame comes [DONE].
ErrorSent(r) ==
  /\ pc[r] = "error"
  /\ Emit(r, "error_done", "done")
  /\ UNCHANGED <<active, upstream, closed, exc, outcome>>

\* The guard's finally clause finds the stream closed and frees the slot.
ErrorDoneSent(r) ==
  /\ pc[r] = "error_done"
  /\ Finish(r, outcome[r])
  /\ UNCHANGED <<upstream, closed, exc, last>>

SendReturns(r) ==
  /\ ContentSent(r) \/ FinalSent(r) \/ DoneSent(r) \/ ErrorSent(r) \/ ErrorDoneSent(r)
  /\ UNCHANGED <<route, clock, connected>>

\* T is killed inside send(): the generators stay suspended at their yields.
Abandon(r) ==
  /\ pc' = [pc EXCEPT ![r] = "orphaned"]
  /\ UNCHANGED <<active, route, upstream, closed, exc, clock, connected, last, outcome>>

AbandonByTimer(r) == pc[r] \in TimedSends /\ TimerDue(r) /\ Abandon(r)

AbandonByDisconnect(r) ==
  pc[r] \in TimedSends \cup ErrorSends /\ ~connected[r] /\ Abandon(r)

-----------------------------------------------------------------------------
(* Closing the upstream stream, in task T *)

CloseReturns(r) ==
  /\ pc[r] = "closing"
  /\ upstream' = [upstream EXCEPT ![r] = "closed"]
  /\ Continue(r, exc[r])
  /\ UNCHANGED <<route, closed, clock, connected>>

\* close() raises: its exception replaces the one on its way.
CloseRaises(r) ==
  /\ pc[r] = "closing"
  /\ CloseMayFail
  /\ \E u \in {"closing", "closed"} : upstream' = [upstream EXCEPT ![r] = u]
  /\ Continue(r, "Exception")
  /\ UNCHANGED <<route, closed, clock, connected>>

\* T is cancelled while it awaits close(): by the server when the client is
\* gone, else by a timer.  The close is not tried again.
InterruptClose(r) ==
  /\ pc[r] = "closing"
  /\ \E u \in {"closing", "closed"} : upstream' = [upstream EXCEPT ![r] = u]
  /\ \/ ~connected[r] /\ Continue(r, "CancelledError")
     \/ /\ TimerDue(r)
        /\ exc[r] # "CancelledError"
        /\ exc[r] = "TimeoutError" => clock[r] = 2
        /\ Continue(r, "TimeoutError")
  /\ UNCHANGED <<route, closed, clock, connected>>

-----------------------------------------------------------------------------
(* The event loop's finalizer of a dropped guard: GeneratorExit at its     *)
(* yield, then its finally clause, in a task of its own that no timer and  *)
(* no disconnect cancels.                                                  *)

\* The guard frees the slot and leaves the closing to whoever comes last.
Finalize_NoCloseBug(r) ==
  /\ pc[r] = "orphaned"
  /\ Finish(r, outcome[r])
  /\ UNCHANGED <<route, upstream, closed, exc, clock, connected, last>>

\* Without the _closed flag: the stream is closed whether or not it was.
Finalize_TwiceBug(r) ==
  /\ pc[r] = "orphaned"
  /\ pc' = [pc EXCEPT ![r] = "finalizing"]
  /\ closed' = [closed EXCEPT ![r] = TRUE]
  /\ upstream' = [upstream EXCEPT ![r] = "closing"]
  /\ UNCHANGED <<active, route, exc, clock, connected, last, outcome>>

\* "Already closed" returns from the finally clause before the release.
Finalize_ReturnBug(r) ==
  /\ pc[r] = "orphaned"
  /\ IF closed[r] THEN /\ pc' = [pc EXCEPT ![r] = "leaked"]
                       /\ UNCHANGED <<upstream, closed>>
                  ELSE /\ pc' = [pc EXCEPT ![r] = "finalizing"]
                       /\ closed' = [closed EXCEPT ![r] = TRUE]
                       /\ upstream' = [upstream EXCEPT ![r] = "closing"]
  /\ UNCHANGED <<active, route, exc, clock, connected, last, outcome>>

\* The guard was dropped at a yield: its finally clause closes the stream,
\* unless that was already asked for, and frees the slot.
Finalize(r) ==
  /\ pc[r] = "orphaned"
  /\ \/ /\ closed[r]
        /\ Finish(r, outcome[r])
        /\ UNCHANGED <<upstream, closed>>
     \/ /\ ~closed[r]
        /\ pc' = [pc EXCEPT ![r] = "finalizing"]
        /\ closed' = [closed EXCEPT ![r] = TRUE]
        /\ upstream' = [upstream EXCEPT ![r] = "closing"]
        /\ UNCHANGED <<active, outcome>>
  /\ UNCHANGED <<route, exc, clock, connected, last>>

FinalizerCloses(r) ==
  /\ pc[r] = "finalizing"
  /\ upstream' = [upstream EXCEPT ![r] = "closed"]
  /\ Finish(r, outcome[r])
  /\ UNCHANGED <<route, closed, exc, clock, connected, last>>

\* The close raises out of the guard's finally clause, before the release.
FinalizerRaises(r) ==
  /\ pc[r] = "finalizing"
  /\ CloseMayFail
  /\ \E u \in {"closing", "closed"} : upstream' = [upstream EXCEPT ![r] = u]
  /\ pc' = [pc EXCEPT ![r] = "leaked"]
  /\ UNCHANGED <<active, route, closed, exc, clock, connected, last, outcome>>

-----------------------------------------------------------------------------
(* Time and the client *)

\* The wrapper's deadline counts from the handler, the guard's from the
\* start of the body: only a started body reaches 2.
Tick(r) ==
  /\ pc[r] # "idle" /\ ~Settled(r)
  /\ \/ clock[r] = 0
     \/ clock[r] = 1 /\ pc[r] \notin {"creating", "handoff"}
  /\ clock' = [clock EXCEPT ![r] = @ + 1]
  /\ UNCHANGED <<active, pc, route, upstream, closed, exc, connected, last, outcome>>

Disconnect(r) ==
  /\ pc[r] # "idle" /\ ~Settled(r)
  /\ connected[r]
  /\ connected' = [connected EXCEPT ![r] = FALSE]
  /\ UNCHANGED <<active, pc, route, upstream, closed, exc, clock, last, outcome>>

\* Every request there was is over.
AllSettled == (\A r \in Requests : Settled(r)) /\ UNCHANGED vars

-----------------------------------------------------------------------------
(* The specification *)

Handler(r) == \/ Refuse(r)
              \/ Invalid(r)
              \/ \E way \in Routes : Admit(r, way)
              \/ CreateFails(r)
              \/ CreateTimesOut(r)
              \/ AnswerJson(r)
              \/ HandOff(r)

Body(r) == \/ StartBody(r)
           \/ StartBodyLate(r)
           \/ UpstreamChunk(r)
           \/ \E frame \in {"final", "error"} : UpstreamTerminal(r, frame)
           \/ UpstreamEnds(r)
           \/ \E e \in UpstreamErrors : UpstreamFails(r, e)
           \/ DeadlineInRead(r)
           \/ CancelInRead(r)
           \/ SendReturns(r)
           \/ AbandonByTimer(r)
           \/ AbandonByDisconnect(r)

Closing(r) == \/ CloseReturns(r)
              \/ CloseRaises(r)
              \/ InterruptClose(r)
              \/ Finalize(r)
              \/ FinalizerCloses(r)
              \/ FinalizerRaises(r)

Next == \/ \E r \in Requests : \/ Handler(r)
                               \/ Body(r)
                               \/ Closing(r)
                               \/ Tick(r)
                               \/ Disconnect(r)
        \/ AllSettled

Spec == Init /\ [][Next]_vars

\* What the event loop, its timers and the server guarantee.  Upstream never
\* has to say anything, and no client has to read or to leave.  A timer that
\* fired, or a cancellation, stays pending until T's next suspension, be it a
\* read or a send: hence the disjunctions.
RuntimeFairness(r) ==
  /\ WF_vars(Tick(r))
  /\ WF_vars(CreateTimesOut(r))
  /\ WF_vars(StartBody(r) \/ StartBodyLate(r))
  /\ WF_vars(DeadlineInRead(r) \/ AbandonByTimer(r))
  /\ WF_vars(CancelInRead(r) \/ AbandonByDisconnect(r))
  /\ WF_vars(CloseReturns(r) \/ CloseRaises(r) \/ InterruptClose(r))
  /\ WF_vars(Finalize(r))
  /\ WF_vars(FinalizerCloses(r) \/ FinalizerRaises(r))

FairSpec == Spec /\ \A r \in Requests : RuntimeFairness(r)

\* Every client that stays reads what it is sent.
PatientClients == \A r \in Requests : WF_vars(SendReturns(r))

-----------------------------------------------------------------------------
(* Invariants *)

TypeOK ==
  /\ active \in Nat
  /\ pc \in [Requests -> PCs]
  /\ route \in [Requests -> Routes \cup {"none"}]
  /\ upstream \in [Requests -> Upstreams]
  /\ closed \in [Requests -> BOOLEAN]
  /\ exc \in [Requests -> Reported \cup {"none", "CancelledError"}]
  /\ clock \in [Requests -> 0..2]
  /\ connected \in [Requests -> BOOLEAN]
  /\ last \in [Requests -> Frames]
  /\ outcome \in [Requests -> Outcomes]

\* The limiter counts exactly the requests that were let in and are not over:
\* no path of the handler, of a body or of a finalizer frees a slot twice or
\* frees one it does not hold (release() would hide it: it stops at zero),
\* and the count never passes the configured capacity.
SlotAccounting == active = Cardinality(Holders) /\ active <= Capacity

\* The one case in which the code frees a slot without closing the stream: the
\* deadline passed before a Responses body was started, so that the mapper was
\* closed, and with it nothing.
LateStart(r) == /\ route[r] = "responses"
                /\ outcome[r] = "request_deadline"
                /\ closed[r] /\ upstream[r] = "open"

\* A slot is given back only after the request's upstream call has ended or
\* its close has been called, on every path but LateStart.
SlotOutlivesUpstream ==
  \A r \in Requests :
    upstream[r] \in {"pending", "open"} => r \in Holders \/ LateStart(r)

\* A client that stays to the end of a body that ended in a reported error
\* has been sent [DONE] last: the error frame is never the end of the stream.
ErrorBodiesEndWithDone ==
  \A r \in Requests :
    /\ pc[r] = "done"
    /\ connected[r]
    /\ outcome[r] \in {OutcomeOf[e] : e \in Reported}
    => last[r] = "done"

\* The logged outcome names the real cause: the deadline only when it has
\* passed, a disconnect only when the client is gone; and a client still
\* there at the end of a body logged as completed saw all of it unless a
\* timer cut the body off.  (A Responses upstream that stops without a terminal
\* event is logged as completed: the last frame is then content, if any.)
OutcomeNamesCause ==
  \A r \in Requests :
    /\ outcome[r] \in {"request_deadline", "http_timeout"} => clock[r] >= 1
    /\ outcome[r] = "client_disconnect" => ~connected[r]
    /\ pc[r] = "done" /\ outcome[r] = "completed" /\ connected[r] /\ clock[r] = 0
         => last[r] = "done" \/ (route[r] = "responses" /\ last[r] \in {"none", "data"})

\* What goes wrong in a body goes wrong for these reasons only: a body is
\* dropped inside send() because its client is gone or its deadline has passed;
\* a slot is lost only with a body that no except clause of the guard has seen
\* fail, so that its outcome still says completed (it is not logged: the log is
\* skipped with the release), since one that failed has no stream left to close;
\* a stream stays open behind a finished request only by LateStart, after the
\* deadline.
LossesHaveCauses ==
  \A r \in Requests :
    /\ pc[r] \in {"orphaned", "finalizing", "leaked"} => ~connected[r] \/ clock[r] >= 1
    /\ pc[r] = "leaked" => outcome[r] = "completed"
    /\ pc[r] = "done" /\ upstream[r] \in {"pending", "open"} => LateStart(r) /\ clock[r] >= 1

\* Wherever the code of a request is, once its deadline has passed there is a
\* step that ends the use of the upstream and waits for neither the upstream
\* nor the client: the timeout of the call, the start of the body, a timer that
\* is due, or the finalizer.  (A stream given up by LateStart has none.)
DeadlineIsArmed ==
  \A r \in Requests :
    clock[r] >= 1 /\ upstream[r] \in {"pending", "open"} =>
      \/ pc[r] \in {"creating", "handoff"}
      \/ TimerDue(r)
      \/ pc[r] = "orphaned" /\ ~closed[r]
      \/ LateStart(r)

-----------------------------------------------------------------------------
(* Action properties *)

\* A request's upstream stream is closed at most once, whether T or the
\* finalizer does it, and is never read again: the _closed flag and the
\* generators' finally clauses do not both fire.
ClosedOnce ==
  [][\A r \in Requests :
       pc'[r] \in {"closing", "finalizing"} /\ pc[r] # pc'[r]
         => upstream[r] = "open" /\ ~closed[r]]_vars

\* After [DONE] the only frames a client may still be sent are an error frame
\* and its [DONE], when the close that follows fails or is cut short; content
\* never follows an error or a [DONE].
NoContentAfterEnd ==
  [][\A r \in Requests :
       last[r] \in {"error", "done"} => last'[r] \in {"error", "done"}]_vars

-----------------------------------------------------------------------------
(* What the limiter promises: Admission *)

phaseBar == [r \in Requests |->
               CASE pc[r] = "idle"                            -> "waiting"
                 [] pc[r] = "done" /\ outcome[r] = "busy"     -> "refused"
                 [] pc[r] = "done" /\ outcome[r] # "busy"     -> "out"
                 [] OTHER                                     -> "inside"]

A == INSTANCE Admission WITH phase <- phaseBar

\* Every step is a step of Admission or leaves a request's phase alone: a
\* request is refused only when Capacity requests are really inside.
ImplementsAdmission == A!SafeSpec

\* If clients read, and closes do not fail, every request that was let in also
\* comes out: with ImplementsAdmission, all of Admission's Spec.
ImplementsFairAdmission == PatientClients => A!Fairness

-----------------------------------------------------------------------------
(* Who has to give back the slot and to close the stream: Custody *)

slotBar == [r \in Requests |->
              CASE pc[r] \in {"idle", "done"}           -> "free"
                [] pc[r] \in {"orphaned", "finalizing"} -> "finalizer"
                [] pc[r] = "leaked"                     -> "lost"
                [] OTHER                                -> "task"]

\* The close was cut short or raised, or the wrapper is marked as closed and
\* the stream is not: nobody will try again.
GivenUp(r) == \/ upstream[r] = "closing" /\ pc[r] \notin {"closing", "finalizing"}
              \/ upstream[r] \in {"pending", "open"} /\ closed[r]

streamBar == [r \in Requests |->
                IF upstream[r] \in {"none", "closed"} THEN "none"
                ELSE IF GivenUp(r) THEN "nobody"
                ELSE slotBar[r]]

C == INSTANCE Custody WITH slot <- slotBar, stream <- streamBar

\* At every moment one party owes the release of the slot, and the same one the
\* close of the stream if it is open, but for streams given up and slots lost.
ImplementsCustody == C!Spec

-----------------------------------------------------------------------------
(* Liveness *)

\* A slot is freed after its client left, whatever the upstream does and
\* wherever the disconnect hits the body.
DisconnectFreesSlot ==
  \A r \in Requests : ~connected[r] ~> pc[r] = "done"

\* Once the deadline has passed the upstream call is over or being closed
\* (or was given up by LateStart), even if the client stopped reading and
\* neither side ever says anything again.
DeadlineStopsUpstream ==
  \A r \in Requests :
    clock[r] >= 1 ~> \/ upstream[r] \in {"none", "closing", "closed"}
                     \/ LateStart(r)

-----------------------------------------------------------------------------
(* What the documentation says and the code does not do *)

\* "Upstream streams are explicitly closed from finally paths on normal
\* completion, upstream errors, total-deadline expiry, and downstream
\* cancellation": when a request is over, close() was called on its stream.
UpstreamClosedAtEnd ==
  \A r \in Requests : pc[r] = "done" => upstream[r] # "open"

\* "If the timeout occurs after streaming has already started, the gateway
\* emits an OpenAI-shaped SSE error, followed by [DONE]": a body is dropped
\* in the middle only because its client is gone.
DroppedOnlyByClient ==
  \A r \in Requests : pc[r] = "orphaned" => ~connected[r]

\* "A downstream disconnect therefore releases the upstream HTTP response and
\* its in-flight admission slot": no slot is held by a request whose code is
\* over.
NoSlotWithoutRequest == \A r \in Requests : pc[r] # "leaked"

\* The request deadline "caps total wall time": a request whose deadline has
\* passed is eventually over.
DeadlineEndsRequest ==
  \A r \in Requests : clock[r] >= 1 ~> pc[r] = "done"
=============================================================================
