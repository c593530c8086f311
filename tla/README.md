# A TLA+ model of the OpenAI Chat Completions compatibility gateway

The gateway answers `POST /v1/chat/completions` in one of two ways: it passes the
request through to OpenAI's Chat Completions API, or translates it to the
Responses API and the answer back.  It keeps no conversation state.  What it
does keep, for as long as a request lasts, is an admission slot, an upstream HTTP
stream, two timers and a chain of async generators; and what it must not get wrong
is to lose one of these, or to hand a client a stream it cannot put together again.
This directory models that with TLA+, checks it with TLC and proves part of it with
TLAPS.  Paths below are relative to the repository; `chat_completions.py` is
`app/api/chat_completions.py`, `async_chat_service.py` is
`app/services/async_chat_service.py`, and so on.

    tlc -workers 2 -config GatewayBodies.cfg MCGateway     # any run of the table below
    tlapm GatewayRuntime_proofs.tla                        # any module with proofs

## 1. Inventory

| Component | State it keeps | Operations | Talks to |
| --- | --- | --- | --- |
| **Admission control** (`InflightLimiter`, `chat_completions.py:31-57`) | `_active`, `capacity` | `try_acquire`, `release`, `active` | the handler takes a slot, the handler or the body gives it back |
| **Request runtime** (`chat_completions.py:158-439`, `async_chat_service.py`) | per request: `stream_handoff`, the guard's `outcome`, the deadline wrapper's `_closed`, the position of each generator | handler; `_guarded_async_sse`; `_native_async_sse`; `_DeadlineAsyncIterable._iterate`/`aclose`; the four `run_*_async` | limiter, OpenAI SDK, Starlette's task that iterates the body, the event loop's finalizer |
| **Responses stream mapper** (`async_stream_mapper.py`, sync twin `stream_mapper.py`) | `sent_role`, `call_indexes`, `announced_calls`, `function_items`, `completed_items`, citations, tool events | one branch per kind of event | reads upstream events, yields SSE frames to the wrapper |
| **Answer mapper** (`response_mapper.py`, `_finish_reason_for_normalized_response`) | none | `normalize_final_response` | handler, and the mapper's final chunk |
| **Routing and validation** (`chat_service.py:37-187`, `compat.py:60-109`) | none that outlives a request | default `tool_choice`, `select_mode`, `_validate_responses_compatibility`, `_normalize_tool_choice` | the first by the schema, the others by the handler with the slot held |
| **Request preparation** (`chat_service.py:197-365`, `request_mapper.py`, `registry.py`) | none | `_prepare_request`, `to_responses_input`, `merge_builtin_tools`, `build_include_list`, bridge lookup, shared parameters | turns a stored transcript into Responses input, for the adapters |
| **Client package** (`packages/client/.../langchain.py`) | `additional_kwargs["x_openai"]` of the stored messages | request payload, result and chunk conversion | sends back what the gateway returned |
| **Service lifecycle** (`get_service`, `close_service`, `main.py` lifespan, `adapters/client.py`) | `_service`, `_openai_client`, the client's connection pool | lazy creation, shutdown | shared by all requests; closed by the server's lifespan |
| **Legacy log mapper** (`legacy_log_mapper.py`) | `steps`, `pending_tool_calls` while it runs | `to_legacy_log_steps` | final chunk and non-streaming answer |
| **Adapters, schemas** | none that changes | keyword arguments, field types | between the service and the SDK |
| **Tool executor, audit log, config, HTTP shell** | none that changes | log lines, parsing, formatting | - |

What makes each of them correct:

* *Admission control*: the count is the number of requests inside, on every path a
  request can take; a request is refused only when there is no room; every slot comes
  back.
* *Request runtime*: an upstream stream is closed, once, before the slot is freed; a
  client that stays gets an error frame and `[DONE]` when something fails, and no
  content after an end; the logged outcome names what happened; a disconnect or the
  deadline ends the use of the upstream.
* *Stream mapper*: a client that aggregates the chunks gets each tool call whole, and
  what it would have got without streaming; the frames come in the protocol's order.
* *Routing*: a request that needs Responses features goes there, a plain one is not
  refused by the route chosen for it, and what cannot be translated is refused and not
  dropped silently; the tools that are offered and the choice among them fit.
* *Preparation and client*: every response item is replayed once, at its place, and
  every tool output follows its call.
* *Lifecycle*: one client for all requests, closed at shutdown, with everything it still
  holds, and not under a request; a shutdown comes to an end.
* *Legacy log*: it shows the whole answer, each part once and in order.

The behaviours that are hard to test are listed, each at its line, under `hazards` in
`PROJECT.json`.  Most come from three facts.  A body is a *nest of generators driven by
one server task*: a cancellation that arrives while that task reads from upstream runs
through the generators' `except` and `finally` clauses, but one that arrives while it
pushes a frame to the client does not, and the generators are closed later, by the
event loop.  *Two timers* cancel the same task, at times that differ by how long the
call to create the stream took.  And the *slot changes hands* between the handler and
the body.

## 2. Modules

| Module | Code it stands for | What it is |
| --- | --- | --- |
| `Admission` | what `InflightLimiter` promises | abstract specification |
| `Custody` | who owes the release of a request's slot and the close of its stream | abstract specification |
| `GatewayRuntime` | `chat_completions.py`, `async_chat_service.py`, the `finally` of `async_stream_mapper.py` | detailed specification of requests on the async path |
| `ServiceLifecycle` | `get_service`, `close_service`, the lifespan, the client's pool | the service that requests share, from its making to its close |
| `Translation` | `compat.py`, `chat_service.py`, `request_mapper.py`, the async adapters | one request, from its fields to the payload of the upstream call |
| `Conversation` | `select_mode`, `_prepare_request`, `to_responses_input`, the bridge registry, the client package | a conversation of several turns, and what is rebuilt of it |
| `StreamMapper` | `async_stream_mapper.py`, and as a reference `response_mapper.py` | one Responses stream, and the client's view of it |
| `LegacyLog` | `legacy_log_mapper.py` | the display steps of an answer, used by `StreamMapper` |
| `GatewayRuntime_proofs`, `ServiceLifecycle_proofs`, `Translation_proofs`, `Conversation_proofs`, `StreamMapper_proofs`, `LegacyLog_proofs` | | theorems |
| `StreamAnswer_proofs` | | theorems that relate a stream to the answer it carries; extends the two before it |
| `MCGateway`, `MCTranslation`, `MCConversation`, `MCStreamMapper` | | symmetry sets, and the answers and requests that TLC tries |

`GatewayRuntime` implements `Admission`, and both `GatewayRuntime` and
`ServiceLifecycle` implement `Custody` (refinements, checked and proved).
`ServiceLifecycle` sees a request from outside, and `Custody` is what the two agree on;
`StreamMapper` extends `LegacyLog`; `Translation` looks at one request more closely than
`Conversation`, which looks at many.

Definitions have the names of the code where they stand for something named there.
`PROJECT.json` maps each to its lines.  Operators whose name ends in `_Bug` or `Bug`
are plausible mistakes (a forgotten `return`, a flag nobody checks, an index taken
from the wrong counter).  Nothing uses them: put in place of the definition after
them they make a property fail, which shows that the property says something.

### GatewayRuntime

Everything runs on one event loop, so a step is what happens between two awaits.
`pc[r]` is where request *r*'s code is:

| `pc` | Code |
| --- | --- |
| `idle` | not yet received |
| `creating` | slot taken, awaiting the SDK's `create` under `asyncio.timeout` (`async_chat_service.py:70-113`) |
| `handoff` | the `StreamingResponse` was returned, its body not started |
| `reading` | the server's task is inside `async for`, awaiting upstream |
| `sending`, `sending_final`, `sending_done` | a generator is at a yield inside both `async with asyncio.timeout` blocks (or, for native `[DONE]`, inside the guard's), the task is inside `send()`; split by what the generator does when it goes on |
| `closing` | the task awaits `close()` of the upstream stream in a `finally` clause, carrying `exc` |
| `error`, `error_done` | at the guard's own yields (`chat_completions.py:237-256`), which no timer covers |
| `orphaned` | the task was killed inside `send()`; the generators wait for the loop's finalizer |
| `finalizing` | the guard's `finally` clause runs in the finalizer's task and awaits the close |
| `leaked` | that close raised: line 259, the release, is never reached |
| `done` | over, slot given back |

`route` is the branch of the handler: `json` stands for both non-streaming ones, which
differ in what they answer and not in what they hold.  `upstream` is the SDK's stream as
OpenAI sees it, `closed` the wrapper's flag, `last` the last frame handed to the server,
`outcome` the guard's local variable of that name, which the log record at its end has
(none is written if the close before it raises).  `clock[r]` is 1 when the absolute
deadline of the call has passed and 2 when the guard's timer, armed later, is due too.
`IterateArmed` and `GuardArmed` say inside which block each timer is; they differ by route
because the mapper closes the upstream inside the inner block and the native path closes
it after that block.

The steps that follow from libraries, not from this code, are read from how the code
uses them and from the locked versions (Starlette 1.0.0, uvicorn 0.42.0, anyio 4.13.0,
openai 2.52.0):

* The server always starts to iterate a body it was given, and cancels the task that
  does so when the client is gone (`Abandon`, `CancelInRead`); the cancellation is
  delivered again at every await until the task ends, so it wins over a timer.
* A cancellation inside `send()` leaves the generators suspended; the loop's hook for
  dropped async generators then closes the guard in a task of its own (`Finalize`).
  This is CPython: a dropped generator is noticed at once.
* `aclose()` on an async generator that never started runs none of its code.

Left out: the sync fall-backs for injected services (`run_stream`,
`_timeout_safe_sse`, `asyncio.to_thread`); what frames contain; HTTP error bodies.

### ServiceLifecycle

`service` and `openaiClient` are the two globals, `clients` the clients ever made, with
`Clients` as the bound on their number.  A request is reduced to what matters to the
client it uses: the server starts a task for it (`Accept`), its body is read or is not
(`BodyFails`), it is given the service (`Arrive`, which can be while the server drains:
`get_service` is a dependency, called when the body is there, and is followed by the key
check, which runs in a thread), let in when the limiter has room
(`Enter`; `Inside` is the count, by `GatewayRuntime!SlotAccounting`), gets a connection
of the pool or waits at most `OPENAI_POOL_TIMEOUT_SECONDS` for one, and ends.
`connection[r]` is `used` by its stream until that is closed, or `left` to a stream that
only the close of the client will close: one that was given up by `LateStart` (finding 1)
or whose close did not succeed (`GivesUpStream`; the task may go on and send an error
frame).  A body dropped inside `send()` is `orphaned` and keeps slot and stream until the
finalizer has run; if its close raises, the slot is `leaked` (finding 3).
`get_service` and `close_service` up to its await
have no await, so each is one step; the lock in `get_service` adds nothing on one event
loop.  Of uvicorn it takes that the lifespan ends when the tasks of all requests have,
that no graceful timeout is configured (`Dockerfile`), and that a second signal ends the
process.  The lifespan may be run again, as test clients do.  A worker is one process;
`WEB_CONCURRENCY` starts several, which share nothing.

### Translation

One behaviour is one request: `Parse` (the schema's default for `tool_choice`), `Route`
(`select_mode`), then `SendNative`, or `Check` and `SendResponses`, with `Refuse` (a 400)
where the code raises `ValueError`.  `RejectForeign` is the Chat Completions route with a
parameter that neither the schema nor the SDK declares: the adapter passes it on as a
keyword, the SDK's `create` raises `TypeError`, and the client gets a 500.  A request is a
record of what is there, not of what it says: the set of parameters that are given, the
places that have a field the schema does not declare (`Places`: every object that keeps
such fields, both kinds of `x_openai` and a `tool_choice` among them), the declared
functions, what `x_builtin_tools` sets, and for each message its role, the types of its
parts and its optional fields.  Only the two output limits have values, since one wins
over the other.  The payload is what the adapter passes to the SDK.  A part of the input
remembers the type it was made from (`holds`), so that what is dropped can be told.
`Loses` names what the Responses route drops without a 400; `ResponsesCarries` says what
it means that nothing is dropped, from the payload, and does not look at `Loses`.

Of the SDK (openai 2.52.0) it is taken that `create` knows every parameter the schema
declares.  `store` is false on both routes.  The name of a tool message is taken as that
of its call, so that it is not lost with the message's own.

Function names that only differ as aliases are told apart by nothing but `BridgedTo`.
`searched` is what the bridge finds in the transcript, which `Conversation` computes.
Left out: a `tool_choice` that is given as null, values the schema's types refuse, and
the parameters that the upstream refuses by itself.

### Custody

For each request, who will give its slot back (`slot`) and who will close its stream
(`stream`): the server's task, the event loop's finalizer, or nobody.  The two stay
together: a step that passes one on passes the other on, and nobody gives a slot back
while having a stream to close.  What can go wrong is named (`nobody`, `lost`) and not
ruled out, since the code does it.

`GatewayRuntime`'s mapping reads the first from `pc`, and gives a stream to nobody when
its close was cut short or the wrapper is marked as closed before it is (`GivenUp`).
`ServiceLifecycle` implements the same specification with fewer states.  An action that
cannot be mapped is a way for a request to end that one of the two modules has and the
other does not know of.

### Admission

Four phases per request and the steps between them.  `GatewayRuntime`'s `phaseBar`
maps every `pc` other than `idle` and `done` to `inside`, so a slot that leaks stays
visible: the request never comes out.  `Invalid` maps to `TurnAway`: `select_mode` and
`_prepare_request` raise with the slot taken, but before the first await, so that nobody
sees the count in between.

### StreamMapper

One action per kind of upstream event.  The state has the mapper's variables by their
names, the chunks yielded so far (`out`), and what the upstream has sent (`opened`,
`frags`, `finished`, `bare`, `up`), from which the properties compute what the client
ought to have.  A fragment of arguments or text is `<<item, n>>`, so that order, loss
and duplication show.  `function_items` is a function that grows, as the dict does; the
name of a call goes with its id.  A *bare* call has no `output_item.added`; its deltas
then carry call id and name, which is the case the announcement branch of
`function_call_arguments.delta` is for.  The final chunk has the items for replay, the
display steps, and the built-in tool events and citations gathered as items were done,
one of each for an item that has some.  Assumed of OpenAI: an item's deltas come after
its `added` event if it has one, and before its `done`; a call has a call id.

### LegacyLog

`AddItem` is the loop body of `to_legacy_log_steps`, `LegacySteps` the loop, written as a
recursive function (as is `Selected` in `StreamMapper`), which proofs can unfold.
Function calls wait in `pending` for the next message; a built-in call makes two steps at
once.  `ShownIn` is the reference: it says what the steps show without running the loop.

### Conversation

The gateway keeps no conversation, so the module follows the transcript around: the
client stores it (`history`), sends all of it with each request (`Ask`), the gateway
picks a route and prepares the upstream request (`Prepared`, kept in `sent` until the
answer or a failure), and the client stores the answer.  A 400 and an upstream failure
are the same step, `Fails`: nothing is stored and the client may ask again, with the
same parameters or others.  `transcript` is a history variable: for each stored message
the items it stands for.  The client is either the package of this repository, which
keeps `x_openai` with its messages (`compat`), or one that drops it (`stock`).

The Responses input is one list in the code; here it is one block per message, and what is
left out of a message leaves `Absent`, so that "at its place" can be said.  A call's id
stands for its arguments and output.  Function names that only differ as aliases
(`search_web`, `browser_search`) are one.  `nativeOnly` stands for every parameter that
`_validate_responses_compatibility` refuses.  In production the native adapter is always
there, so that `select_mode`'s branches without one are left out.  `extended` says that
there is an `x_builtin_tools`, which decides the route even if it sets nothing.  A client
that sends its state as a prefix, in `x_openai.input_items`, is left out: the items are
put before the messages as they are, and the rest of the request is prepared without them.

Taken from the outside: the Responses API calls no function it was not given
(`AnswersAssumption`), so no bridged one, since `_prepare_request` removes those; a call
id is used once; the application answers every call, once, before it asks again.

## 3. Runs

| Run | Instance | Question |
| --- | --- | --- |
| `gateway_bodies` | 2 requests, 2 slots, closes may fail | slots, closes, frames and outcomes of two bodies in every interleaving, and `Custody!Spec` |
| `gateway_liveness` | 2 requests, 1 slot, `FairSpec` | does the gateway implement `Admission!SafeSpec`? does a disconnect free the slot, and the deadline end the use of the upstream? does every request come out whose client reads, as `Admission!Spec` says? |
| `lifecycle` | 3 requests, 2 slots, 2 connections, 2 clients, `FairSpec` | is there one client, never closed under a request, nothing left open, does each request implement `Custody!Spec`, and does a shutdown complete? |
| `translation` | some 16000 requests | what is lost on the way upstream, and is a request only refused when it must be? |
| `stream_mapper` | 2 calls with 2 deltas each, 1 message with 1, 1 web search | do the client's calls come out whole, and all as without streaming? |
| `conversation` | 4 calls (two custom, a web search, a file search), 6 messages, 9 kinds of request, both clients | is what the gateway rebuilds what was said? |
| `doc_nothing_dropped` | as `translation` | a sentence of the documentation that the code does not keep (section 6) |
| `doc_bridged_tools` | as `conversation`, 2 messages | a sentence of the documentation that the code does not keep (section 6) |
| `doc_upstream_closed`, `doc_error_frame`, `doc_slot_released`, `doc_deadline_caps` | 1 request, 1 slot | sentences of the documentation that the code does not keep (section 6) |

Properties of `gateway_bodies`:

* `SlotAccounting`: `_active` equals the number of requests that were let in and are
  not over.  `release()` stops at zero and so would hide a double release; comparing it
  with the requests does not.
* `SlotOutlivesUpstream`: the slot is freed after the upstream call ended or its close
  was called, with the one exception `LateStart` names (finding 1).
* `ErrorBodiesEndWithDone`, `NoContentAfterEnd`: what a client that stays sees.
* `OutcomeNamesCause`: a logged deadline passed, a logged disconnect happened, and a body
  logged as completed was sent to its `[DONE]` if no deadline or disconnect came in
  between; the one exception is a Responses upstream that stops with no terminal event.
* `ClosedOnce`: four places may close the stream; one does.
* `LossesHaveCauses`: what goes wrong has a cause.  A body is dropped inside `send()` only
  after a disconnect or the deadline, a slot is lost only with a body whose `outcome` is
  still `completed` (its log record is skipped together with the release), and a stream is
  left open only by `LateStart` after the deadline.
* `DeadlineIsArmed`: wherever the code of a request is when its deadline passes, a step
  that ends the use of the upstream is there and waits for nobody.  It is the safety half
  of `DeadlineStopsUpstream`, and holds of any number of requests.
* `ImplementsCustody`: at any time one party owes the release of the slot, and the same
  one the close of the stream.

Two requests suffice for these: requests meet only in the limiter's counter, and the
properties are about one request or about the counter.  All orders of events within a
body are short: the longest behaviour of one request is about fifteen steps, and no
counter in the model grows, so nothing is cut off there.  Symmetry is used for safety
only, and in no run with a fairness condition.

`gateway_liveness` also checks `ImplementsAdmission`: with two requests for one slot the
second is refused while the first is inside, at the exact limit, or let in after it came
out.  More requests than two, and more slots, are covered by the proof.

Properties of `lifecycle`:

* `OneClient`: a client with connections is the one that both globals name, however
  many requests come first and however often the lifespan is run.
* `NoUseAfterClose`: `close_service` never closes the client of a request that runs.
  The code does nothing for this; it follows from the order in which the server stops.
* `NothingLeftOpen`: after the lifespan no client and no stream is open, so what finding
  1 leaves open lasts as long as the process at most.
* `SlotsLimitConnections`: with no fewer connections than slots, a request that was let
  in waits for a connection only after a stream was left open.
* `ImplementsCustody`: as above; of a shutdown it says that it closes no stream which a
  request's task uses.
* `ShutdownCompletes`: a signal ends the server.

Three requests for two slots are what it takes to have the limit reached and one waiting
behind a stream left open; two clients, for a lifespan run twice.  A further client would
do what the second does, and the proofs cover any number.

Properties of `translation`: `OnlyKnownLosses` (a request sent to the Responses API is
there in full, each parameter, tool, message, part and field in some form, exactly if it
has nothing of what `Loses` names; Chat Completions gets all but the gateway's own
extensions), `OrdinaryNeverRefused` (a request that uses no extension and no bridged name
is only refused if it asks for reasoning with tools), `ChoiceMatchesTools` (a client that
leaves the choice to the gateway has its tools offered for use, a function it forces is
sent along; two gaps are named in the property, see section 6).  README.md:22 promises a
400 in place of every loss; that is `NothingDropped`, which `doc_nothing_dropped` refutes.
The code looks at parameters, undeclared fields, tools and messages separately, so the
requests are families, each with all combinations of its own: parameters with stream
options; the two limits, with 0; one or two places with undeclared fields; any set of a
custom and two bridged functions with any choice and built-in tools; a message of each
kind of role with every part, some pairs of parts, and up to two optional fields, of
whatever role they are.  The proofs cover every mixture.

Properties of `stream_mapper`: `ToolCallsReassemble` (whatever the interleaving, all of a
call's fragments, in order, are under one index whose first chunk names it),
`IndexesDense`, `FrameOrder`, `StreamAgreesWithAnswer` (the same calls in the same
positions, the same finish reason, events and citations of the same items as
`normalize_final_response` and `_finish_reason_for_normalized_response` give, and every
output item kept once for replay; what an event says of its item is not compared, and a
streamed file search or code interpreter event says less), and `LegacyStepsShowAnswer`
(the display steps show every message and built-in call once, in order, and each function
call with the first message after it).  Two calls are what parallel calls need, since
indexes are handed out by the size of a dict and only equality of keys matters; two deltas
show order, loss and repetition; the message and the web search may come before, between
or behind the calls. One message does not show a call with the wrong one of two messages,
and a run with two takes longer than a run should; `StepsShowItems` and
`FinalStepsShowAnswer` cover any number. `MaxFrags` (deltas of a call) and `MaxContent`
(deltas of a message) are the bounds.  The constant `Others` (reasoning items) is empty
here: they take a subset of the steps of the message.

Properties of `conversation`: `LosslessReplay` (with a client that keeps the state, the
input is the transcript item by item, but for both halves of bridged calls),
`CallsPaired` (with any client, each output follows its one call and each call has its
one output), `ReasoningStaysWithResponses` (no silent change to the route that forgets
reasoning), `BridgedSearchesAsked`.  Six messages are a question, an answer with two
parallel calls, both outputs in either order, the final answer, and one more question,
so that a request is made with an answer of each route, and of both, behind it.
Parallel calls need two; each kind of bridged search is there once.

### Fairness

`FairSpec` asks for what the event loop, its timers and the server give: time passes
(`Tick`), a call under `asyncio.timeout` ends, a body handed over is started, a due
timer or a pending cancellation is delivered at the task's next suspension, be it in a
read or in a send (hence one fairness condition for both), and an awaited `close()`
returns, raises or is interrupted.  It asks nothing of OpenAI, which may stay silent,
and nothing of the client, which may stay and not read.  `PatientClients` says that
`send()` returns; `ImplementsFairAdmission` assumes it, since "every request let in comes
out" needs it, as finding 4 shows.  The run takes `CloseMayFail = FALSE`: with a close
that raises in the finalizer the slot is lost (finding 3) and the properties are false.

`ServiceLifecycle!FairSpec` asks that a client whose request the server has begun to read
sends the rest or leaves, that the loop runs its tasks, that a wait for a
connection ends (the pool timeout is set, `adapters/client.py:7-20`), that a request in
progress ends (its deadline, and a client that reads or leaves: what
`ImplementsFairAdmission` says of it) or its body is dropped, that dropped bodies are
finalized, with success or not, and that the client's close returns.  It asks for no
signal and no new run of the lifespan.  A client that stays, and neither sends nor reads,
keeps a shutdown waiting for ever, as finding 4 suggests; `ShutdownCompletes` is about the
waits that are the gateway's own.

## 4. Proofs

The theorems hold for every value of the constants that the named assumptions allow: every
set of requests, infinite ones included, and every positive capacity
(`CapacityAssumption`); any number of connections and clients (`SettingsAssumption`,
`NoneAssumption`); any calls, messages and built-in calls and any `MaxFrags` and
`MaxContent` (`FragsAssumption`, `NamesAssumption`, `KindsAssumption`: an item has one
type); any functions, bridges and requests with transcripts of any length
(`BridgesAssumption`, and `Translation`'s `RequestsAssumption`); and conversations of any
length with any calls, requests and answers (`CallsAssumption`, `AnswersAssumption`,
`RequestsAssumption`, `BoundsAssumption`).

| Module | Theorem | States | Argument |
| --- | --- | --- | --- |
| `GatewayRuntime_proofs` | `TypeCorrect` | `Spec => []TypeOK` | one case per action |
| | `SlotsAccounted` | `Spec => []SlotAccounting` | `SlotInv` adds that `Holders` is finite, without which its cardinality says nothing: an action either leaves `Holders` alone, adds one request (guarded by `CanAcquire`), or removes one and releases; lemmas about the cardinality of a set with one element more or less |
| | `SlotOutlives` | `Spec => []SlotOutlivesUpstream` | needs `StreamInv` |
| | `ClosesOnce` | `Spec => ClosedOnce` | needs `StreamInv` |
| | `ErrorsEndWithDone` | `Spec => []ErrorBodiesEndWithDone` | needs `ClientInv` |
| | `LogNamesCause` | `Spec => []OutcomeNamesCause` | needs `ClientInv` |
| | `EndIsEnd` | `Spec => NoContentAfterEnd` | needs `ClientInv` |
| | `Implements` | `Spec => ImplementsAdmission` | refinement: each action maps to a step of `Admission` or leaves `phaseBar` as it is; `Refuse` and `Admit` use `SlotsAccounted` to turn `active` into the number of requests inside |
| | `LossesExplained` | `Spec => []LossesHaveCauses` | `StreamInv`, `ClientInv` and `LossInv`: `outcome` keeps its first value until an `except` clause of the guard has run, and a leaked slot has a disconnect or a deadline behind it |
| | `DeadlineArmed` | `Spec => []DeadlineIsArmed` | from `StreamInv` and `LossInv` alone: with the deadline behind it, every `pc` with a stream in use is inside an armed timer, before its body, or with the finalizer |
| | `OnlyClosesLoseSlots` | `Spec => []NoSlotWithoutRequest`, if `~CloseMayFail` | finding 3 is the only way to lose a slot |
| | `CustodyKept` | `Spec => ImplementsCustody` | refinement: each action is a step of `Custody` or leaves both mappings alone; `StreamInv` says where a stream can be open |
| `ServiceLifecycle_proofs` | `TypeCorrect`, `SingleClient` | `Spec => []TypeOK`, `Spec => []OneClient` | parts of `Inv`: both globals agree and name an open client or none; no service and no request while the server closes or has stopped; a request that is served uses the service there is; a connection belongs to a client that is not closed |
| | `NeverClosedUnderRequest`, `ClosesEverything` | `Spec => []NoUseAfterClose`, `Spec => []NothingLeftOpen` | from `Inv` |
| | `SlotsAreTheLimit` | `Spec => SlotsLimitConnections` | if no stream was left open, a connection in use is a slot in use, and the request that comes in has none yet: by cardinality the pool has room; `FinitelyMany` says the sets are finite |
| | `CustodyKept` | `Spec => ImplementsCustody` | refinement: `Inv` says who can have a connection; `ClientClosed` is `Custody!CloseClient` for the requests of the client that is closing, none of which has a task |
| `Translation_proofs` | `TypeCorrect`, `OrdinaryPasses`, `ChoiceFits` | `Spec => []TypeOK`, `[]OrdinaryNeverRefused`, `[]ChoiceMatchesTools` | `StepInv`: what each step of the handler has made of the request so far |
| | `LosesNoMore` | `Spec => []OnlyKnownLosses` | `StepInv`; a message that passes the check and the conversion is in its input item, part by part and field by field, but for the fields `FieldLost` names |
| `StreamMapper_proofs` | `DenseIndexes` | `Spec => []IndexesDense` | `IndexInv`: `call_indexes` is a bijection from a finite set of keys to the numbers below its size |
| | `FramesInOrder` | `Spec => []FrameOrder` | `FrameInv`: before the last event there is the role, once, and then content and calls only; the last event's two or three chunks are put behind them place by place |
| | `TypeCorrect` | `Spec => []TypeOK` | `UpstreamType`, `MapperType` and `FrameInv` |
| `LegacyLog_proofs` | `StepsShowItems` | `ShownIn(LegacySteps(items), items)` for every sequence of items without duplicates | induction over the loop: `PendingStep` says what waits, `ShownStep` that one more item keeps shown what was and shows what is new |
| `StreamAnswer_proofs` | `CallsReassemble` | `Spec => []ToolCallsReassemble` | `OpenInv` and `ChunkInv` |
| | `StreamAgrees` | `Spec => []StreamAgreesWithAnswer` | the same for the calls, `DoneInv` and `FinalInv` for the rest; `SameAnswer`: what is selected from two orders of the same items are the same items |
| | `FinalStepsShowAnswer` | `Spec => []LegacyStepsShowAnswer` | `FinalInv`, and `StepsShowItems` for the items of the final chunk |
| `Conversation_proofs` | `TypeCorrect` | `Spec => []TypeOK` | from `ReplayInv` |
| | `ReplaysAll` | `Spec => []LosslessReplay` | `ReplayInv`; one lemma per kind of message compares its block with what it stands for |
| | `ReasoningStays` | `Spec => []ReasoningStaysWithResponses` | `ReplayInv`: only an answer with state stands for hidden items, and `select_mode` looks at every answer |
| | `SearchesAsked` | `Spec => []BridgedSearchesAsked` | `ReplayInv` |
| | `CallsStayPaired` | `Spec => []CallsPaired` | `PairInv`; `BlockCalls` says which calls and outputs a block has |

`StreamInv` is needed because neither property is inductive: it ties `pc`, `upstream`
and `closed` together (while the task reads or sends, the stream is open and the flag
down, but for a native body's `[DONE]`; in a close, the flag is up; and so on), which is
what an action's guard on `pc` alone does not give.  `ClientInv` does the same for what
the client sees: it ties `last`, `outcome`, `exc` and `clock` to `pc` (in a close, the
exception on its way has its cause; after an error is logged, an error frame or its
`[DONE]` is what comes next).  Neither says that a body inside a timer has nothing logged
yet, which is when the guard's timer is armed; `LossInv` does.

The properties of `Conversation` speak of the request on its way only, which says nothing
about the next step.  `ReplayInv` says why they hold of it: the request was made from the
history as it still is, and every message of that history stands for what was said
(`StandsFor`).  `PairInv` adds that calls are made once, answered once and later, and
that no transcript is sent with an open call.  The sequences are compared place by
place; nothing in the module is recursive.

`ToolCallsReassemble` and `StreamAgreesWithAnswer` speak of what a client computes from
all the chunks, which a step extends by one or two.  `OpenInv` ties the mapper to the
upstream: exactly the opened calls have an index, and the *n*-th call of the output has
index *n* - 1.  `ChunkInv` says of every call chunk whose it is, which fragment it
carries and whether it names the call, and that the fragments of a call go up from chunk
to chunk; the client's view of an index is then the chunks of one call (`ChunksOfCall`).
`DoneInv` says that `completed_items` has the finished items once each.  `FinalInv` says
what the chunk before the end has, whichever way the terminal event came (with the
output in it or not), and that an upstream that completes has finished all it opened.

The theorems about whole sequences need induction over their length.  The induction
principles of the prover's library take an operator as a parameter, which the provers
cannot instantiate; `LegacyLog_proofs` therefore states induction of *sets* of numbers
(`NatInductionSet`, from the fact that every set of numbers has a least element) and from
it that a function defined by recursion along a sequence exists (`WalkExists`), since
TLA+ defines it by `CHOOSE`.  `LegacySteps` and `Selected` are unfolded by these two.

What stays with TLC: liveness and the fair refinement (`DisconnectFreesSlot`,
`DeadlineStopsUpstream`, `ImplementsFairAdmission`, `ShutdownCompletes`), which need
`ENABLED`.  Every other property of a run is proved.

## 5. Not modelled

* `Conversation` with `x_openai.input_items`, the prefix of a client that keeps its state
  elsewhere.  `Translation` says that it decides the route and is sent; where its items
  stand against the messages is the client's affair, since the gateway does not look into
  them.
* The sync path (`run_nonstream`, `run_stream`, `_timeout_safe_sse`, `asyncio.to_thread`,
  the sync adapters and `stream_mapper.py`).  `get_service` builds an `AsyncChatService`,
  so it is reached only with services that tests inject.  Its mapper is the async one,
  line for line, but for the close.
* `GatewayRuntime` with `StreamMapper` in place of its abstract frames.  The two meet in
  the frames only: `GatewayRuntime` cuts a body off after any of them, and `FrameOrder`
  and the properties of indexes hold after every event.
* What texts say: prompts, arguments, the queries of bridged searches, usage numbers,
  titles of citations, names of tools in display steps, messages of errors.
* The tool executor is built and never called on a request path.  The audit log writes a
  line that nothing reads.  Configuration is read once at import; the models take its
  values as constants with the assumptions it enforces.  Exception handlers, `/healthz`,
  packaging and CI compute tables or nothing.

What could be added: the client with a prefix, as a third kind of client in
`Conversation`; and the frames of `StreamMapper` in `GatewayRuntime`'s bodies, if the two
ever share more than their order.

## 6. Where the code and its documentation part

Each is a run that ends in a counterexample.

1. `doc_upstream_closed` (`async_chat_service.py:28`).  When the deadline passes between
   the creation of a Responses stream and the first iteration of its body, the mapper is
   closed before it was started, and nobody closes the upstream stream.
2. `doc_error_frame` (`chat_completions.py:234`).  A timer that fires while a frame is
   being pushed to a slow client drops the body without the documented error frame and
   `[DONE]`, and it is logged as completed.
3. `doc_slot_released` (`chat_completions.py:258`).  A close that raises in the finalizer
   of a dropped body skips the release; the slot is gone until the process restarts.
4. `doc_deadline_caps` (`chat_completions.py:243`).  The frames sent after the deadline
   are outside both timers; a client that stays and does not read keeps its slot.
5. `doc_bridged_tools` (`request_mapper.py:248`).  A function named `file_search` is taken
   from the model, but the built-in tool it is said to be converted to is not given: the
   bridge sets an empty configuration, and an empty configuration counts as none.
6. `doc_nothing_dropped` (`chat_service.py:353` and others).  Some of what a request may say
   is dropped on the Responses route without the 400 that README.md:22 promises: an
   output limit of 0; a refusal, calls, replay state or a call id on a message of a role
   they do not belong to; undeclared fields of `x_openai` and of a `tool_choice`; an empty
   `response_format`; built-in tools with an empty configuration.

Observed while modelling and named in the models, without a run of their own:

* A `tool_choice` that forces a bridged function (`chat_service.py:176`) is sent on,
  while the function is taken out of the tools: `ForcesBridged` in `Translation`.
* The default of `tool_choice` is set before the bridge adds a web search for the
  transcript (`compat.py:107`): with no tool in the request the search is offered and
  forbidden at once: `SearchForbidden`.
* A parameter that neither the schema nor the SDK knows is answered with a 400 on the
  Responses route and a 500 on the other (`openai_chat_completions.py:49`):
  `RejectForeign`.
* Undeclared fields of `x_openai` are dropped on both routes, like the rest of it.
* README.md:17 sends reasoning with tools to Responses; a request with audio input
  stays with Chat Completions (`chat_service.py:58`).
* A function call that no message follows is in no display step
  (`legacy_log_mapper.py:53`), and most answers with calls end in one.
* A response cut off by its length after a function call ends with `length` when
  streamed and `tool_calls` when not; `StreamAgreesWithAnswer` is about completed ones.
