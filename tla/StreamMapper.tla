---------------------------- MODULE StreamMapper ----------------------------
(***************************************************************************)
(* map_async_stream_events (app/mappers/async_stream_mapper.py; its sync   *)
(* twin in stream_mapper.py does the same): the events of one upstream     *)
(* Responses stream are turned into Chat Completions chunks, one event at  *)
(* a time, and a client puts the message together again from the chunks.   *)
(*                                                                         *)
(* The upstream half of the state (opened, frags, finished, bare, up) is   *)
(* what OpenAI has sent.  Output items are opened in output order, calls   *)
(* may run in parallel and finish in any order.  A call either has an      *)
(* output_item.added event, and argument deltas that name only its item    *)
(* id, or (bare) it has neither and its deltas carry call id and name.     *)
(*                                                                         *)
(* Abstracted: the text of deltas (fragment n of item i is <<i, n>>), the  *)
(* ids and times of chunks, what an event or a citation says of its item.  *)
(* A call always has a call id.  An operator whose name ends in _Bug is a  *)
(* wrong version of the definition after it, used only to see that a       *)
(* property notices.                                                       *)
(***************************************************************************)
EXTENDS LegacyLog, FiniteSets

CONSTANTS WebSearches,  \* the built-in calls that cite sources
          Others,       \* reasoning items
          MaxFrags,     \* bound: deltas of one call
          MaxContent,   \* bound: deltas of one message
          None          \* Python's None

ASSUME FragsAssumption == MaxFrags \in Nat /\ MaxContent \in Nat
ASSUME NamesAssumption == None \notin Calls

VARIABLES
  opened,        \* the upstream's output items, in output order
  frags,         \* deltas sent of each item
  finished,      \* items whose output_item.done was sent
  bare,          \* calls that had no output_item.added
  up,            \* "open" until the last event of the stream
  includeUsage,  \* stream_options.include_usage
  sentRole, callIndexes, announcedCalls, functionItems,
  completedItems,
  out            \* the chunks yielded so far

upstreamVars == <<opened, frags, finished, bare, up, includeUsage>>
mapperVars == <<sentRole, callIndexes, announcedCalls, functionItems, completedItems, out>>
vars == <<upstreamVars, mapperVars>>

Items == Calls \cup Messages \cup Builtins \cup Others

\* The item id of a call is not its call id.
ItemId(c) == <<"fc", c>>

Keys == Calls \cup {ItemId(c) : c \in Calls}

IsOpened(i) == \E n \in DOMAIN opened : opened[n] = i

IsOpen(i) == IsOpened(i) /\ i \notin finished

-----------------------------------------------------------------------------
(* call_index: the position of a call in the client's list of tool calls   *)

\* The index of the call that came in last, whichever it is.
CallIndex_Bug(indexes, key) == Cardinality(announcedCalls)

CallIndex_OffByOneBug(indexes, key) ==
  IF key \in DOMAIN indexes THEN indexes[key] ELSE Cardinality(DOMAIN indexes) - 1

CallIndex(indexes, key) ==
  IF key \in DOMAIN indexes THEN indexes[key] ELSE Cardinality(DOMAIN indexes)

WithCall(indexes, key) ==
  [k \in DOMAIN indexes \cup {key} |-> CallIndex(indexes, k)]

-----------------------------------------------------------------------------
(* Chunks *)

ContentChunk(i) == [kind |-> "content", data |-> <<i, frags[i] + 1>>]

\* id is None on every chunk of a call but the one that announces it.
CallChunk(index, id, data) ==
  [kind |-> "call", index |-> index, id |-> id, data |-> data]

\* A loop over the items that collects those of some kinds.  (SelectSeq, as a
\* recursive function: the proofs need its recursion.)
Selected(items, kinds) ==
  LET upTo[n \in 0..Len(items)] ==
        IF n = 0 THEN <<>>
        ELSE upTo[n - 1] \o (IF items[n] \in kinds THEN <<items[n]>> ELSE <<>>)
  IN  upTo[Len(items)]

\* builtin_tool_events and citations, one for each item that has some.
EventsOf(items) == Selected(items, Builtins)

CitationsOf(items) == Selected(items, Messages \cup WebSearches)

\* noted: the items whose output_item.done was seen.
FinalChunk(finish, items, noted) ==
  [kind |-> "final", finish |-> finish, items |-> items, legacy |-> LegacySteps(items),
   events |-> EventsOf(noted), citations |-> CitationsOf(noted)]

Plain(kind) == [kind |-> kind]

\* The chunks an event yields, after the role chunk if it is the first event.
Yields(chunks) ==
  /\ out' = out \o (IF sentRole THEN <<>> ELSE <<Plain("role")>>) \o chunks
  /\ sentRole' = TRUE

-----------------------------------------------------------------------------
(* Initial state *)

Init ==
  /\ opened = <<>>
  /\ frags = [i \in Items |-> 0]
  /\ finished = {}
  /\ bare = {}
  /\ up = "open"
  /\ includeUsage \in BOOLEAN
  /\ sentRole = FALSE
  /\ callIndexes = [k \in {} |-> 0]
  /\ announcedCalls = {}
  /\ functionItems = [k \in {} |-> None]
  /\ completedItems = <<>>
  /\ out = <<>>

-----------------------------------------------------------------------------
(* One action per kind of event *)

\* response.created, an empty delta, a kind nobody maps: only the role.
Ignored ==
  /\ up = "open"
  /\ ~sentRole
  /\ Yields(<<>>)
  /\ UNCHANGED <<upstreamVars, callIndexes, announcedCalls, functionItems, completedItems>>

Opens(i) ==
  /\ up = "open"
  /\ ~IsOpened(i)
  /\ opened' = Append(opened, i)

\* output_item.added of anything but a function call.
ItemAdded(i) ==
  /\ Opens(i)
  /\ Yields(<<>>)
  /\ UNCHANGED <<frags, finished, bare, up, includeUsage, callIndexes,
                 announcedCalls, functionItems, completedItems>>

\* The call is announced, but what item id its deltas will name is forgotten.
CallAdded_Bug(c) ==
  /\ Opens(c)
  /\ callIndexes' = WithCall(callIndexes, c)
  /\ announcedCalls' = announcedCalls \cup {c}
  /\ Yields(<<CallChunk(CallIndex(callIndexes, c), c, <<c, 0>>)>>)
  /\ UNCHANGED <<frags, finished, bare, up, includeUsage, functionItems, completedItems>>

\* output_item.added of a function call: announced with empty arguments.
CallAdded(c) ==
  /\ Opens(c)
  /\ functionItems' = [k \in DOMAIN functionItems \cup {ItemId(c)} |->
                         IF k = ItemId(c) THEN c ELSE functionItems[k]]
  /\ callIndexes' = WithCall(callIndexes, c)
  /\ announcedCalls' = announcedCalls \cup {c}
  /\ Yields(<<CallChunk(CallIndex(callIndexes, c), c, <<c, 0>>)>>)
  /\ UNCHANGED <<frags, finished, bare, up, includeUsage, completedItems>>

\* output_text.delta or refusal.delta.
ContentDelta(i) ==
  /\ up = "open"
  /\ IsOpen(i)
  /\ frags[i] < MaxContent
  /\ frags' = [frags EXCEPT ![i] = @ + 1]
  /\ Yields(<<ContentChunk(i)>>)
  /\ UNCHANGED <<opened, finished, bare, up, includeUsage, callIndexes,
                 announcedCalls, functionItems, completedItems>>

\* The call id a delta is booked under: its own, or the one remembered for
\* its item id, or the item id.
BookedUnder(c) ==
  IF c \in bare' THEN c
  ELSE IF ItemId(c) \in DOMAIN functionItems THEN functionItems[ItemId(c)]
  ELSE ItemId(c)

\* function_call_arguments.delta, of a call that is open or starts bare.
ArgumentsDelta(c) ==
  /\ \/ /\ up = "open" /\ IsOpen(c)
        /\ UNCHANGED <<opened, bare>>
     \/ /\ Opens(c)
        /\ bare' = bare \cup {c}
  /\ frags[c] < MaxFrags
  /\ frags' = [frags EXCEPT ![c] = @ + 1]
  /\ LET id == BookedUnder(c)
     IN  /\ callIndexes' = WithCall(callIndexes, id)
         /\ announcedCalls' = announcedCalls \cup {id}
         /\ Yields(<<CallChunk(CallIndex(callIndexes, id),
                               IF id \in announcedCalls THEN None ELSE id,
                               <<c, frags[c] + 1>>)>>)
  /\ UNCHANGED <<finished, up, includeUsage, functionItems, completedItems>>

\* output_item.done: kept for the final chunk, and its citations and events
\* noted.
ItemDone(i) ==
  /\ up = "open"
  /\ IsOpen(i)
  /\ finished' = finished \cup {i}
  /\ completedItems' = Append(completedItems, i)
  /\ Yields(<<>>)
  /\ UNCHANGED <<opened, frags, bare, up, includeUsage, callIndexes,
                 announcedCalls, functionItems>>

\* Only the last item is looked at.
StreamFinishReason_Bug(items, reason) ==
  IF reason = "max_output_tokens" THEN "length"
  ELSE IF items # <<>> /\ items[Len(items)] \in Calls THEN "tool_calls"
  ELSE "stop"

StreamFinishReason(items, reason) ==
  IF reason = "max_output_tokens" THEN "length"
  ELSE IF \E n \in DOMAIN items : items[n] \in Calls THEN "tool_calls"
  ELSE "stop"

\* response.completed or response.incomplete, for which the response may or
\* may not repeat its output.
Terminal(reason, output) ==
  LET items == IF output # <<>> THEN output ELSE completedItems
  IN  /\ completedItems' = items
      /\ Yields(<<FinalChunk(StreamFinishReason(items, reason), items, completedItems)>>
                \o (IF includeUsage THEN <<Plain("usage")>> ELSE <<>>)
                \o <<Plain("done")>>)
      /\ UNCHANGED <<opened, frags, finished, bare, includeUsage, callIndexes,
                     announcedCalls, functionItems>>

Completed(output) ==
  /\ up = "open"
  /\ \A n \in DOMAIN opened : opened[n] \in finished
  /\ up' = "completed"
  /\ Terminal("none", output)

Incomplete(reason, output) ==
  /\ up = "open"
  /\ up' = reason
  /\ Terminal(reason, output)

\* The return after the error frame is missing.
Failed_Bug ==
  /\ up = "open"
  /\ Yields(<<Plain("error"), Plain("done")>>)
  /\ UNCHANGED <<upstreamVars, callIndexes, announcedCalls, functionItems, completedItems>>

\* response.failed or error.
Failed ==
  /\ up = "open"
  /\ up' = "failed"
  /\ Yields(<<Plain("error"), Plain("done")>>)
  /\ UNCHANGED <<opened, frags, finished, bare, includeUsage, callIndexes,
                 announcedCalls, functionItems, completedItems>>

\* The stream stops without a terminal event: no final chunk and no [DONE].
Ends ==
  /\ up = "open"
  /\ up' = "ended"
  /\ UNCHANGED <<opened, frags, finished, bare, includeUsage, mapperVars>>

Over == up # "open" /\ UNCHANGED vars

Next == \/ Ignored
        \/ \E i \in Items \ Calls : ItemAdded(i)
        \/ \E c \in Calls : CallAdded(c)
        \/ \E i \in Messages : ContentDelta(i)
        \/ \E c \in Calls : ArgumentsDelta(c)
        \/ \E i \in Items : ItemDone(i)
        \/ \E output \in {<<>>, opened} : Completed(output)
        \/ \E reason \in {"max_output_tokens", "content_filter"}, output \in {<<>>, opened} :
             Incomplete(reason, output)
        \/ Failed
        \/ Ends
        \/ Over

Spec == Init /\ [][Next]_vars

-----------------------------------------------------------------------------
(* The non-streaming answer to the same request, as a reference            *)

\* normalize_final_response: the tool calls of the answer, in output order.
AnswerCalls(items) == Selected(items, Calls)

\* _finish_reason_for_normalized_response
AnswerFinishReason(items, reason) ==
  IF AnswerCalls(items) # <<>> THEN "tool_calls"
  ELSE IF reason = "max_output_tokens" THEN "length"
  ELSE "stop"

-----------------------------------------------------------------------------
(* Invariants *)

TypeOK ==
  /\ opened \in Seq(Items)
  /\ frags \in [Items -> Nat]
  /\ \A c \in Calls : frags[c] <= MaxFrags
  /\ \A m \in Messages : frags[m] <= MaxContent
  /\ finished \subseteq Items
  /\ bare \subseteq Calls
  /\ up \in {"open", "completed", "max_output_tokens", "content_filter", "failed", "ended"}
  /\ includeUsage \in BOOLEAN
  /\ sentRole \in BOOLEAN
  /\ DOMAIN callIndexes \subseteq Keys
  /\ callIndexes \in [DOMAIN callIndexes -> Nat]
  /\ announcedCalls \subseteq Keys
  /\ DOMAIN functionItems \subseteq Keys
  /\ functionItems \in [DOMAIN functionItems -> Calls]
  /\ completedItems \in Seq(Items)
  /\ \A n \in DOMAIN out :
       out[n].kind \in {"role", "content", "call", "final", "usage", "error", "done"}

\* The chunks, by their positions, that a client books under tool call n.
ChunksOf(n) == {p \in DOMAIN out : out[p].kind = "call" /\ out[p].index = n}

\* What the first chunk of a call carries: its first fragment, or before that
\* the empty arguments it is announced with.
FirstFrag(c) == IF c \in bare THEN 1 ELSE 0

\* A client that gathers chunks by index rebuilds every call, however the
\* upstream interleaves parallel calls and whether or not it announces them:
\* one index holds exactly the call's own fragments, in order and none twice,
\* and the first of them, only, names the call.
ToolCallsReassemble ==
  \A c \in Calls : IsOpened(c) =>
    \E n \in 0..Len(opened) - 1 :
      /\ {out[p].data : p \in ChunksOf(n)} = {<<c, k>> : k \in FirstFrag(c)..frags[c]}
      /\ \A p, q \in ChunksOf(n) : p < q => out[p].data[2] < out[q].data[2]
      /\ \A p \in ChunksOf(n) :
           out[p].id = IF out[p].data = <<c, FirstFrag(c)>> THEN c ELSE None

\* Indexes are handed out densely and no two calls share one.
IndexesDense ==
  /\ \A k, l \in DOMAIN callIndexes : callIndexes[k] = callIndexes[l] => k = l
  /\ \A k \in DOMAIN callIndexes : callIndexes[k] < Cardinality(DOMAIN callIndexes)

\* The chunks of a stream are: the role, content and calls, then either one
\* final chunk (with the usage chunk behind it if asked for) and [DONE], or an
\* error and [DONE]; nothing follows [DONE], and only an upstream that stops
\* without a terminal event leaves a client without it.
FrameOrder ==
  /\ \A n \in DOMAIN out : (out[n].kind = "role") = (n = 1)
  /\ \A n \in DOMAIN out : out[n].kind = "done" => n = Len(out)
  /\ \A n \in DOMAIN out : out[n].kind \in {"final", "error"} =>
       \A m \in n+1..Len(out) : out[m].kind \in {"usage", "done"}
  /\ up \in {"completed", "max_output_tokens", "content_filter"} =>
       /\ out[Len(out)].kind = "done"
       /\ out[Len(out) - 1].kind = IF includeUsage THEN "usage" ELSE "final"
  /\ up = "failed" => out[Len(out)].kind = "done" /\ out[Len(out) - 1].kind = "error"

FinalOf == out[IF includeUsage THEN Len(out) - 2 ELSE Len(out) - 1]

SameItems(s, t) == /\ Len(s) = Len(t)
                   /\ \A n \in DOMAIN t : \E m \in DOMAIN s : s[m] = t[n]

\* What a client aggregates from a completed stream is what it would have got
\* without streaming: the same calls in the same positions, the same finish
\* reason, state for replay that holds every output item exactly once, and, in
\* an order of their own, citations and built-in tool events of the same items.
\* What an event says is not compared: that of a file search or of a code
\* interpreter has less in a stream (response_mapper.py:127-155).
StreamAgreesWithAnswer ==
  up = "completed" =>
    LET calls == AnswerCalls(opened)
    IN  /\ \A n \in DOMAIN calls :
             \E p \in ChunksOf(n - 1) : /\ out[p].id = calls[n]
                                       /\ \A q \in ChunksOf(n - 1) : p <= q
        /\ ChunksOf(Len(calls)) = {}
        /\ FinalOf.finish = AnswerFinishReason(opened, "none")
        /\ SameItems(FinalOf.items, opened)
        /\ SameItems(FinalOf.events, EventsOf(opened))
        /\ SameItems(FinalOf.citations, CitationsOf(opened))

\* The display steps sent with an answer, cut off or not, show each of its
\* messages and built-in calls once, each call directly before its result, and
\* each function call with the first message after it.  (A call that no message
\* follows is not shown: most answers with calls end in one.)
LegacyStepsShowAnswer ==
  up \in {"completed", "max_output_tokens", "content_filter"} =>
    ShownIn(FinalOf.legacy, FinalOf.items)
=============================================================================
