------------------------ MODULE Conversation_proofs ------------------------
(***************************************************************************)
(* Proofs about Conversation: whatever calls, answers and requests there   *)
(* are and however long the conversation is, what is rebuilt for the       *)
(* Responses API is what was said, its calls and outputs stay paired, and  *)
(* reasoning does not change its route.                                    *)
(*                                                                         *)
(* ReplayInv ties each message to what it stands for, and the request on   *)
(* its way to the history it was made from.  PairInv adds what the client  *)
(* and the upstream keep to: a call is made once, answered once and later, *)
(* and no transcript is sent with an open call.                            *)
(***************************************************************************)
EXTENDS Conversation, SequenceTheorems, TLAPS

\* What an answer without state consists of.
Visible(m) == <<IF m.content THEN Item("message") ELSE Absent>>
                \o [n \in DOMAIN m.tool_calls |-> CallItem(m.tool_calls[n])]

\* The relation of a stored message and the items it stands for.
StandsFor(m, block) ==
  /\ m.role = "user" => block = <<Item("user")>>
  /\ m.role = "tool" => block = <<OutputItem(m.tool_call_id)>> /\ Called(m.tool_call_id)
  /\ m.role = "assistant" =>
       \A n \in DOMAIN block : block[n].type # "function_call_output"
  /\ m.role = "assistant" /\ m.response_items # <<>> =>
       /\ block = m.response_items
       /\ \A n \in DOMAIN m.tool_calls : ~Bridged(m.tool_calls[n])
  /\ m.role = "assistant" /\ m.response_items = <<>> /\ client = "compat" =>
       /\ block = Visible(m)
       /\ m.content \/ m.tool_calls # <<>>

\* The properties look at the request that is on its way.  They hold of it
\* because it was made from the history as it still is, and because each
\* message of that history stands for what was said.
SentInv == sent = Nothing \/ \E req \in Requests : sent = Prepared(req)

HistoryInv ==
  /\ client \in {"compat", "stock"}
  /\ history \in Seq(Messages)
  /\ transcript \in Seq(Seq(Items))
  /\ Len(transcript) = Len(history)

SaidInv == \A k \in DOMAIN history : StandsFor(history[k], transcript[k])

ReplayInv == HistoryInv /\ SentInv /\ SaidInv

-----------------------------------------------------------------------------
(* Messages and items *)

LEMMA CallListFacts ==
  ASSUME NEW calls \in CallLists
  PROVE  /\ calls \in Seq(Calls)
         /\ DOMAIN calls = 1..Len(calls)
         /\ \A n \in DOMAIN calls : calls[n] \in Calls
<1>1. PICK n \in 0..MaxCalls : calls \in [1..n -> Calls]
  BY DEF CallLists
<1>2. n \in Nat
  BY <1>1, BoundsAssumption
<1>3. QED
  BY <1>1, <1>2

LEMMA ItemTypes ==
  /\ Item("user") \in Items /\ Item("message") \in Items /\ Absent \in Items
  /\ \A c \in Calls : CallItem(c) \in Items /\ OutputItem(c) \in Items
BY DEF Items, Item, Absent, CallItem, OutputItem

LEMMA MessageTypes ==
  ASSUME NEW m \in Messages
  PROVE  /\ m.role \in {"user", "assistant", "tool"}
         /\ m.role = "user" => m.audio \in BOOLEAN
         /\ m.role = "tool" => m.tool_call_id \in Calls /\ m.named \in BOOLEAN
         /\ m.role = "assistant" =>
              /\ m.content \in BOOLEAN
              /\ m.tool_calls \in CallLists
              /\ m.response_items \in {<<>>} \cup Answers
BY DEF Messages

\* A block is one item and then one for each call.
LEMMA BlockFacts ==
  ASSUME NEW x \in Items, NEW rest \in Seq(Items)
  PROVE  /\ <<x>> \o rest \in Seq(Items)
         /\ DOMAIN (<<x>> \o rest) = 1..Len(rest) + 1
         /\ (<<x>> \o rest)[1] = x
         /\ \A n \in 1..Len(rest) : (<<x>> \o rest)[n + 1] = rest[n]
<1>1. <<x>> \in Seq(Items) /\ Len(<<x>>) = 1 /\ <<x>>[1] = x /\ Len(rest) \in Nat
  OBVIOUS
<1>2. /\ <<x>> \o rest \in Seq(Items)
      /\ Len(<<x>> \o rest) = 1 + Len(rest)
      /\ \A i \in 1..1 + Len(rest) :
           (<<x>> \o rest)[i] = IF i <= 1 THEN <<x>>[i] ELSE rest[i - 1]
  BY <1>1, ConcatProperties
<1>3. DOMAIN (<<x>> \o rest) = 1..Len(rest) + 1
  BY <1>1, <1>2
<1>4. (<<x>> \o rest)[1] = x
  BY <1>1, <1>2
<1>5. ASSUME NEW n \in 1..Len(rest) PROVE (<<x>> \o rest)[n + 1] = rest[n]
  <2>1. n + 1 \in 1..1 + Len(rest) /\ ~(n + 1 <= 1) /\ (n + 1) - 1 = n
    BY <1>1
  <2>2. QED
    BY <1>2, <2>1
<1>6. QED
  BY <1>2, <1>3, <1>4, <1>5

\* The part of a block that is made of a list of calls.
LEMMA VisibleFacts ==
  ASSUME NEW m \in Messages, m.role = "assistant"
  PROVE  /\ Visible(m) \in Seq(Items)
         /\ DOMAIN Visible(m) = 1..Len(m.tool_calls) + 1
         /\ Visible(m)[1] = IF m.content THEN Item("message") ELSE Absent
         /\ \A n \in DOMAIN m.tool_calls :
              Visible(m)[n + 1] = CallItem(m.tool_calls[n])
<1> DEFINE rest == [n \in DOMAIN m.tool_calls |-> CallItem(m.tool_calls[n])]
           first == IF m.content THEN Item("message") ELSE Absent
<1>1. m.tool_calls \in CallLists
  BY MessageTypes
<1>2. first \in Items
  BY ItemTypes
<1>3. rest \in Seq(Items) /\ Len(rest) = Len(m.tool_calls)
  BY <1>1, CallListFacts, ItemTypes
<1>4. Visible(m) = <<first>> \o rest
  BY DEF Visible
<1> HIDE DEF first
<1>5. \A n \in DOMAIN m.tool_calls : n \in 1..Len(rest) /\ rest[n] = CallItem(m.tool_calls[n])
  BY <1>1, <1>3, CallListFacts
<1> HIDE DEF rest
<1>6. QED
  BY <1>2, <1>3, <1>4, <1>5, BlockFacts DEF first

LEMMA VisibleHasNoOutput ==
  ASSUME NEW m \in Messages, m.role = "assistant", NEW n \in DOMAIN Visible(m)
  PROVE  Visible(m)[n].type # "function_call_output"
<1>1. /\ n \in 1..Len(m.tool_calls) + 1 /\ Len(m.tool_calls) \in Nat
      /\ DOMAIN m.tool_calls = 1..Len(m.tool_calls)
  BY VisibleFacts, CallListFacts, MessageTypes
<1>2. CASE n = 1
  BY <1>2, VisibleFacts DEF Item, Absent
<1>3. CASE n # 1
  <2>1. n - 1 \in DOMAIN m.tool_calls /\ n = (n - 1) + 1
    BY <1>1, <1>3
  <2>2. Visible(m)[n] = CallItem(m.tool_calls[n - 1])
    BY <2>1, VisibleFacts
  <2>3. QED
    BY <2>2 DEF CallItem
<1>4. QED
  BY <1>2, <1>3

\* The same of what is rebuilt from a message without state.
Rebuilt(m) ==
  <<IF m.content \/ m.tool_calls = <<>> THEN Item("message") ELSE Absent>>
    \o [n \in DOMAIN m.tool_calls |->
          IF m.tool_calls[n] \in BridgedCalls THEN Absent ELSE CallItem(m.tool_calls[n])]

LEMMA RebuiltFacts ==
  ASSUME NEW m \in Messages, m.role = "assistant"
  PROVE  /\ Rebuilt(m) \in Seq(Items)
         /\ DOMAIN Rebuilt(m) = 1..Len(m.tool_calls) + 1
         /\ Rebuilt(m)[1] =
              IF m.content \/ m.tool_calls = <<>> THEN Item("message") ELSE Absent
         /\ \A n \in DOMAIN m.tool_calls :
              Rebuilt(m)[n + 1] = IF m.tool_calls[n] \in BridgedCalls THEN Absent
                                  ELSE CallItem(m.tool_calls[n])
<1> DEFINE rest == [n \in DOMAIN m.tool_calls |->
                      IF m.tool_calls[n] \in BridgedCalls THEN Absent
                      ELSE CallItem(m.tool_calls[n])]
           first == IF m.content \/ m.tool_calls = <<>> THEN Item("message") ELSE Absent
<1>1. m.tool_calls \in CallLists
  BY MessageTypes
<1>2. first \in Items
  BY ItemTypes
<1>3. rest \in Seq(Items) /\ Len(rest) = Len(m.tool_calls)
  BY <1>1, CallListFacts, ItemTypes
<1>4. Rebuilt(m) = <<first>> \o rest
  BY DEF Rebuilt
<1> HIDE DEF first
<1>5. \A n \in DOMAIN m.tool_calls :
        /\ n \in 1..Len(rest)
        /\ rest[n] = IF m.tool_calls[n] \in BridgedCalls THEN Absent
                     ELSE CallItem(m.tool_calls[n])
  BY <1>1, <1>3, CallListFacts
<1> HIDE DEF rest
<1>6. QED
  BY <1>2, <1>3, <1>4, <1>5, BlockFacts DEF first

-----------------------------------------------------------------------------
(* The invariant *)

\* A message that is added leaves those before it as they are, and what was
\* called stays called.
LEMMA AppendedMessage ==
  ASSUME HistoryInv, NEW m \in Messages, NEW block \in Seq(Items), Says(m, block)
  PROVE  /\ HistoryInv'
         /\ DOMAIN history' = DOMAIN history \cup {Len(history) + 1}
         /\ history'[Len(history) + 1] = m /\ transcript'[Len(history) + 1] = block
         /\ \A k \in DOMAIN history :
              history'[k] = history[k] /\ transcript'[k] = transcript[k]
         /\ \A c \in Calls : Called(c) => Called(c)'
<1>1. HistoryInv'
  BY DEF HistoryInv, Says
<1>2. /\ DOMAIN history' = DOMAIN history \cup {Len(history) + 1}
      /\ history'[Len(history) + 1] = m /\ transcript'[Len(history) + 1] = block
      /\ \A k \in DOMAIN history :
           history'[k] = history[k] /\ transcript'[k] = transcript[k]
  BY DEF HistoryInv, Says
<1>3. \A c \in Calls : Called(c) => Called(c)'
  BY <1>2, Zenon DEF Called
<1>4. QED
  BY <1>1, <1>2, <1>3

LEMMA SaysKeepsInv ==
  ASSUME ReplayInv, NEW m \in Messages, NEW block \in Seq(Items), Says(m, block),
         StandsFor(m, block)', sent' = Nothing
  PROVE  ReplayInv'
<1>1. HistoryInv
  BY DEF ReplayInv
<1>2. client' = client
  BY DEF Says
<1>3. ASSUME NEW k \in DOMAIN history' PROVE StandsFor(history[k], transcript[k])'
  <2>1. CASE k = Len(history) + 1
    BY <2>1, <1>1, AppendedMessage
  <2>2. CASE k # Len(history) + 1
    <3>1. k \in DOMAIN history
      BY <1>1, <2>2, <1>3, AppendedMessage
    <3>2. StandsFor(history[k], transcript[k])
      BY <3>1 DEF ReplayInv, SaidInv
    <3>3. history'[k] = history[k] /\ transcript'[k] = transcript[k]
      BY <1>1, <3>1, AppendedMessage
    <3>4. history[k] \in Messages
      BY <1>1, <3>1 DEF HistoryInv
    <3>5. CASE history[k].role = "tool"
      <4>1. PICK c \in Calls : c = history[k].tool_call_id /\ Called(c)
        BY <3>2, <3>4, <3>5, MessageTypes DEF StandsFor
      <4>2. Called(c)'
        BY <1>1, <4>1, AppendedMessage
      <4>3. QED
        BY <3>2, <3>3, <3>5, <4>1, <4>2 DEF StandsFor, Called
    <3>6. CASE history[k].role # "tool"
      BY <1>2, <3>2, <3>3, <3>6 DEF StandsFor
    <3>7. QED
      BY <3>5, <3>6
  <2>3. QED
    BY <2>1, <2>2
<1>4. QED
  BY <1>1, <1>3, AppendedMessage DEF ReplayInv, SaidInv, SentInv

\* The gateway keeps nothing of a conversation: what it sends upstream is a
\* function of the transcript and the request.
LEMMA SameHistorySameRequest ==
  ASSUME history' = history, NEW req
  PROVE  Prepared(req)' = Prepared(req)
<1>1. BridgedCalls' = BridgedCalls
  BY DEF BridgedCalls, Called
<1>2. \A m : BridgedOutput(m)' <=> BridgedOutput(m)
  BY <1>1 DEF BridgedOutput
<1>3. \A m : Dropped(m)' <=> Dropped(m)
  BY <1>1 DEF Dropped
<1>4. \A m : Block(m)' = Block(m)
  BY <1>1, <1>2, <1>3 DEF Block, AssistantBlock
<1>5. \A k : BridgeQuery(k)' = BridgeQuery(k)
  BY <1>2 DEF BridgeQuery
<1>6. BuiltinTools(req)' = BuiltinTools(req)
  BY <1>2 DEF BuiltinTools
<1>7. /\ HasAudio' <=> HasAudio
      /\ SelectMode(req)' = SelectMode(req)
  BY DEF HasAudio, SelectMode, RequiresResponses, HasState
<1>8. ResponsesPayload(req)' = ResponsesPayload(req)
  BY <1>4, <1>5, <1>6 DEF ResponsesPayload
<1>9. QED
  BY <1>7, <1>8 DEF Prepared

\* ReplayInv is inductive.
LEMMA ReplayInvHolds == Spec => []ReplayInv
<1>1. Init => ReplayInv
  BY DEF Init, ReplayInv, HistoryInv, SentInv, SaidInv
<1>2. ReplayInv /\ [Next]_vars => ReplayInv'
  <2> SUFFICES ASSUME ReplayInv, [Next]_vars PROVE ReplayInv'
    OBVIOUS
  <2> USE DEF ReplayInv
  <2>1. ASSUME NEW audio \in BOOLEAN, UserSays(audio) PROVE ReplayInv'
    <3>1. UserMessage(audio) \in Messages
      BY DEF UserMessage, Messages
    <3>2. <<Item("user")>> \in Seq(Items)
      BY ItemTypes
    <3>3. StandsFor(UserMessage(audio), <<Item("user")>>)'
      BY DEF StandsFor, UserMessage
    <3>4. QED
      BY <2>1, <3>1, <3>2, <3>3, SaysKeepsInv DEF UserSays
  <2>2. ASSUME NEW c \in Calls, NEW named \in BOOLEAN, ToolRuns(c, named) PROVE ReplayInv'
    <3>1. ToolMessage(c, named) \in Messages
      BY DEF ToolMessage, Messages
    <3>2. <<OutputItem(c)>> \in Seq(Items)
      BY ItemTypes
    <3>3. Called(c)'
      BY <2>2, <3>1, <3>2, AppendedMessage DEF ToolRuns
    <3>4. StandsFor(ToolMessage(c, named), <<OutputItem(c)>>)'
      BY <3>3 DEF StandsFor, ToolMessage
    <3>5. QED
      BY <2>2, <3>1, <3>2, <3>4, SaysKeepsInv DEF ToolRuns
  <2>3. ASSUME NEW req \in Requests, Ask(req) PROVE ReplayInv'
    <3>1. sent' = Prepared(req)' /\ UNCHANGED <<client, history, transcript>>
      BY <2>3, SameHistorySameRequest DEF Ask
    <3>2. QED
      BY <3>1 DEF HistoryInv, SentInv, SaidInv, StandsFor, Called
  <2>4. CASE Fails
    BY <2>4 DEF Fails, HistoryInv, SentInv, SaidInv, StandsFor, Called
  <2>5. ASSUME NEW content \in BOOLEAN, NEW calls \in CallLists, NativeAnswer(content, calls)
        PROVE  ReplayInv'
    <3> DEFINE m == AssistantMessage(content, calls, <<>>)
    <3>1. m \in Messages /\ m.role = "assistant"
      BY DEF AssistantMessage, Messages
    <3>2. Visible(m) \in Seq(Items)
      BY <3>1, VisibleFacts
    <3>3. Says(m, Visible(m))
      BY <2>5 DEF NativeAnswer, AssistantMessage, Visible
    <3>4. \A n \in DOMAIN Visible(m) : Visible(m)[n].type # "function_call_output"
      BY <3>1, VisibleHasNoOutput
    <3>5. StandsFor(m, Visible(m))'
      BY <2>5, <3>4 DEF NativeAnswer, AssistantMessage, StandsFor
    <3>6. QED
      BY <2>5, <3>1, <3>2, <3>3, <3>5, SaysKeepsInv DEF NativeAnswer
  <2>6. ASSUME NEW items \in Answers, NEW calls \in CallLists, ResponsesAnswer(items, calls)
        PROVE  ReplayInv'
    <3> PICK state : state = IF client = "compat" THEN items ELSE <<>>
      OBVIOUS
    <3> DEFINE text == \E n \in DOMAIN items : items[n].type = "message"
               m == AssistantMessage(text, calls, state)
    <3>1. m \in Messages
      BY DEF AssistantMessage, Messages
    <3>2. items \in Seq(Items) /\ items # <<>>
      BY AnswersAssumption
    <3>3. \A n \in DOMAIN calls : ~Bridged(calls[n])
      <4> SUFFICES ASSUME NEW n \in DOMAIN calls PROVE ~Bridged(calls[n])
        OBVIOUS
      <4>1. PICK at \in [DOMAIN calls -> DOMAIN items] :
              \A k \in DOMAIN calls : items[at[k]] = CallItem(calls[k])
        BY <2>6, Zenon DEF ResponsesAnswer, CallsOf
      <4>2. items[at[n]] = CallItem(calls[n]) /\ at[n] \in DOMAIN items
        BY <4>1
      <4>3. items[at[n]].type = "function_call" /\ items[at[n]].call = calls[n]
        BY <4>2 DEF CallItem
      <4>4. QED
        BY <4>2, <4>3, AnswersAssumption DEF Hidden
    <3>4. StandsFor(m, items)'
      <4>0. \A n \in DOMAIN items : items[n].type # "function_call_output"
        BY AnswersAssumption DEF Hidden
      <4>1. CASE client = "compat"
        BY <2>6, <3>2, <3>3, <4>0, <4>1 DEF AssistantMessage, StandsFor
      <4>2. CASE client # "compat"
        BY <2>6, <4>0, <4>2 DEF AssistantMessage, StandsFor, ResponsesAnswer, Says
      <4>3. QED
        BY <4>1, <4>2
    <3>5. QED
      BY <2>6, <3>1, <3>2, <3>4, SaysKeepsInv DEF ResponsesAnswer
  <2>7. CASE UNCHANGED vars \/ Finished
    <3>1. UNCHANGED vars
      BY <2>7 DEF Finished
    <3>2. SentInv'
      BY <3>1, SameHistorySameRequest DEF SentInv, vars
    <3>3. QED
      BY <3>1, <3>2 DEF vars, HistoryInv, SaidInv, StandsFor, Called
  <2>8. QED
    BY <2>1, <2>2, <2>3, <2>4, <2>5, <2>6, <2>7 DEF Next
<1>3. QED
  BY <1>1, <1>2, PTL DEF Spec

-----------------------------------------------------------------------------
(* What is rebuilt is what was said *)

\* A message of the history, with what is known of it.
LEMMA MessageFacts ==
  ASSUME ReplayInv, NEW k \in DOMAIN history
  PROVE  /\ history[k] \in Messages
         /\ transcript[k] \in Seq(Items)
         /\ StandsFor(history[k], transcript[k])
         /\ history[k].role = "assistant" =>
              \A n \in DOMAIN history[k].tool_calls : Called(history[k].tool_calls[n])
BY DEF ReplayInv, HistoryInv, SaidInv, Called

\* An item that is no call and no output is never taken out.
LEMMA UnbridgedItem ==
  ASSUME NEW block \in Seq(Items), NEW n \in DOMAIN block
  PROVE  /\ Unbridged(block)[n] =
              IF block[n].type \in {"function_call", "function_call_output"}
                   /\ Bridged(block[n].call)
              THEN Absent ELSE block[n]
BY DEF Unbridged

LEMMA UserBlock ==
  ASSUME ReplayInv, NEW k \in DOMAIN history, history[k].role = "user"
  PROVE  Block(history[k]) = Unbridged(transcript[k])
<1>1. transcript[k] = <<Item("user")>>
  BY MessageFacts DEF StandsFor
<1>2. Unbridged(<<Item("user")>>) = <<Item("user")>>
  BY DEF Unbridged, Item
<1>3. QED
  BY <1>1, <1>2 DEF Block

LEMMA ToolBlock ==
  ASSUME ReplayInv, NEW k \in DOMAIN history, history[k].role = "tool"
  PROVE  Block(history[k]) = Unbridged(transcript[k])
<1> DEFINE c == history[k].tool_call_id
<1>1. transcript[k] = <<OutputItem(c)>> /\ Called(c) /\ c \in Calls
  BY MessageFacts, MessageTypes DEF StandsFor
<1>2. BridgedOutput(history[k]) <=> Bridged(c)
  BY <1>1 DEF BridgedOutput, BridgedCalls
<1>3. Unbridged(<<OutputItem(c)>>) = <<IF Bridged(c) THEN Absent ELSE OutputItem(c)>>
  BY DEF Unbridged, OutputItem
<1>4. Block(history[k]) = <<IF Bridged(c) THEN Absent ELSE OutputItem(c)>>
  BY <1>2 DEF Block
<1>5. QED
  BY <1>1, <1>3, <1>4

\* State is replayed: an answer of the Responses API calls no bridged function,
\* so it is not dropped.
LEMMA StateReplayed ==
  ASSUME ReplayInv, NEW k \in DOMAIN history, history[k].role = "assistant",
         history[k].response_items # <<>>
  PROVE  /\ Block(history[k]) = history[k].response_items
         /\ history[k].response_items \in Answers
         /\ transcript[k] = history[k].response_items
         /\ \A n \in DOMAIN history[k].tool_calls : ~Bridged(history[k].tool_calls[n])
<1> DEFINE calls == history[k].tool_calls
<1>1. /\ transcript[k] = history[k].response_items
      /\ history[k].response_items \in Answers
      /\ calls \in CallLists
      /\ \A n \in DOMAIN calls : ~Bridged(calls[n])
  BY MessageFacts, MessageTypes DEF StandsFor
<1>2. calls # <<>> => 1 \in DOMAIN calls
  BY <1>1, CallListFacts
<1>3. ~Dropped(history[k])
  BY <1>1, <1>2 DEF Dropped, BridgedCalls
<1>4. QED
  BY <1>1, <1>3 DEF Block, AssistantBlock

\* Nothing is taken out of it.
LEMMA StateBlock ==
  ASSUME ReplayInv, NEW k \in DOMAIN history, history[k].role = "assistant",
         history[k].response_items # <<>>
  PROVE  Block(history[k]) = Unbridged(transcript[k])
<1> DEFINE items == history[k].response_items
<1>1. items \in Answers
  BY StateReplayed
<1>2. items \in Seq(Items)
  BY <1>1, AnswersAssumption
<1>3. \A n \in DOMAIN items : Unbridged(items)[n] = items[n]
  BY <1>1, AnswersAssumption DEF Unbridged, Hidden
<1>4. items = [n \in DOMAIN items |-> items[n]]
  BY <1>2
<1>5. Unbridged(items) = [n \in DOMAIN items |-> Unbridged(items)[n]]
  BY Zenon DEF Unbridged
<1>6. Unbridged(items) = items
  BY <1>3, <1>4, <1>5, Zenon
<1>7. QED
  BY <1>6, StateReplayed

\* An answer without state is rebuilt from its text and its calls.
LEMMA RebuiltBlock ==
  ASSUME ReplayInv, client = "compat", NEW k \in DOMAIN history,
         history[k].role = "assistant", history[k].response_items = <<>>
  PROVE  Block(history[k]) = Unbridged(transcript[k])
<1> DEFINE m == history[k]
           calls == m.tool_calls
<1>1. /\ m \in Messages /\ m.role = "assistant"
      /\ transcript[k] = Visible(m)
      /\ m.content \/ calls # <<>>
      /\ \A n \in DOMAIN calls : Called(calls[n])
  BY MessageFacts DEF StandsFor
<1>2. calls \in CallLists
  BY <1>1, MessageTypes
<1>3. \A n \in DOMAIN calls : calls[n] \in BridgedCalls <=> Bridged(calls[n])
  BY <1>1, <1>2, CallListFacts DEF BridgedCalls
<1>4. Block(m) = Rebuilt(m)
  BY DEF Block, AssistantBlock, Rebuilt
<1>5. DOMAIN Unbridged(Visible(m)) = DOMAIN Rebuilt(m)
  BY <1>1, VisibleFacts, RebuiltFacts DEF Unbridged
<1>6. \A i \in DOMAIN Rebuilt(m) : Unbridged(Visible(m))[i] = Rebuilt(m)[i]
  <2> SUFFICES ASSUME NEW i \in DOMAIN Rebuilt(m)
               PROVE  Unbridged(Visible(m))[i] = Rebuilt(m)[i]
    OBVIOUS
  <2>1. /\ Visible(m) \in Seq(Items) /\ i \in DOMAIN Visible(m)
        /\ i \in 1..Len(calls) + 1 /\ Len(calls) \in Nat
        /\ DOMAIN calls = 1..Len(calls)
    BY <1>1, <1>2, VisibleFacts, RebuiltFacts, CallListFacts
  <2>2. CASE i = 1
    <3>1. Visible(m)[1] = Rebuilt(m)[1]
      BY <1>1, VisibleFacts, RebuiltFacts
    <3>2. Visible(m)[1].type \in {"message", "absent"}
      BY <1>1, VisibleFacts DEF Item, Absent
    <3>3. QED
      BY <2>1, <2>2, <3>1, <3>2, UnbridgedItem
  <2>3. CASE i # 1
    <3>1. PICK n \in DOMAIN calls : i = n + 1
      <4>1. i - 1 \in DOMAIN calls /\ i = (i - 1) + 1
        BY <2>1, <2>3
      <4>2. QED
        BY <4>1
    <3>2. Visible(m)[i] = CallItem(calls[n])
      BY <1>1, <3>1, VisibleFacts
    <3>3. Rebuilt(m)[i] = IF Bridged(calls[n]) THEN Absent ELSE CallItem(calls[n])
      BY <1>1, <1>3, <3>1, RebuiltFacts
    <3>4. QED
      BY <2>1, <3>2, <3>3, UnbridgedItem DEF CallItem
  <2>4. QED
    BY <2>2, <2>3
<1>7. Unbridged(Visible(m)) = Rebuilt(m)
  BY <1>1, <1>5, <1>6, VisibleFacts, RebuiltFacts DEF Unbridged
<1>8. QED
  BY <1>1, <1>4, <1>7

\* A request that goes to the Responses API carries the blocks of the history.
LEMMA SentBlocks ==
  ASSUME ReplayInv, sent.mode = "responses"
  PROVE  \E req \in Requests : sent = ResponsesPayload(req)
<1>1. sent # Nothing
  BY DEF Nothing
<1>2. PICK req \in Requests : sent = Prepared(req)
  BY <1>1 DEF ReplayInv, SentInv
<1>3. QED
  BY <1>2 DEF Prepared

\* What the gateway rebuilds for the Responses API from a transcript that
\* kept the state is what was said, in a conversation of any length and on
\* whatever routes its answers came (_prepare_request, to_responses_input).
THEOREM ReplaysAll == Spec => []LosslessReplay
<1>1. ReplayInv => LosslessReplay
  <2> SUFFICES ASSUME ReplayInv, sent.mode = "responses", client = "compat",
                      NEW k \in DOMAIN transcript
               PROVE  sent.blocks[k] = Unbridged(transcript[k])
    BY DEF LosslessReplay
  <2>1. k \in DOMAIN history
    BY DEF ReplayInv, HistoryInv
  <2>2. sent.blocks[k] = Block(history[k])
    BY <2>1, SentBlocks DEF ResponsesPayload
  <2>3. history[k].role \in {"user", "assistant", "tool"}
    BY <2>1, MessageFacts, MessageTypes
  <2>4. Block(history[k]) = Unbridged(transcript[k])
    BY <2>1, <2>3, UserBlock, ToolBlock, StateBlock, RebuiltBlock
  <2>5. QED
    BY <2>2, <2>4
<1>2. QED
  BY <1>1, ReplayInvHolds, PTL

-----------------------------------------------------------------------------
(* Reasoning *)

\* Only an answer of the Responses API has items of hidden kinds.
LEMMA HiddenHasState ==
  ASSUME ReplayInv, client = "compat",
         NEW k \in DOMAIN history, NEW n \in DOMAIN transcript[k],
         transcript[k][n].type \in Hidden
  PROVE  HasState
<1>1. /\ history[k] \in Messages
      /\ history[k].role \in {"user", "assistant", "tool"}
      /\ StandsFor(history[k], transcript[k])
  BY MessageFacts, MessageTypes
<1>2. CASE history[k].role = "user"
  BY <1>1, <1>2 DEF StandsFor, Item, Hidden
<1>3. CASE history[k].role = "tool"
  BY <1>1, <1>3 DEF StandsFor, OutputItem, Hidden
<1>4. CASE history[k].role = "assistant" /\ history[k].response_items # <<>>
  BY <1>4 DEF HasState
<1>5. CASE history[k].role = "assistant" /\ history[k].response_items = <<>>
  <2> DEFINE m == history[k]
             calls == m.tool_calls
  <2>1. transcript[k] = Visible(m)
    BY <1>1, <1>5 DEF StandsFor
  <2>2. n \in 1..Len(calls) + 1 /\ Len(calls) \in Nat /\ DOMAIN calls = 1..Len(calls)
    BY <1>1, <1>5, <2>1, VisibleFacts, CallListFacts, MessageTypes
  <2>3. CASE n = 1
    BY <1>1, <1>5, <2>1, <2>3, VisibleFacts DEF Item, Absent, Hidden
  <2>4. CASE n # 1
    <3>1. n - 1 \in DOMAIN calls /\ n = (n - 1) + 1
      BY <2>2, <2>4
    <3>2. Visible(m)[n] = CallItem(calls[n - 1])
      BY <1>1, <1>5, <3>1, VisibleFacts
    <3>3. QED
      BY <2>1, <3>2 DEF CallItem, Hidden
  <2>5. QED
    BY <2>3, <2>4
<1>6. QED
  BY <1>1, <1>2, <1>3, <1>4, <1>5

\* A conversation with reasoning in it, kept by its client, goes to Chat
\* Completions only if the client forces it to (select_mode).
THEOREM ReasoningStays == Spec => []ReasoningStaysWithResponses
<1>1. ReplayInv => ReasoningStaysWithResponses
  <2> SUFFICES ASSUME ReplayInv, client = "compat", sent.mode = "chat_completions",
                      NEW k \in DOMAIN transcript, NEW n \in DOMAIN transcript[k],
                      transcript[k][n].type \in Hidden
               PROVE  sent.req.mode = "chat_completions"
    BY DEF ReasoningStaysWithResponses
  <2>1. k \in DOMAIN history
    BY DEF ReplayInv, HistoryInv
  <2>2. HasState
    BY <2>1, HiddenHasState
  <2>3. sent # Nothing
    BY DEF Nothing
  <2>4. PICK req \in Requests : sent = Prepared(req)
    BY <2>3 DEF ReplayInv, SentInv
  <2>5. SelectMode(req) = "chat_completions" /\ sent.req = req
    BY <2>4 DEF Prepared, ResponsesPayload
  <2>6. RequiresResponses(req)
    BY <2>2 DEF RequiresResponses
  <2>7. QED
    BY <2>5, <2>6 DEF SelectMode
<1>2. QED
  BY <1>1, ReplayInvHolds, PTL

-----------------------------------------------------------------------------
(* Types *)

LEMMA BlockType ==
  ASSUME NEW m \in Messages
  PROVE  Block(m) \in Seq(Items)
<1>1. CASE m.role = "user"
  BY <1>1, ItemTypes DEF Block
<1>2. CASE m.role = "tool"
  BY <1>2, ItemTypes, MessageTypes DEF Block
<1>3. CASE m.role = "assistant"
  <2>1. CASE m.response_items # <<>> /\ ~Dropped(m)
    BY <1>3, <2>1, MessageTypes, AnswersAssumption DEF Block, AssistantBlock
  <2>2. CASE ~(m.response_items # <<>> /\ ~Dropped(m))
    <3>1. Block(m) = Rebuilt(m)
      BY <1>3, <2>2 DEF Block, AssistantBlock, Rebuilt
    <3>2. QED
      BY <1>3, <3>1, RebuiltFacts
  <2>3. QED
    BY <2>1, <2>2
<1>4. QED
  BY <1>1, <1>2, <1>3, MessageTypes

\* The state of a conversation has the types the code gives it.
THEOREM TypeCorrect == Spec => []TypeOK
<1>1. ReplayInv => TypeOK
  <2> SUFFICES ASSUME ReplayInv PROVE TypeOK
    OBVIOUS
  <2>1. HistoryInv
    BY DEF ReplayInv
  <2>2. CASE sent = Nothing
    BY <2>1, <2>2 DEF TypeOK, HistoryInv, Nothing
  <2>3. CASE sent # Nothing
    <3>1. PICK req \in Requests : sent = Prepared(req)
      BY <2>3 DEF ReplayInv, SentInv
    <3>2. sent.mode \in Modes \cup {"rejected"} /\ sent.req = req
      BY <3>1 DEF Prepared, ResponsesPayload, Modes
    <3>3. ASSUME sent.mode = "responses"
          PROVE  /\ sent.blocks \in [DOMAIN history -> Seq(Items)]
                 /\ sent.bridge \in [DOMAIN history -> Calls \cup {None}]
                 /\ sent.builtins \subseteq BridgedTools
      <4>1. sent = ResponsesPayload(req)
        BY <3>1, <3>3 DEF Prepared
      <4>2. \A k \in DOMAIN history :
              history[k] \in Messages /\ Block(history[k]) \in Seq(Items)
        BY BlockType, MessageFacts
      <4>3. \A k \in DOMAIN history : BridgeQuery(k) \in Calls \cup {None}
        BY <4>2, MessageTypes DEF BridgeQuery, BridgedOutput
      <4>4. BuiltinTools(req) \subseteq BridgedTools
        BY RequestsAssumption DEF BuiltinTools, BridgedTools
      <4>5. QED
        BY <4>1, <4>2, <4>3, <4>4 DEF ResponsesPayload
    <3>4. QED
      BY <2>1, <3>2, <3>3 DEF TypeOK, HistoryInv
  <2>4. QED
    BY <2>2, <2>3
<1>2. QED
  BY <1>1, ReplayInvHolds, PTL

-----------------------------------------------------------------------------
(* Calls and outputs *)

\* The k-th message is an answer, and its n-th call is c.
CallAt(k, n, c) == /\ k \in DOMAIN history /\ history[k].role = "assistant"
                   /\ n \in DOMAIN history[k].tool_calls
                   /\ history[k].tool_calls[n] = c

\* The k-th message is the output of c.
OutputAt(k, c) == /\ k \in DOMAIN history /\ history[k].role = "tool"
                  /\ history[k].tool_call_id = c

CallsOnce == \A j, k, m, n, c : CallAt(j, m, c) /\ CallAt(k, n, c) => j = k /\ m = n

OutputsOnce == \A j, k, c : OutputAt(j, c) /\ OutputAt(k, c) => j = k

OutputsFollow == \A k, c : OutputAt(k, c) => \E j, n : CallAt(j, n, c) /\ j < k

StateHasCalls ==
  \A k \in DOMAIN history :
    history[k].role = "assistant" /\ history[k].response_items # <<>> =>
      CallsOf(history[k].tool_calls, history[k].response_items)

\* A client sends no transcript with an open call.
PairInv == /\ ReplayInv
           /\ CallsOnce /\ OutputsOnce /\ OutputsFollow
           /\ StateHasCalls
           /\ sent # Nothing => AllAnswered

LEMMA AppendedCalls ==
  ASSUME HistoryInv, NEW m \in Messages, NEW block \in Seq(Items), Says(m, block)
  PROVE  /\ \A k, n, c : CallAt(k, n, c)' <=>
              \/ CallAt(k, n, c)
              \/ /\ k = Len(history) + 1 /\ m.role = "assistant"
                 /\ n \in DOMAIN m.tool_calls /\ m.tool_calls[n] = c
         /\ \A k, c : OutputAt(k, c)' <=>
              \/ OutputAt(k, c)
              \/ k = Len(history) + 1 /\ m.role = "tool" /\ m.tool_call_id = c
         /\ \A k, n, c : CallAt(k, n, c) => k \in Nat /\ k < Len(history) + 1
         /\ \A k, c : OutputAt(k, c) => k \in Nat /\ k < Len(history) + 1
<1>1. /\ DOMAIN history' = DOMAIN history \cup {Len(history) + 1}
      /\ history'[Len(history) + 1] = m
      /\ \A k \in DOMAIN history : history'[k] = history[k]
  BY AppendedMessage
<1>2. \A k \in DOMAIN history : k \in Nat /\ k < Len(history) + 1
  BY DEF HistoryInv
<1>3. ASSUME NEW k, NEW n, NEW c
      PROVE  CallAt(k, n, c)' <=>
              \/ CallAt(k, n, c)
              \/ /\ k = Len(history) + 1 /\ m.role = "assistant"
                 /\ n \in DOMAIN m.tool_calls /\ m.tool_calls[n] = c
  BY <1>1, <1>2 DEF CallAt
<1>4. ASSUME NEW k, NEW c
      PROVE  OutputAt(k, c)' <=>
              \/ OutputAt(k, c)
              \/ k = Len(history) + 1 /\ m.role = "tool" /\ m.tool_call_id = c
  BY <1>1, <1>2 DEF OutputAt
<1>5. QED
  BY <1>2, <1>3, <1>4 DEF CallAt, OutputAt

LEMMA PairInvHolds == Spec => []PairInv
<1>1. Init => PairInv
  <2> SUFFICES ASSUME Init PROVE PairInv
    OBVIOUS
  <2>1. ReplayInv
    BY DEF Init, ReplayInv, HistoryInv, SentInv, SaidInv
  <2>2. QED
    BY <2>1 DEF Init, PairInv, CallsOnce, OutputsOnce, OutputsFollow, StateHasCalls,
                CallAt, OutputAt
<1>2. PairInv /\ ReplayInv' /\ [Next]_vars => PairInv'
  <2> SUFFICES ASSUME PairInv, ReplayInv', [Next]_vars PROVE PairInv'
    OBVIOUS
  <2>0. HistoryInv
    BY DEF PairInv, ReplayInv
  <2>1. ASSUME NEW m \in Messages, NEW block \in Seq(Items), Says(m, block), sent' = Nothing,
               m.role = "user"
        PROVE  PairInv'
    <3>1. StateHasCalls'
      BY <2>0, <2>1, AppendedMessage DEF PairInv, StateHasCalls
    <3>2. CallsOnce' /\ OutputsOnce' /\ OutputsFollow'
      BY <2>0, <2>1, AppendedCalls DEF PairInv, CallsOnce, OutputsOnce, OutputsFollow
    <3>3. QED
      BY <2>1, <3>1, <3>2 DEF PairInv
  <2>2. ASSUME NEW m \in Messages, NEW block \in Seq(Items), Says(m, block), sent' = Nothing,
               m.role = "tool",
               \E k, n : CallAt(k, n, m.tool_call_id),
               ~\E k : OutputAt(k, m.tool_call_id)
        PROVE  PairInv'
    <3>1. CallsOnce'
      BY <2>0, <2>2, AppendedCalls DEF PairInv, CallsOnce
    <3>2. OutputsOnce'
      BY <2>0, <2>2, AppendedCalls DEF PairInv, OutputsOnce
    <3>3. OutputsFollow'
      BY <2>0, <2>2, AppendedCalls DEF PairInv, OutputsFollow
    <3>4. StateHasCalls'
      BY <2>0, <2>2, AppendedMessage DEF PairInv, StateHasCalls
    <3>5. QED
      BY <2>2, <3>1, <3>2, <3>3, <3>4 DEF PairInv
  <2>3. ASSUME NEW m \in Messages, NEW block \in Seq(Items), Says(m, block), sent' = Nothing,
               m.role = "assistant",
               \A n \in DOMAIN m.tool_calls : ~Called(m.tool_calls[n]),
               m.response_items # <<>> => CallsOf(m.tool_calls, m.response_items)
        PROVE  PairInv'
    <3>1. \A j, k \in DOMAIN m.tool_calls : m.tool_calls[j] = m.tool_calls[k] => j = k
      BY <2>3, MessageTypes DEF CallLists
    <3>2. \A n \in DOMAIN m.tool_calls : ~\E j, l : CallAt(j, l, m.tool_calls[n])
      BY <2>3 DEF Called, CallAt
    <3>3. CallsOnce'
      <4> SUFFICES ASSUME NEW j, NEW k, NEW l, NEW n, NEW c,
                          CallAt(j, l, c)', CallAt(k, n, c)'
                   PROVE  j = k /\ l = n
        BY DEF CallsOnce
      <4>1. CASE CallAt(j, l, c) /\ CallAt(k, n, c)
        BY <4>1 DEF PairInv, CallsOnce
      <4>2. /\ \/ CallAt(j, l, c)
               \/ j = Len(history) + 1 /\ l \in DOMAIN m.tool_calls /\ m.tool_calls[l] = c
            /\ \/ CallAt(k, n, c)
               \/ k = Len(history) + 1 /\ n \in DOMAIN m.tool_calls /\ m.tool_calls[n] = c
        BY <2>0, <2>3, AppendedCalls
      <4>3. CASE ~CallAt(j, l, c) /\ ~CallAt(k, n, c)
        BY <3>1, <4>2, <4>3
      <4>4. CASE CallAt(j, l, c) /\ ~CallAt(k, n, c)
        BY <3>2, <4>2, <4>4
      <4>5. CASE ~CallAt(j, l, c) /\ CallAt(k, n, c)
        BY <3>2, <4>2, <4>5
      <4>6. QED
        BY <4>1, <4>3, <4>4, <4>5
    <3>4. OutputsOnce' /\ OutputsFollow'
      BY <2>0, <2>3, AppendedCalls DEF PairInv, OutputsOnce, OutputsFollow
    <3>5. StateHasCalls'
      BY <2>0, <2>3, AppendedMessage DEF PairInv, StateHasCalls
    <3>6. QED
      BY <2>3, <3>3, <3>4, <3>5 DEF PairInv
  <2>4. CASE history' = history /\ (sent' = sent \/ sent' = Nothing \/ AllAnswered)
    BY <2>4 DEF PairInv, CallsOnce, OutputsOnce, OutputsFollow, StateHasCalls,
                CallAt, OutputAt, AllAnswered, Called, Answered
  <2>5. ASSUME NEW audio \in BOOLEAN, UserSays(audio) PROVE PairInv'
    <3>1. UserMessage(audio) \in Messages /\ UserMessage(audio).role = "user"
      BY DEF UserMessage, Messages
    <3>2. <<Item("user")>> \in Seq(Items)
      BY ItemTypes
    <3>3. QED
      BY <2>1, <2>5, <3>1, <3>2 DEF UserSays
  <2>6. ASSUME NEW content \in BOOLEAN, NEW calls \in CallLists, NativeAnswer(content, calls)
        PROVE  PairInv'
    <3> DEFINE m == AssistantMessage(content, calls, <<>>)
    <3>1. m \in Messages /\ m.role = "assistant"
      BY DEF AssistantMessage, Messages
    <3>2. Visible(m) \in Seq(Items)
      BY <3>1, VisibleFacts
    <3>3. Says(m, Visible(m)) /\ sent' = Nothing
      BY <2>6 DEF NativeAnswer, AssistantMessage, Visible
    <3>4. /\ \A n \in DOMAIN m.tool_calls : ~Called(m.tool_calls[n])
          /\ m.response_items = <<>>
      BY <2>6 DEF NativeAnswer, AssistantMessage
    <3>5. QED
      BY <2>3, <3>1, <3>2, <3>3, <3>4
  <2>7. ASSUME NEW items \in Answers, NEW calls \in CallLists, ResponsesAnswer(items, calls)
        PROVE  PairInv'
    <3> PICK state : state = IF client = "compat" THEN items ELSE <<>>
      OBVIOUS
    <3> DEFINE text == \E n \in DOMAIN items : items[n].type = "message"
               m == AssistantMessage(text, calls, state)
    <3>1. m \in Messages /\ m.role = "assistant" /\ items \in Seq(Items)
      BY AnswersAssumption DEF AssistantMessage, Messages
    <3>2. Says(m, items) /\ sent' = Nothing
      BY <2>7 DEF ResponsesAnswer
    <3>3. /\ \A n \in DOMAIN m.tool_calls : ~Called(m.tool_calls[n])
          /\ m.response_items # <<>> => CallsOf(m.tool_calls, m.response_items)
      BY <2>7 DEF ResponsesAnswer, AssistantMessage
    <3>4. QED
      BY <2>3, <3>1, <3>2, <3>3
  <2>10. ASSUME NEW c \in Calls, NEW named \in BOOLEAN, ToolRuns(c, named)
         PROVE  PairInv'
    <3> DEFINE m == ToolMessage(c, named)
    <3>1. /\ m \in Messages /\ m.role = "tool" /\ m.tool_call_id = c
          /\ <<OutputItem(c)>> \in Seq(Items)
      BY ItemTypes DEF ToolMessage, Messages
    <3>2. Says(m, <<OutputItem(c)>>) /\ sent' = Nothing
      BY <2>10 DEF ToolRuns
    <3>3. (\E k, n : CallAt(k, n, c)) /\ ~\E k : OutputAt(k, c)
      BY <2>10 DEF ToolRuns, Called, Answered, CallAt, OutputAt
    <3>4. QED
      BY <2>2, <3>1, <3>2, <3>3
  <2>8. CASE Fails \/ Finished \/ UNCHANGED vars \/ \E req \in Requests : Ask(req)
    BY <2>4, <2>8 DEF Fails, Finished, Ask, vars
  <2>9. QED
    BY <2>5, <2>6, <2>7, <2>8, <2>10 DEF Next
<1>3. QED
  BY <1>1, <1>2, ReplayInvHolds, PTL DEF Spec

\* The calls and outputs in the block of a message: those that the message
\* has and that are not bridged, each at one place.
LEMMA BlockCalls ==
  ASSUME PairInv, NEW k \in DOMAIN history, NEW c \in Calls
  PROVE  LET block == Block(history[k])
         IN  /\ (\E n \in DOMAIN block : block[n] = CallItem(c)) <=>
                  ~Bridged(c) /\ \E i : CallAt(k, i, c)
             /\ \A l, n \in DOMAIN block :
                  block[l] = CallItem(c) /\ block[n] = CallItem(c) => l = n
             /\ (1 \in DOMAIN block /\ block[1] = OutputItem(c)) <=>
                  ~Bridged(c) /\ OutputAt(k, c)
<1> DEFINE m == history[k]
           block == Block(m)
           calls == m.tool_calls
<1>0. ReplayInv
  BY DEF PairInv
<1>1. /\ m \in Messages
      /\ m.role \in {"user", "assistant", "tool"}
      /\ StandsFor(m, transcript[k])
  BY <1>0, MessageFacts, MessageTypes
<1>2. CASE m.role = "user"
  <2>1. block = <<Item("user")>>
    BY <1>2 DEF Block
  <2>2. \A n \in DOMAIN block : block[n].type = "user"
    BY <2>1 DEF Item
  <2>3. \A n \in DOMAIN block : block[n] # CallItem(c) /\ block[n] # OutputItem(c)
    BY <2>2 DEF CallItem, OutputItem
  <2>4. QED
    BY <1>2, <2>3 DEF CallAt, OutputAt
<1>3. CASE m.role = "tool"
  <2>1. Called(m.tool_call_id) /\ m.tool_call_id \in Calls
    BY <1>1, <1>3, MessageTypes DEF StandsFor
  <2>2. BridgedOutput(m) <=> Bridged(m.tool_call_id)
    BY <1>3, <2>1 DEF BridgedOutput, BridgedCalls
  <2>3. block = <<IF Bridged(m.tool_call_id) THEN Absent ELSE OutputItem(m.tool_call_id)>>
    BY <1>3, <2>2 DEF Block
  <2>4. /\ DOMAIN block = {1}
        /\ block[1] # CallItem(c)
        /\ block[1] = OutputItem(c) <=> m.tool_call_id = c /\ ~Bridged(c)
    BY <2>3 DEF Absent, Item, OutputItem, CallItem
  <2>5. QED
    BY <1>3, <2>4 DEF CallAt, OutputAt
<1>4. CASE m.role = "assistant" /\ m.response_items # <<>>
  <2>1. /\ block = m.response_items /\ block \in Answers
        /\ \A n \in DOMAIN calls : ~Bridged(calls[n])
    BY <1>0, <1>4, StateReplayed
  <2>2. \A n \in DOMAIN block : block[n].type # "function_call_output"
    BY <2>1, AnswersAssumption DEF Hidden
  <2>3. \A n \in DOMAIN block : block[n] # OutputItem(c)
    BY <2>2 DEF OutputItem
  <2>4. CallsOf(calls, block)
    BY <1>4, <2>1 DEF PairInv, StateHasCalls
  <2>5. PICK at \in [DOMAIN calls -> DOMAIN block] :
          /\ \A i \in DOMAIN calls : block[at[i]] = CallItem(calls[i])
          /\ {at[i] : i \in DOMAIN calls} = {n \in DOMAIN block : block[n].type = "function_call"}
    BY <2>4, Zenon DEF CallsOf
  <2>6. \A n \in DOMAIN block : block[n] = CallItem(c) =>
          \E i \in DOMAIN calls : n = at[i] /\ calls[i] = c
    <3> SUFFICES ASSUME NEW n \in DOMAIN block, block[n] = CallItem(c)
                 PROVE  \E i \in DOMAIN calls : n = at[i] /\ calls[i] = c
      OBVIOUS
    <3>1. block[n].type = "function_call"
      BY DEF CallItem
    <3>2. PICK i \in DOMAIN calls : n = at[i]
      BY <2>5, <3>1
    <3>3. CallItem(calls[i]) = CallItem(c)
      BY <2>5, <3>2
    <3>4. QED
      BY <3>2, <3>3 DEF CallItem
  <2>7. \A i, j \in DOMAIN calls : calls[i] = calls[j] => i = j
    BY <1>1, <1>4, MessageTypes DEF CallLists
  <2>8. (\E n \in DOMAIN block : block[n] = CallItem(c)) <=>
          ~Bridged(c) /\ \E i : CallAt(k, i, c)
    BY <1>4, <2>1, <2>5, <2>6 DEF CallAt
  <2>9. QED
    BY <1>4, <2>3, <2>6, <2>7, <2>8 DEF OutputAt
<1>5. CASE m.role = "assistant" /\ m.response_items = <<>>
  <2>1. block = Rebuilt(m)
    BY <1>5 DEF Block, AssistantBlock, Rebuilt
  <2>2. calls \in CallLists /\ Len(calls) \in Nat /\ DOMAIN calls = 1..Len(calls)
    BY <1>1, <1>5, MessageTypes, CallListFacts
  <2>3. /\ DOMAIN block = 1..Len(calls) + 1
        /\ block[1].type \in {"message", "absent"}
        /\ \A i \in DOMAIN calls :
             block[i + 1] = IF calls[i] \in BridgedCalls THEN Absent ELSE CallItem(calls[i])
    BY <1>1, <1>5, <2>1, RebuiltFacts DEF Item, Absent
  <2>4. \A i \in DOMAIN calls : calls[i] \in BridgedCalls <=> Bridged(calls[i])
    BY <1>0, <1>5, <2>2, MessageFacts, CallListFacts DEF BridgedCalls
  <2>5. \A n \in DOMAIN block : n = 1 \/ \E i \in DOMAIN calls : n = i + 1
    <3> SUFFICES ASSUME NEW n \in DOMAIN block, n # 1
                 PROVE  \E i \in DOMAIN calls : n = i + 1
      OBVIOUS
    <3>1. n - 1 \in DOMAIN calls /\ n = (n - 1) + 1
      BY <2>2, <2>3
    <3>2. QED
      BY <3>1
  <2>6. /\ block[1] # CallItem(c) /\ block[1] # OutputItem(c)
    BY <2>3 DEF CallItem, OutputItem
  <2>7. \A i \in DOMAIN calls : block[i + 1] = CallItem(c) <=> calls[i] = c /\ ~Bridged(c)
    <3> SUFFICES ASSUME NEW i \in DOMAIN calls
                 PROVE  block[i + 1] = CallItem(c) <=> calls[i] = c /\ ~Bridged(c)
      OBVIOUS
    <3>1. CASE Bridged(calls[i])
      <4>1. block[i + 1] = Absent
        BY <2>3, <2>4, <3>1
      <4>2. Absent # CallItem(c)
        BY DEF Absent, Item, CallItem
      <4>3. QED
        BY <3>1, <4>1, <4>2
    <3>2. CASE ~Bridged(calls[i])
      <4>1. block[i + 1] = CallItem(calls[i])
        BY <2>3, <2>4, <3>2
      <4>2. CallItem(calls[i]) = CallItem(c) <=> calls[i] = c
        BY DEF CallItem
      <4>3. QED
        BY <3>2, <4>1, <4>2
    <3>3. QED
      BY <3>1, <3>2
  <2>8. \A i \in DOMAIN calls : i + 1 \in DOMAIN block
    BY <2>2, <2>3
  <2>9. (\E n \in DOMAIN block : block[n] = CallItem(c)) <=>
          ~Bridged(c) /\ \E i : CallAt(k, i, c)
    BY <1>5, <2>5, <2>6, <2>7, <2>8 DEF CallAt
  <2>10. \A i, j \in DOMAIN calls : calls[i] = calls[j] => i = j
    BY <2>2 DEF CallLists
  <2>11. QED
    BY <1>5, <2>5, <2>6, <2>7, <2>9, <2>10 DEF OutputAt
<1>6. QED
  BY <1>1, <1>2, <1>3, <1>4, <1>5

\* Whatever is bridged and whatever state is lost, the input of the Responses
\* API has each output behind its one call, and with each call its one output,
\* in a conversation of any length (_prepare_request, to_responses_input).
THEOREM CallsStayPaired == Spec => []CallsPaired
<1>1. PairInv => CallsPaired
  <2> SUFFICES ASSUME PairInv, sent.mode = "responses", NEW c \in Calls,
                      NEW k \in DOMAIN sent.blocks
      PROVE  /\ IsAt(OutputItem(c), k, 1) =>
                  \E j \in 1..k-1 : \E n \in DOMAIN sent.blocks[j] :
                    /\ IsAt(CallItem(c), j, n)
                    /\ \A i \in DOMAIN sent.blocks : \A m \in DOMAIN sent.blocks[i] :
                         IsAt(CallItem(c), i, m) => i = j /\ m = n
             /\ (\E n \in DOMAIN sent.blocks[k] : IsAt(CallItem(c), k, n)) =>
                  \E j \in DOMAIN sent.blocks :
                    /\ j > k /\ IsAt(OutputItem(c), j, 1)
                    /\ \A i \in DOMAIN sent.blocks : IsAt(OutputItem(c), i, 1) => i = j
    BY DEF CallsPaired
  <2>1. /\ DOMAIN sent.blocks = DOMAIN history
        /\ \A j \in DOMAIN history : sent.blocks[j] = Block(history[j])
    BY SentBlocks DEF PairInv, ResponsesPayload
  <2>2. /\ \A j : (\E n : IsAt(CallItem(c), j, n)) <=> ~Bridged(c) /\ \E i : CallAt(j, i, c)
        /\ \A j, l, n : IsAt(CallItem(c), j, l) /\ IsAt(CallItem(c), j, n) => l = n
        /\ \A j : IsAt(OutputItem(c), j, 1) <=> ~Bridged(c) /\ OutputAt(j, c)
    BY <2>1, BlockCalls DEF IsAt, CallAt, OutputAt
  <2>3. \A j : (\E i : CallAt(j, i, c)) \/ OutputAt(j, c) => j \in DOMAIN history /\ j \in Nat \ {0}
    BY DEF CallAt, OutputAt, PairInv, ReplayInv, HistoryInv
  <2>4. ASSUME IsAt(OutputItem(c), k, 1)
        PROVE  \E j \in 1..k-1 : \E n \in DOMAIN sent.blocks[j] :
                 /\ IsAt(CallItem(c), j, n)
                 /\ \A i \in DOMAIN sent.blocks : \A m \in DOMAIN sent.blocks[i] :
                      IsAt(CallItem(c), i, m) => i = j /\ m = n
    <3>1. ~Bridged(c) /\ OutputAt(k, c)
      BY <2>2, <2>4
    <3>2. PICK j : (\E i : CallAt(j, i, c)) /\ j < k
      BY <3>1 DEF PairInv, OutputsFollow
    <3>3. j \in 1..k-1
      BY <2>3, <3>1, <3>2
    <3>4. PICK n : IsAt(CallItem(c), j, n)
      BY <2>2, <3>1, <3>2
    <3>5. n \in DOMAIN sent.blocks[j]
      BY <3>4 DEF IsAt
    <3>6. ASSUME NEW i, NEW m, IsAt(CallItem(c), i, m) PROVE i = j /\ m = n
      <4>1. \E l : CallAt(i, l, c)
        BY <2>2, <3>6
      <4>2. i = j
        BY <3>2, <4>1 DEF PairInv, CallsOnce
      <4>3. QED
        BY <2>2, <3>4, <3>6, <4>2
    <3>7. QED
      BY <3>3, <3>4, <3>5, <3>6
  <2>5. ASSUME NEW n \in DOMAIN sent.blocks[k], IsAt(CallItem(c), k, n)
        PROVE  \E j \in DOMAIN sent.blocks :
                 /\ j > k /\ IsAt(OutputItem(c), j, 1)
                 /\ \A i \in DOMAIN sent.blocks : IsAt(OutputItem(c), i, 1) => i = j
    <3>1. ~Bridged(c) /\ \E i : CallAt(k, i, c)
      BY <2>2, <2>5
    <3>2. Answered(c)
      <4>1. Called(c)
        BY <3>1 DEF CallAt, Called
      <4>2. sent # Nothing
        BY DEF Nothing
      <4>3. QED
        BY <4>1, <4>2 DEF PairInv, AllAnswered
    <3>3. PICK j : OutputAt(j, c)
      BY <3>2 DEF Answered, OutputAt
    <3>4. j \in DOMAIN sent.blocks /\ IsAt(OutputItem(c), j, 1)
      BY <2>1, <2>2, <2>3, <3>1, <3>3
    <3>5. PICK l : (\E i : CallAt(l, i, c)) /\ l < j
      BY <3>3 DEF PairInv, OutputsFollow
    <3>6. l = k
      BY <3>1, <3>5 DEF PairInv, CallsOnce
    <3>7. j > k
      BY <2>3, <3>3, <3>5, <3>6
    <3>8. \A i \in DOMAIN sent.blocks : IsAt(OutputItem(c), i, 1) => i = j
      BY <2>2, <3>3 DEF PairInv, OutputsOnce
    <3>9. QED
      BY <3>4, <3>7, <3>8
  <2>6. QED
    BY <2>4, <2>5
<1>2. QED
  BY <1>1, PairInvHolds, PTL

-----------------------------------------------------------------------------
(* Bridged searches *)

\* Every search of a bridged call is asked again, once, as often as the
\* conversation goes on (the bridge messages of _prepare_request).
THEOREM SearchesAsked == Spec => []BridgedSearchesAsked
<1>1. ReplayInv => BridgedSearchesAsked
  <2> SUFFICES ASSUME ReplayInv, sent.mode = "responses", NEW c \in HasQuery
      PROVE  LET asked  == {k \in DOMAIN sent.bridge : sent.bridge[k] = c}
                 output == {k \in DOMAIN transcript : transcript[k] = <<OutputItem(c)>>}
             IN  /\ Bridged(c) => asked = output
                 /\ ~Bridged(c) => asked = {}
                 /\ asked # {} /\ ToolOf[c] = "web_search" => "web_search" \in sent.builtins
    BY DEF BridgedSearchesAsked
  <2> DEFINE asked  == {k \in DOMAIN sent.bridge : sent.bridge[k] = c}
             output == {k \in DOMAIN transcript : transcript[k] = <<OutputItem(c)>>}
  <2>1. PICK req \in Requests : sent = ResponsesPayload(req)
    BY SentBlocks
  <2>2. /\ DOMAIN sent.bridge = DOMAIN history
        /\ DOMAIN transcript = DOMAIN history
        /\ \A k \in DOMAIN history : sent.bridge[k] = BridgeQuery(k)
        /\ sent.builtins = BuiltinTools(req)
    BY <2>1 DEF ResponsesPayload, ReplayInv, HistoryInv
  <2>3. c \in Calls /\ c # None
    BY CallsAssumption
  <2>4. \A k \in DOMAIN history :
          BridgedOutput(history[k]) <=>
            history[k].role = "tool" /\ Bridged(history[k].tool_call_id)
    <3> SUFFICES ASSUME NEW k \in DOMAIN history
                 PROVE  BridgedOutput(history[k]) <=>
                          history[k].role = "tool" /\ Bridged(history[k].tool_call_id)
      OBVIOUS
    <3>1. history[k].role = "tool" =>
            history[k].tool_call_id \in Calls /\ Called(history[k].tool_call_id)
      BY MessageFacts, MessageTypes DEF StandsFor
    <3>2. QED
      BY <3>1 DEF BridgedOutput, BridgedCalls
  <2>5. \A k \in DOMAIN history : BridgeQuery(k) = c <=>
          history[k].role = "tool" /\ history[k].tool_call_id = c /\ Bridged(c)
    BY <2>3, <2>4 DEF BridgeQuery
  <2>6. \A k \in DOMAIN history : transcript[k] = <<OutputItem(c)>> <=>
          history[k].role = "tool" /\ history[k].tool_call_id = c
    <3> SUFFICES ASSUME NEW k \in DOMAIN history
                 PROVE  transcript[k] = <<OutputItem(c)>> <=>
                          history[k].role = "tool" /\ history[k].tool_call_id = c
      OBVIOUS
    <3>1. history[k].role \in {"user", "assistant", "tool"} /\ StandsFor(history[k], transcript[k])
      BY MessageFacts, MessageTypes
    <3>2. CASE history[k].role = "tool"
      <4>1. transcript[k] = <<OutputItem(history[k].tool_call_id)>>
        BY <3>1, <3>2 DEF StandsFor
      <4>2. OutputItem(history[k].tool_call_id) = OutputItem(c) <=> history[k].tool_call_id = c
        BY DEF OutputItem
      <4>3. QED
        BY <3>2, <4>1, <4>2
    <3>3. CASE history[k].role # "tool"
      <4>1. \A n \in DOMAIN transcript[k] : transcript[k][n].type # "function_call_output"
        BY <3>1, <3>3 DEF StandsFor, Item
      <4>2. 1 \in DOMAIN <<OutputItem(c)>> /\ <<OutputItem(c)>>[1].type = "function_call_output"
        BY DEF OutputItem
      <4>3. QED
        BY <3>3, <4>1, <4>2
    <3>4. QED
      BY <3>2, <3>3
  <2>7. (Bridged(c) => asked = output) /\ (~Bridged(c) => asked = {})
    BY <2>2, <2>5, <2>6
  <2>8. ASSUME asked # {}, ToolOf[c] = "web_search" PROVE "web_search" \in sent.builtins
    <3>1. PICK k \in DOMAIN history : BridgeQuery(k) = c
      BY <2>2, <2>8
    <3>2. BridgedOutput(history[k]) /\ ToolOf[history[k].tool_call_id] = "web_search"
      BY <2>4, <2>5, <2>8, <3>1
    <3>3. QED
      BY <2>2, <3>2 DEF BuiltinTools
  <2>9. QED
    BY <2>7, <2>8
<1>2. QED
  BY <1>1, ReplayInvHolds, PTL
=============================================================================
