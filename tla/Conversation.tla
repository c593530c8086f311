---------------------------- MODULE Conversation ----------------------------
(***************************************************************************)
(* A conversation of several turns through the gateway, which keeps none   *)
(* of it: the client sends the whole transcript each time, the gateway     *)
(* chooses the route (ChatService.select_mode) and, for the Responses API, *)
(* rebuilds the input items from the messages (_prepare_request and        *)
(* to_responses_input), replaying the state that came with an answer and   *)
(* taking out the calls of legacy search tools that it bridges to OpenAI's *)
(* built-in ones.                                                          *)
(*                                                                         *)
(* The variable transcript is what was really said: for each message, the  *)
(* items the user, the upstream or a tool contributed.  The properties     *)
(* compare it with the input that the gateway rebuilds.                    *)
(*                                                                         *)
(* The input is one sequence in the code.  Here it is kept as one block    *)
(* per message, and an item that is left out stands as Absent, so that     *)
(* place and order can be stated without searching.                        *)
(*                                                                         *)
(* Abstracted: text, arguments and outputs, a call's id stands for them;   *)
(* parameters passed on unchanged; x_openai.input_items, with which a      *)
(* client sends its state as a prefix.  An operator whose name ends in     *)
(* Bug is a wrong version of the definition after it, used only to see     *)
(* that a property notices.                                                *)
(***************************************************************************)
EXTENDS Naturals, Sequences, FiniteSets

CONSTANTS Calls,       \* ids of function calls
          ToolOf,      \* the function each of them calls
          HasQuery,    \* the calls with a search query, in arguments or output
          Answers,     \* the outputs a Responses call may return
          Requests,    \* the parameters a request may have
          MaxCalls,    \* bound: function calls of one answer
          MaxMessages, \* bound: messages of the conversation
          None

BridgedTools == {"web_search", "file_search"}

Tools == BridgedTools \cup {"custom"}

Modes == {"chat_completions", "responses"}

Bridged(c) == ToolOf[c] \in BridgedTools

-----------------------------------------------------------------------------
(* Items and messages *)

Item(type) == [type |-> type, call |-> None]
CallItem(c) == [type |-> "function_call", call |-> c]

\* The output has lost the id of its call.
OutputItem_Bug(c) == [type |-> "function_call_output", call |-> None]

OutputItem(c) == [type |-> "function_call_output", call |-> c]

Absent == Item("absent")

Items == [type : {"user", "message", "reasoning", "builtin", "absent"}, call : {None}]
           \cup [type : {"function_call", "function_call_output"}, call : Calls]

\* The kinds that only the Responses API returns.
Hidden == {"reasoning", "builtin"}

UserMessage(audio) == [role |-> "user", audio |-> audio]

AssistantMessage(content, calls, items) ==
  [role |-> "assistant", content |-> content, tool_calls |-> calls,
   response_items |-> items]

\* LangChain's tool messages do not always have the name of the tool.
ToolMessage(c, named) == [role |-> "tool", tool_call_id |-> c, named |-> named]

CallLists == {s \in UNION {[1..n -> Calls] : n \in 0..MaxCalls} :
                \A j, k \in DOMAIN s : s[j] = s[k] => j = k}

ASSUME CallsAssumption ==
  None \notin Calls /\ ToolOf \in [Calls -> Tools] /\ HasQuery \subseteq Calls
ASSUME BoundsAssumption == MaxCalls \in Nat /\ MaxMessages \in Nat

\* The upstream is given no bridged function, and calls none.
ASSUME AnswersAssumption ==
  \A a \in Answers :
    /\ a \in Seq(Items)
    /\ a # <<>>
    /\ \A n \in DOMAIN a :
         \/ a[n].type \in Hidden \cup {"message"}
         \/ a[n].type = "function_call" /\ ~Bridged(a[n].call)

\* extended: there is an x_builtin_tools, builtins is what it enables.
ASSUME RequestsAssumption ==
  \A req \in Requests :
    /\ req \in [mode : Modes \cup {"auto"}, tools : SUBSET Tools, extended : BOOLEAN,
                builtins : SUBSET BridgedTools, effort : BOOLEAN, nativeOnly : BOOLEAN]
    /\ req.builtins # {} => req.extended

-----------------------------------------------------------------------------

VARIABLES
  client,      \* "compat" keeps x_openai with its messages, "stock" loses it
  history,     \* the messages the client has stored
  transcript,  \* what each of them stands for
  sent         \* the request on its way, Nothing if there is none

vars == <<client, history, transcript, sent>>

Nothing == [mode |-> "nothing"]

Called(c) == \E k \in DOMAIN history :
               /\ history[k].role = "assistant"
               /\ \E n \in DOMAIN history[k].tool_calls : history[k].tool_calls[n] = c

Answered(c) == \E k \in DOMAIN history :
                 history[k].role = "tool" /\ history[k].tool_call_id = c

AllAnswered == \A c \in Calls : Called(c) => Answered(c)

-----------------------------------------------------------------------------
(* ChatService.select_mode.  In production there is a native adapter.      *)

HasAudio == \E k \in DOMAIN history : history[k].role = "user" /\ history[k].audio

\* Only the last answer is looked at.
HasState_Bug ==
  /\ Len(history) > 1
  /\ history[Len(history) - 1].role = "assistant"
  /\ history[Len(history) - 1].response_items # <<>>

HasState == \E k \in DOMAIN history :
              history[k].role = "assistant" /\ history[k].response_items # <<>>

RequiresResponses(req) ==
  req.extended \/ HasState \/ req.tools \cap BridgedTools # {}

SelectMode(req) ==
  CASE req.mode # "auto"                                                  -> req.mode
    [] req.mode = "auto" /\ RequiresResponses(req)                        -> "responses"
    [] req.mode = "auto" /\ ~RequiresResponses(req)
         /\ ~HasAudio /\ req.effort /\ req.tools # {}                     -> "responses"
    [] OTHER                                                              -> "chat_completions"

-----------------------------------------------------------------------------
(* ChatService._prepare_request and to_responses_input *)

BridgedCalls == {c \in Calls : Bridged(c) /\ Called(c)}

\* The prior call is not looked up: a tool message without a name stays.
BridgedOutput_Bug(m) == m.role = "tool" /\ m.named /\ Bridged(m.tool_call_id)

\* A tool message is bridged if its call was, or by its own name.
BridgedOutput(m) ==
  /\ m.role = "tool"
  /\ m.tool_call_id \in BridgedCalls \/ (m.named /\ Bridged(m.tool_call_id))

\* An assistant message that is nothing but bridged calls is not forwarded.
Dropped(m) == /\ m.tool_calls # <<>>
              /\ \A n \in DOMAIN m.tool_calls : m.tool_calls[n] \in BridgedCalls
              /\ ~m.content

\* Visible text is dropped with the calls.
AssistantBlock_Bug(m) ==
  IF m.response_items # <<>> THEN m.response_items
  ELSE <<IF m.content /\ m.tool_calls = <<>> THEN Item("message") ELSE Absent>>
         \o [n \in DOMAIN m.tool_calls |->
               IF m.tool_calls[n] \in BridgedCalls THEN Absent
               ELSE CallItem(m.tool_calls[n])]

\* The state of an answer is replayed as it is.  Without it the answer is
\* rebuilt from what is visible.
AssistantBlock(m) ==
  IF m.response_items # <<>> /\ ~Dropped(m) THEN m.response_items
  ELSE <<IF m.content \/ m.tool_calls = <<>> THEN Item("message") ELSE Absent>>
         \o [n \in DOMAIN m.tool_calls |->
               IF m.tool_calls[n] \in BridgedCalls THEN Absent
               ELSE CallItem(m.tool_calls[n])]

Block(m) ==
  CASE m.role = "user"      -> <<Item("user")>>
    [] m.role = "assistant" -> AssistantBlock(m)
    [] m.role = "tool"      -> <<IF BridgedOutput(m) THEN Absent
                                 ELSE OutputItem(m.tool_call_id)>>

\* The query that the k-th message adds behind the input, as a user message.
BridgeQuery(k) ==
  IF BridgedOutput(history[k]) /\ history[k].tool_call_id \in HasQuery
  THEN history[k].tool_call_id ELSE None

\* Only a tool definition enables the built-in search.
BuiltinTools_Bug(req) == req.builtins \cup (req.tools \cap {"web_search"})

\* The built-in tools the model is given.  A bridged file search sets an
\* empty configuration, and merge_builtin_tools skips an empty one.
BuiltinTools(req) ==
  req.builtins
    \cup (req.tools \cap {"web_search"})
    \cup {t \in {"web_search"} : \E k \in DOMAIN history :
            BridgedOutput(history[k]) /\ ToolOf[history[k].tool_call_id] = t}

ResponsesPayload(req) ==
  [mode     |-> "responses",
   req      |-> req,
   blocks   |-> [k \in DOMAIN history |-> Block(history[k])],
   bridge   |-> [k \in DOMAIN history |-> BridgeQuery(k)],
   builtins |-> BuiltinTools(req)]

\* What is sent, or the 400 the client gets for what Responses cannot carry.
Prepared(req) ==
  CASE SelectMode(req) = "chat_completions" -> [mode |-> "chat_completions", req |-> req]
    [] SelectMode(req) = "responses" /\ (req.nativeOnly \/ HasAudio) ->
         [mode |-> "rejected", req |-> req]
    [] OTHER -> ResponsesPayload(req)

-----------------------------------------------------------------------------
(* Initial state *)

Init ==
  /\ client \in {"compat", "stock"}
  /\ history = <<>>
  /\ transcript = <<>>
  /\ sent = Nothing

-----------------------------------------------------------------------------
(* The client *)

Says(message, items) ==
  /\ Len(history) < MaxMessages
  /\ history' = Append(history, message)
  /\ transcript' = Append(transcript, items)
  /\ UNCHANGED client

LastRole == IF history = <<>> THEN "none" ELSE history[Len(history)].role

UserSays(audio) ==
  /\ sent = Nothing
  /\ AllAnswered
  /\ LastRole # "user"
  /\ Says(UserMessage(audio), <<Item("user")>>)
  /\ UNCHANGED sent

\* The application runs a call of the last answer, in any order.
ToolRuns(c, named) ==
  /\ sent = Nothing
  /\ Called(c) /\ ~Answered(c)
  /\ Says(ToolMessage(c, named), <<OutputItem(c)>>)
  /\ UNCHANGED sent

\* The transcript goes to the gateway, and from there to the upstream.
Ask(req) ==
  /\ sent = Nothing
  /\ LastRole \in {"user", "tool"}
  /\ AllAnswered
  /\ sent' = Prepared(req)
  /\ UNCHANGED <<client, history, transcript>>

\* A 400, an upstream error, a broken stream: nothing is stored, and the
\* client may ask again.
Fails ==
  /\ sent # Nothing
  /\ sent' = Nothing
  /\ UNCHANGED <<client, history, transcript>>

-----------------------------------------------------------------------------
(* The answer and what the client stores of it *)

\* calls is the list of the function calls among the items, in their order.
CallsOf(calls, items) ==
  \E at \in [DOMAIN calls -> DOMAIN items] :
    /\ \A j, k \in DOMAIN calls : j < k => at[j] < at[k]
    /\ \A k \in DOMAIN calls : items[at[k]] = CallItem(calls[k])
    /\ {at[k] : k \in DOMAIN calls}
         = {n \in DOMAIN items : items[n].type = "function_call"}

\* A Chat Completions answer may call any function of the request.
NativeAnswer(content, calls) ==
  /\ sent.mode = "chat_completions"
  /\ content \/ calls # <<>>
  /\ \A n \in DOMAIN calls : ToolOf[calls[n]] \in sent.req.tools /\ ~Called(calls[n])
  /\ Says(AssistantMessage(content, calls, <<>>),
          <<IF content THEN Item("message") ELSE Absent>>
            \o [n \in DOMAIN calls |-> CallItem(calls[n])])
  /\ sent' = Nothing

\* A Responses answer: text and calls for any client, and all items, in
\* x_openai, for one that keeps them.
ResponsesAnswer(items, calls) ==
  /\ sent.mode = "responses"
  /\ CallsOf(calls, items)
  /\ calls # <<>> => "custom" \in sent.req.tools
  /\ \A n \in DOMAIN calls : ~Called(calls[n])
  /\ Says(AssistantMessage(\E n \in DOMAIN items : items[n].type = "message", calls,
                           IF client = "compat" THEN items ELSE <<>>),
          items)
  /\ sent' = Nothing

\* The conversation is as long as the bound allows.
Finished == /\ sent = Nothing
            /\ Len(history) = MaxMessages
            /\ UNCHANGED vars

Next == \/ \E audio \in BOOLEAN : UserSays(audio)
        \/ \E c \in Calls, named \in BOOLEAN : ToolRuns(c, named)
        \/ \E req \in Requests : Ask(req)
        \/ Fails
        \/ \E content \in BOOLEAN, calls \in CallLists : NativeAnswer(content, calls)
        \/ \E items \in Answers, calls \in CallLists : ResponsesAnswer(items, calls)
        \/ Finished

Spec == Init /\ [][Next]_vars

-----------------------------------------------------------------------------
(* Invariants *)

Messages ==
  [role : {"user"}, audio : BOOLEAN]
    \cup [role : {"assistant"}, content : BOOLEAN, tool_calls : CallLists,
          response_items : {<<>>} \cup Answers]
    \cup [role : {"tool"}, tool_call_id : Calls, named : BOOLEAN]

TypeOK ==
  /\ client \in {"compat", "stock"}
  /\ history \in Seq(Messages)
  /\ transcript \in Seq(Seq(Items))
  /\ Len(transcript) = Len(history)
  /\ sent.mode \in Modes \cup {"nothing", "rejected"}
  /\ sent # Nothing => sent.req \in Requests
  /\ sent.mode = "responses" =>
       /\ sent.blocks \in [DOMAIN history -> Seq(Items)]
       /\ sent.bridge \in [DOMAIN history -> Calls \cup {None}]
       /\ sent.builtins \subseteq BridgedTools

\* What was said, without both halves of the calls that are bridged.
Unbridged(block) ==
  [n \in DOMAIN block |->
     IF block[n].type \in {"function_call", "function_call_output"} /\ Bridged(block[n].call)
     THEN Absent ELSE block[n]]

\* For a client that keeps x_openai, every request that goes to the Responses
\* API, on whatever routes the answers before it came, carries all that was
\* said: every reasoning item, built-in call, text, call and output, once, at
\* its place, but for the two halves of each bridged call.
LosslessReplay ==
  sent.mode = "responses" /\ client = "compat" =>
    \A k \in DOMAIN transcript : sent.blocks[k] = Unbridged(transcript[k])

IsAt(item, k, n) == k \in DOMAIN sent.blocks /\ n \in DOMAIN sent.blocks[k]
                      /\ sent.blocks[k][n] = item

\* The Responses API refuses an output without its call and a call without
\* its output.  Whatever was bridged and whatever the client lost, every
\* output in the input follows its one call, and every call has its one output.
CallsPaired ==
  sent.mode = "responses" =>
    \A c \in Calls, k \in DOMAIN sent.blocks :
      /\ IsAt(OutputItem(c), k, 1) =>
           \E j \in 1..k-1 : \E n \in DOMAIN sent.blocks[j] :
             /\ IsAt(CallItem(c), j, n)
             /\ \A i \in DOMAIN sent.blocks : \A m \in DOMAIN sent.blocks[i] :
                  IsAt(CallItem(c), i, m) => i = j /\ m = n
      /\ (\E n \in DOMAIN sent.blocks[k] : IsAt(CallItem(c), k, n)) =>
           \E j \in DOMAIN sent.blocks :
             /\ j > k /\ IsAt(OutputItem(c), j, 1)
             /\ \A i \in DOMAIN sent.blocks : IsAt(OutputItem(c), i, 1) => i = j

\* Reasoning that was handed to a client which keeps it is not lost on the
\* way back: the conversation stays with the Responses API unless the client
\* itself forces the other route.
ReasoningStaysWithResponses ==
  /\ client = "compat"
  /\ sent.mode = "chat_completions"
  /\ \E k \in DOMAIN transcript : \E n \in DOMAIN transcript[k] : transcript[k][n].type \in Hidden
  => sent.req.mode = "chat_completions"

\* Each search the model once asked for through a bridged function, and whose
\* output the transcript has, is asked again exactly once; and a web search
\* comes with the tool to do it.
BridgedSearchesAsked ==
  sent.mode = "responses" =>
    \A c \in HasQuery :
      LET asked  == {k \in DOMAIN sent.bridge : sent.bridge[k] = c}
          output == {k \in DOMAIN transcript : transcript[k] = <<OutputItem(c)>>}
      IN  /\ Bridged(c) => asked = output
          /\ ~Bridged(c) => asked = {}
          /\ asked # {} /\ ToolOf[c] = "web_search" => "web_search" \in sent.builtins

-----------------------------------------------------------------------------
(* What the documentation says and the code does not do *)

\* "Function names web_search, search_web, browser_search, and file_search are
\* recognized and converted to Responses built-ins": the model gets the
\* built-in twin of each such function that was taken from it.
BridgedToolsConverted ==
  sent.mode = "responses" => sent.req.tools \cap BridgedTools \subseteq sent.builtins
=============================================================================
