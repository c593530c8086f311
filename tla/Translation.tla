---------------------------- MODULE Translation ----------------------------
(***************************************************************************)
(* What the handler does with one request before the upstream call: the    *)
(* schema's default for tool_choice (schemas/compat.py), the choice of the *)
(* route, the compatibility check, the preparation (chat_service.py,       *)
(* request_mapper.py) and the keyword arguments of the adapters            *)
(* (adapters/openai_*.py).  The result is the payload of the upstream call *)
(* or a 400.                                                               *)
(*                                                                         *)
(* A request is a record.  What its values are is left out, but for the    *)
(* two output limits, of which one wins: a parameter that is given is in   *)
(* the set params, a field the gateway does not know makes its place a     *)
(* member of unknown, a message has the set of its optional fields.  How   *)
(* the transcript is rebuilt from several messages is in Conversation;     *)
(* here the bridged tool messages with a query are the set searched.       *)
(*                                                                         *)
(* An operator whose name ends in Bug is a wrong version of the definition *)
(* after it, used only to see that a property notices.                     *)
(***************************************************************************)
EXTENDS Naturals, Sequences

CONSTANTS Requests,   \* the requests that are tried
          Functions,  \* names of functions
          BridgedTo,  \* the built-in tool each of them stands for, or None
          None

Modes == {"chat_completions", "responses"}

\* Parameters that have a place of the same name in the Responses API.
PassedOn == {"temperature", "top_p", "parallel_tool_calls", "service_tier", "metadata",
             "moderation", "prompt_cache_key", "prompt_cache_options",
             "prompt_cache_retention", "safety_identifier", "user"}

\* "n" stands for an n that is not 1; a response_format can be an empty object.
\* store is not here: both routes set it to false, as the schema says.
Params == PassedOn \cup {"reasoning_effort", "response_format", "empty_response_format",
                        "verbosity", "n", "stop"}

StreamOptions == {"include_usage", "include_obfuscation"}

BuiltinTools == {"web_search", "file_search", "code_interpreter"}

\* What x_builtin_tools can have; an empty configuration enables nothing.
BuiltinSettings == BuiltinTools \cup {"empty_file_search", "empty_code_interpreter"}

\* The x_openai objects of the request and of its messages.
Envelopes == {"x_openai", "message.x_openai"}

\* The objects of a request that keep fields the schema does not declare.  A
\* parameter of the request that is not declared is one the SDK's create()
\* takes, like seed, or a foreign one.
Places == {"request", "foreign", "stream_options", "x_builtin_tools", "tool", "function",
           "tool_choice", "message", "tool_call", "tool_call.function"} \cup Envelopes

Choice(type, name) == [type |-> type, name |-> name]

\* "other" is an object that is not a choice of a function.
Choices == [type : {"none", "auto", "required", "other"}, name : {None}]
             \cup [type : {"function"}, name : Functions]

Unset == Choice("unset", None)

\* A function as the Responses API takes it, without the object around it.
FlatChoices == [type : {"flat"}, name : Functions]

\* odd: the part has a field the gateway does not know, or lacks one.
Parts == [type : {"text", "image_url", "file", "refusal", "input_audio",
                  "input_text", "input_image", "input_file", "other"},
          odd : BOOLEAN]

\* An odd_call is malformed or calls something that is not a function;
\* x_openai is state to replay, the items of an earlier answer.
Fields == {"name", "refusal", "function_call", "audio", "tool_calls", "odd_call",
           "tool_call_id", "x_openai"}

Messages == [role : {"developer", "system", "user", "assistant", "tool", "function"},
             parts : Seq(Parts), fields : SUBSET Fields]

\* extended: there is an x_builtin_tools; builtins is what it sets; items is
\* x_openai.input_items.
RequestType ==
  [mode : Modes \cup {"auto"}, params : SUBSET Params, unknown : SUBSET Places,
   limit : Nat \cup {None}, old_limit : Nat \cup {None},
   stream : BOOLEAN, stream_options : SUBSET StreamOptions,
   tools : SUBSET Functions, tool_choice : Choices \cup {Unset},
   extended : BOOLEAN, builtins : SUBSET BuiltinSettings, items : BOOLEAN,
   searched : SUBSET {"web_search", "file_search"}, messages : Seq(Messages)]

ASSUME BridgesAssumption ==
  /\ BridgedTo \in [Functions -> {"web_search", "file_search", None}]
  /\ None \notin Functions \cup Nat \cup {"web_search", "file_search"}

ASSUME RequestsAssumption ==
  \A r \in Requests :
    /\ r \in RequestType
    /\ r.builtins # {} \/ "x_builtin_tools" \in r.unknown => r.extended
    /\ "tool_choice" \in r.unknown => r.tool_choice.type = "function"

VARIABLES
  pc,      \* how far the handler is
  req,     \* the request
  choice,  \* its tool_choice, after validation
  mode,    \* the route, once it is chosen
  payload  \* what is sent upstream, Nothing before that

vars == <<pc, req, choice, mode, payload>>

Nothing == [route |-> "nothing"]

-----------------------------------------------------------------------------
(* ChatCompletionsRequest.default_tool_choice_for_configured_tools *)

\* Built-in tools are forgotten.
DefaultChoice_Bug(r) ==
  IF r.tool_choice # Unset THEN r.tool_choice
  ELSE Choice(IF r.tools # {} THEN "auto" ELSE "none", None)

\* An empty file_search counts as a tool here, an empty code_interpreter does not.
DefaultChoice(r) ==
  IF r.tool_choice # Unset THEN r.tool_choice
  ELSE Choice(IF r.tools # {} \/ r.builtins \ {"empty_code_interpreter"} # {}
              THEN "auto" ELSE "none", None)

-----------------------------------------------------------------------------
(* ChatService.select_mode.  In production there is a native adapter.      *)

HasAudio(r) == \E k \in DOMAIN r.messages : \E n \in DOMAIN r.messages[k].parts :
                 r.messages[k].parts[n].type = "input_audio"

HasState(r) == r.items \/ \E k \in DOMAIN r.messages : "x_openai" \in r.messages[k].fields

HasBridge(r) == \E f \in r.tools : BridgedTo[f] # None

RequiresResponses(r) == r.extended \/ HasState(r) \/ HasBridge(r)

\* Reasoning alone is enough.
SelectMode_Bug(r) ==
  CASE r.mode # "auto" -> r.mode
    [] r.mode = "auto" /\ (RequiresResponses(r) \/ "reasoning_effort" \in r.params) -> "responses"
    [] OTHER -> "chat_completions"

SelectMode(r) ==
  CASE r.mode # "auto"                                  -> r.mode
    [] r.mode = "auto" /\ RequiresResponses(r)          -> "responses"
    [] r.mode = "auto" /\ ~RequiresResponses(r) /\ ~HasAudio(r)
         /\ "reasoning_effort" \in r.params /\ r.tools # {} -> "responses"
    [] OTHER                                            -> "chat_completions"

-----------------------------------------------------------------------------
(* ChatService._native_payload and the Chat Completions adapter *)

TakenOut(r) == {"x_builtin_tools"} \cup Envelopes
                 \cup {p \in {"tool_choice"} : r.tools = {}}

\* The extensions of the gateway are taken out, and a tool_choice without tools.
NativePayload(r, c) ==
  [route |-> "chat_completions", store |-> FALSE, params |-> r.params,
   limit |-> r.limit, old_limit |-> r.old_limit,
   stream |-> r.stream, stream_options |-> r.stream_options,
   unknown |-> r.unknown \ TakenOut(r),
   functions |-> r.tools, builtins |-> {},
   tool_choice |-> IF r.tools = {} THEN Unset ELSE c,
   input |-> [k \in DOMAIN r.messages |->
                [r.messages[k] EXCEPT !.fields = @ \ {"x_openai"}]]]

-----------------------------------------------------------------------------
(* ChatService._validate_responses_compatibility *)

\* The legacy call of an assistant is let through.
MessageConflicts_Bug(msg) ==
  \/ msg.role = "function"
  \/ "name" \in msg.fields /\ msg.role # "tool"
  \/ msg.fields \cap {"audio", "odd_call"} # {}

MessageConflicts(msg) ==
  \/ msg.role = "function"
  \/ "name" \in msg.fields /\ msg.role # "tool"
  \/ msg.fields \cap {"function_call", "audio", "odd_call"} # {}

\* Undeclared fields of these are not looked for.
Overlooked == Envelopes \cup {"tool_choice"}

Conflicts(r) ==
  \/ r.params \cap {"n", "stop"} # {}
  \/ r.unknown \ Overlooked # {}
  \/ r.stream_options # {} /\ ~r.stream
  \/ \E k \in DOMAIN r.messages : MessageConflicts(r.messages[k])

-----------------------------------------------------------------------------
(* request_mapper.py: messages.  A part of the input holds the type of the *)
(* part it was made from.                                                  *)

Responses(type) == [text |-> "input_text", image_url |-> "input_image",
                    file |-> "input_file", refusal |-> "input_text"][type]

Translated(p) ==
  IF p.type \in {"input_text", "input_image", "input_file"}
  THEN [type |-> p.type, holds |-> p.type]
  ELSE [type |-> Responses(p.type), holds |-> p.type]

\* _to_responses_content_part raises.
Rejected(p) == \/ p.type \in {"input_audio", "other"}
               \/ p.odd /\ p.type \in {"text", "image_url", "file", "refusal"}

Refusal == [type |-> "refusal", odd |-> FALSE]

\* _normalize_message_content_with_refusal: the refusal field of an assistant
\* becomes a part, unless there is such a part already.
WithRefusal(msg) ==
  IF /\ msg.role = "assistant" /\ "refusal" \in msg.fields
     /\ \A n \in DOMAIN msg.parts : msg.parts[n].type # "refusal"
  THEN Append(msg.parts, Refusal)
  ELSE msg.parts

Replayed(msg) == msg.role = "assistant" /\ "x_openai" \in msg.fields

\* The parts to_responses_input converts for a message.
Converted(msg) == CASE Replayed(msg)      -> <<>>
                    [] msg.role = "tool"  -> msg.parts
                    [] OTHER              -> WithRefusal(msg)

\* to_responses_input: what becomes of a message.
Input(msg) ==
  [kind  |-> CASE Replayed(msg)     -> "response_items"
               [] msg.role = "tool" -> "function_call_output"
               [] OTHER             -> "message",
   role  |-> msg.role,
   parts |-> [n \in DOMAIN Converted(msg) |-> Translated(Converted(msg)[n])],
   calls |-> msg.role = "assistant" /\ "tool_calls" \in msg.fields,
   call_id |-> msg.role = "tool" /\ "tool_call_id" \in msg.fields]

Unconvertible(r) ==
  \E k \in DOMAIN r.messages : \E n \in DOMAIN Converted(r.messages[k]) :
    Rejected(Converted(r.messages[k])[n])

-----------------------------------------------------------------------------
(* ChatService._prepare_request: tools *)

\* The functions that are left.
CustomTools(r) == {f \in r.tools : BridgedTo[f] = None}

\* x_builtin_tools after the bridge.  A bridged file search only sets an empty
\* configuration where there is none.
BuiltinConfig(r) ==
  (r.builtins \cap BuiltinTools)
    \cup {t \in {"web_search"} : t \in r.searched \/ \E f \in r.tools : BridgedTo[f] = t}

\* build_include_list: what is asked to be returned with the answer.
Include(config) ==
  {"reasoning.encrypted_content"}
    \cup {t \in {"web_search", "file_search", "code_interpreter"} : t \in config}

\* A choice of a function is sent on as it came.
NormalizeToolChoice_Bug(c) == c

\* _normalize_tool_choice: {"function": {"name": f}} becomes {"name": f}.
NormalizeToolChoice(c) == IF c.type = "function" THEN Choice("flat", c.name) ELSE c

-----------------------------------------------------------------------------
(* _shared_responses_kwargs, run_stream and the Responses adapter *)

\* max_completion_tokens or max_tokens: a 0 counts as not given.
Limit(r) == IF r.limit # None /\ r.limit # 0 THEN r.limit ELSE r.old_limit

\* response_format, unless it is empty, and verbosity are merged into text.
SharedParams(r) ==
  (r.params \cap (PassedOn \cup {"response_format", "verbosity"}))
    \cup {p \in {"reasoning"} : "reasoning_effort" \in r.params}

\* The usage chunk is made by the stream mapper, so that only obfuscation is
\* asked of the upstream.
ResponsesPayload(r, c) ==
  [route |-> "responses", store |-> FALSE, params |-> SharedParams(r),
   limit |-> Limit(r),
   stream |-> r.stream, stream_options |-> r.stream_options \cap {"include_obfuscation"},
   usage_chunk |-> r.stream /\ "include_usage" \in r.stream_options,
   functions |-> CustomTools(r), builtins |-> BuiltinConfig(r),
   include |-> Include(BuiltinConfig(r)),
   tool_choice |-> NormalizeToolChoice(c),
   unknown |-> {}, prefix |-> r.items,
   input |-> [k \in DOMAIN r.messages |-> Input(r.messages[k])],
   searches |-> r.searched]

-----------------------------------------------------------------------------
(* The steps of the handler *)

Init == /\ pc = "received"
        /\ req \in Requests
        /\ choice = Unset
        /\ mode = None
        /\ payload = Nothing

Parse == /\ pc = "received"
         /\ pc' = "parsed"
         /\ choice' = DefaultChoice(req)
         /\ UNCHANGED <<req, mode, payload>>

Route == /\ pc = "parsed"
         /\ pc' = "routed"
         /\ mode' = SelectMode(req)
         /\ UNCHANGED <<req, choice, payload>>

SendNative == /\ pc = "routed" /\ mode = "chat_completions" /\ "foreign" \notin req.unknown
              /\ pc' = "sent"
              /\ payload' = NativePayload(req, choice)
              /\ UNCHANGED <<req, choice, mode>>

\* create() has no such parameter: a TypeError, the client gets a 500.
RejectForeign == /\ pc = "routed" /\ mode = "chat_completions" /\ "foreign" \in req.unknown
                 /\ pc' = "failed"
                 /\ UNCHANGED <<req, choice, mode, payload>>

\* A ValueError, of the check or of the conversion: the client gets a 400.
Refuse == /\ \/ pc = "routed" /\ mode = "responses" /\ Conflicts(req)
             \/ pc = "checked" /\ Unconvertible(req)
          /\ pc' = "refused"
          /\ UNCHANGED <<req, choice, mode, payload>>

Check == /\ pc = "routed" /\ mode = "responses" /\ ~Conflicts(req)
         /\ pc' = "checked"
         /\ UNCHANGED <<req, choice, mode, payload>>

SendResponses == /\ pc = "checked" /\ ~Unconvertible(req)
                 /\ pc' = "sent"
                 /\ payload' = ResponsesPayload(req, choice)
                 /\ UNCHANGED <<req, choice, mode>>

Next == Parse \/ Route \/ SendNative \/ RejectForeign \/ Refuse \/ Check \/ SendResponses

Spec == Init /\ [][Next]_vars

-----------------------------------------------------------------------------
(* Properties *)

\* Each payload has what the API of its route takes.
TypeOK ==
  /\ pc \in {"received", "parsed", "routed", "checked", "sent", "refused", "failed"}
  /\ req \in RequestType
  /\ choice \in Choices \cup {Unset}
  /\ mode \in Modes \cup {None}
  /\ (payload = Nothing) = (pc # "sent")
  /\ pc = "sent" =>
       /\ payload.route = mode
       /\ payload.functions \subseteq Functions
       /\ payload.builtins \subseteq BuiltinTools
       /\ DOMAIN payload.input = DOMAIN req.messages
       /\ mode = "chat_completions" => payload.tool_choice \in Choices \cup {Unset}
       /\ mode = "responses" =>
            /\ payload.params \subseteq PassedOn \cup {"reasoning", "response_format", "verbosity"}
            /\ payload.tool_choice \in FlatChoices \cup {c \in Choices : c.type # "function"}

Counterpart(p) == IF p = "reasoning_effort" THEN "reasoning" ELSE p

\* The name of a tool message is that of its call, which has it; replayed state
\* has the calls and the refusal of its message.
FieldCarried(field, msg, item) ==
  CASE field = "refusal"      -> \/ item.kind = "response_items"
                                 \/ \E n \in DOMAIN item.parts : item.parts[n].holds = "refusal"
    [] field = "tool_calls"   -> item.kind = "response_items" \/ item.calls
    [] field = "tool_call_id" -> item.call_id
    [] field = "x_openai"     -> item.kind = "response_items"
    [] field = "name"         -> msg.role = "tool"
    [] OTHER                  -> FALSE

\* A message whose state is replayed is there as that state.
MessageCarried(msg, item) ==
  /\ item.kind # "response_items" =>
       \A n \in DOMAIN msg.parts : item.parts[n].holds = msg.parts[n].type
  /\ \A field \in msg.fields : FieldCarried(field, msg, item)

ResponsesCarries ==
  /\ \A p \in req.params : Counterpart(p) \in payload.params
  /\ req.unknown \subseteq payload.unknown
  /\ req.limit # None \/ req.old_limit # None =>
       payload.limit = IF req.limit # None THEN req.limit ELSE req.old_limit
  /\ "include_usage" \in req.stream_options => payload.usage_chunk
  /\ "include_obfuscation" \in req.stream_options
       => "include_obfuscation" \in payload.stream_options
  /\ \A f \in req.tools : f \in payload.functions \/ BridgedTo[f] \in payload.builtins
  /\ req.builtins \subseteq payload.builtins
  /\ \A t \in payload.builtins : t \in payload.include
  /\ req.items => payload.prefix
  /\ \A k \in DOMAIN req.messages : MessageCarried(req.messages[k], payload.input[k])

\* Whatever a request asks for is in the upstream request of the Responses route
\* in some form, or the client gets a 400: "the gateway returns an OpenAI-shaped
\* 400 error instead of silently dropping it" (README.md:22).  It is not so.
NothingDropped == pc = "sent" /\ mode = "responses" => ResponsesCarries

\* What the Responses route drops without a word.
FieldLost(field, msg) ==
  CASE field = "refusal"                  -> /\ msg.role # "assistant"
                                             /\ \A n \in DOMAIN msg.parts :
                                                  msg.parts[n].type # "refusal"
    [] field \in {"tool_calls", "x_openai"} -> msg.role # "assistant"
    [] field = "tool_call_id"             -> msg.role # "tool"
    [] OTHER                              -> FALSE

Loses(r) ==
  \/ "empty_response_format" \in r.params
  \/ r.unknown \cap Overlooked # {}
  \/ r.limit = 0 /\ r.old_limit # 0
  \/ r.builtins \cap {"empty_file_search", "empty_code_interpreter"} # {}
  \/ "file_search" \notin r.builtins /\ \E f \in r.tools : BridgedTo[f] = "file_search"
  \/ \E k \in DOMAIN r.messages : \E field \in r.messages[k].fields :
       FieldLost(field, r.messages[k])

\* A client that leaves the choice to the gateway loses no extension of it but
\* undeclared fields of the extensions themselves.
ChatCarries ==
  /\ payload.params = req.params /\ payload.stream_options = req.stream_options
  /\ payload.limit = req.limit /\ payload.old_limit = req.old_limit
  /\ payload.functions = req.tools
  /\ req.unknown \ {"tool_choice"} \subseteq payload.unknown \cup {"x_builtin_tools"} \cup Envelopes
  /\ "tool_choice" \in req.unknown /\ req.tools # {} => "tool_choice" \in payload.unknown
  /\ \A k \in DOMAIN req.messages :
       /\ payload.input[k].parts = req.messages[k].parts
       /\ req.messages[k].fields \subseteq payload.input[k].fields \cup {"x_openai"}
  /\ req.mode = "auto" => /\ ~req.extended /\ ~req.items
                          /\ \A k \in DOMAIN req.messages :
                               "x_openai" \notin req.messages[k].fields

\* A request that is sent to the Responses API is there in full unless it has
\* one of the things named in Loses, and then it is not; on the other route all
\* is there but the extensions of the gateway (chat_service.py:64-174, 197-365;
\* request_mapper.py:136-291).
OnlyKnownLosses ==
  pc = "sent" => CASE mode = "responses"        -> ResponsesCarries <=> ~Loses(req)
                   [] mode = "chat_completions" -> ChatCarries

\* The route chosen by the gateway never refuses what a Chat Completions
\* request can say: a 400 means that the client forced the route, used an
\* extension or a bridged name, or asked for reasoning with tools.
OrdinaryNeverRefused ==
  pc = "refused" /\ req.mode = "auto" =>
    \/ req.extended \/ req.items
    \/ \E k \in DOMAIN req.messages : "x_openai" \in req.messages[k].fields
    \/ \E f \in req.tools : BridgedTo[f] # None
    \/ /\ "reasoning_effort" \in req.params /\ req.tools # {}
       /\ \A k \in DOMAIN req.messages : \A n \in DOMAIN req.messages[k].parts :
            req.messages[k].parts[n].type # "input_audio"

\* Two places where the bridge comes too late.  The default of tool_choice is
\* set by the schema, before a search of the transcript adds its tool: the
\* model is told to search, given the tool, and forbidden to use it.
SearchForbidden == /\ mode = "responses" /\ "web_search" \in req.searched
                   /\ req.tools = {} /\ req.builtins \subseteq {"empty_code_interpreter"}

\* And a choice that forces a bridged function is sent on without that function.
ForcesBridged(c) == mode = "responses" /\ BridgedTo[c.name] # None

\* A client that declares tools and no tool_choice gets them offered for use,
\* a declared function that is forced is sent along, both but for the two gaps
\* above; and the Chat Completions API, which refuses a tool_choice without
\* tools, is never sent the schema's default.
ChoiceMatchesTools ==
  pc = "sent" =>
    /\ req.tool_choice = Unset /\ payload.functions \cup payload.builtins # {}
         => payload.tool_choice = Choice("auto", None) \/ SearchForbidden
    /\ payload.tool_choice.type \in {"function", "flat"} /\ payload.tool_choice.name \in req.tools
         => \/ payload.tool_choice.name \in payload.functions
            \/ ForcesBridged(payload.tool_choice)
    /\ mode = "chat_completions" /\ payload.functions = {} => payload.tool_choice = Unset
=============================================================================
