------------------------- MODULE Translation_proofs -------------------------
(* Theorems about Translation. *)
EXTENDS Translation, TLAPS

\* What each step of the handler leaves behind.
StepInv ==
  /\ pc \in {"received", "parsed", "routed", "checked", "sent", "refused", "failed"}
  /\ req \in Requests
  /\ pc = "received" => choice = Unset
  /\ pc # "received" => choice = DefaultChoice(req)
  /\ pc \in {"received", "parsed"} => mode = None
  /\ pc \notin {"received", "parsed"} => mode = SelectMode(req)
  /\ pc \in {"received", "parsed", "routed", "checked", "refused", "failed"} => payload = Nothing
  /\ pc = "checked" => mode = "responses" /\ ~Conflicts(req)
  /\ pc = "sent" =>
       \/ /\ mode = "chat_completions" /\ payload = NativePayload(req, choice)
          /\ "foreign" \notin req.unknown
       \/ /\ mode = "responses" /\ payload = ResponsesPayload(req, choice)
          /\ ~Conflicts(req) /\ ~Unconvertible(req)
  /\ pc = "refused" => mode = "responses" /\ (Conflicts(req) \/ Unconvertible(req))

\* StepInv is inductive.
LEMMA Steps == Spec => []StepInv
<1>1. Init => StepInv
  BY DEF Init, StepInv
<1>2. StepInv /\ [Next]_vars => StepInv'
  <2> SUFFICES ASSUME StepInv, [Next]_vars PROVE StepInv'
    OBVIOUS
  <2> USE DEF StepInv
  <2>1. CASE Parse
    BY <2>1 DEF Parse
  <2>2. CASE Route
    BY <2>2 DEF Route
  <2>3. CASE SendNative
    BY <2>3 DEF SendNative
  <2>4. CASE RejectForeign
    BY <2>4 DEF RejectForeign
  <2>5. CASE Refuse
    BY <2>5 DEF Refuse
  <2>6. CASE Check
    BY <2>6 DEF Check
  <2>7. CASE SendResponses
    BY <2>7 DEF SendResponses
  <2>8. CASE UNCHANGED vars
    BY <2>8 DEF vars
  <2>9. QED
    BY <2>1, <2>2, <2>3, <2>4, <2>5, <2>6, <2>7, <2>8 DEF Next
<1>3. QED
  BY <1>1, <1>2, PTL DEF Spec

-----------------------------------------------------------------------------

LEMMA ModeType == ASSUME NEW r \in Requests PROVE SelectMode(r) \in Modes
  BY RequestsAssumption DEF SelectMode, RequestType, Modes

LEMMA ChoiceType == ASSUME NEW r \in Requests PROVE DefaultChoice(r) \in Choices
<1>1. r.tool_choice \in Choices \cup {Unset}
  BY RequestsAssumption DEF RequestType
<1>2. \A t \in {"auto", "none"} : Choice(t, None) \in Choices
  BY DEF Choice, Choices
<1>3. QED
  BY <1>1, <1>2 DEF DefaultChoice

\* A forced function is sent to the Responses API without the object around it.
LEMMA NormalizedType ==
  ASSUME NEW c \in Choices
  PROVE  NormalizeToolChoice(c) \in FlatChoices \cup {d \in Choices : d.type # "function"}
<1>1. c.type = "function" => c.name \in Functions
  BY DEF Choices
<1>2. CASE c.type = "function"
  BY <1>1, <1>2 DEF NormalizeToolChoice, FlatChoices, Choice
<1>3. CASE c.type # "function"
  BY <1>3 DEF NormalizeToolChoice
<1>4. QED
  BY <1>2, <1>3

\* Each payload has what the API of its route takes, for any requests.
THEOREM TypeCorrect == Spec => []TypeOK
<1>1. StepInv => TypeOK
  <2> SUFFICES ASSUME StepInv PROVE TypeOK
    OBVIOUS
  <2>1. req \in RequestType
    BY RequestsAssumption DEF StepInv
  <2>2. choice \in Choices \cup {Unset}
    BY ChoiceType DEF StepInv
  <2>3. mode \in Modes \cup {None}
    BY ModeType DEF StepInv
  <2>4. (payload = Nothing) = (pc # "sent")
    <3>1. payload.route \in {"chat_completions", "responses"} => payload # Nothing
      BY DEF Nothing
    <3>2. pc = "sent" => payload.route \in {"chat_completions", "responses"}
      BY DEF StepInv, NativePayload, ResponsesPayload
    <3>3. QED
      BY <3>1, <3>2 DEF StepInv
  <2>5. ASSUME pc = "sent"
        PROVE  /\ payload.route = mode
               /\ payload.functions \subseteq Functions
               /\ payload.builtins \subseteq BuiltinTools
               /\ DOMAIN payload.input = DOMAIN req.messages
               /\ mode = "chat_completions" => payload.tool_choice \in Choices \cup {Unset}
               /\ mode = "responses" =>
                    /\ payload.params \subseteq
                          PassedOn \cup {"reasoning", "response_format", "verbosity"}
                    /\ payload.tool_choice \in
                          FlatChoices \cup {c \in Choices : c.type # "function"}
    <3>1. CASE mode = "chat_completions"
      BY <2>1, <2>2, <2>5, <3>1 DEF StepInv, NativePayload, ResponsesPayload, RequestType
    <3>2. CASE mode = "responses"
      <4>1. payload = ResponsesPayload(req, choice)
        BY <2>5, <3>2 DEF StepInv
      <4>2. choice \in Choices
        BY <2>5, ChoiceType DEF StepInv
      <4>3. NormalizeToolChoice(choice) \in FlatChoices \cup {c \in Choices : c.type # "function"}
        BY <4>2, NormalizedType
      <4>4. BuiltinConfig(req) \subseteq BuiltinTools
        BY <2>1 DEF BuiltinConfig, BuiltinTools, RequestType
      <4>5. CustomTools(req) \subseteq Functions
        BY <2>1 DEF CustomTools, RequestType
      <4>6. QED
        BY <3>2, <4>1, <4>3, <4>4, <4>5 DEF ResponsesPayload, SharedParams
    <3>3. QED
      BY <2>5, <3>1, <3>2 DEF StepInv
  <2>6. QED
    BY <2>1, <2>2, <2>3, <2>4, <2>5 DEF StepInv, TypeOK
<1>2. QED
  BY <1>1, Steps, PTL

-----------------------------------------------------------------------------
(* What the Responses route drops. *)

\* The parts of a message that passed the check are in its input, and so is each
\* of its fields that FieldLost does not name.
LEMMA MessagesSurvive ==
  ASSUME NEW msg \in Messages, ~MessageConflicts(msg)
  PROVE  MessageCarried(msg, Input(msg)) <=> \A field \in msg.fields : ~FieldLost(field, msg)
<1>0. Replayed(msg) <=> Input(msg).kind = "response_items"
  <2>1. CASE Replayed(msg)
    BY <2>1 DEF Input, Replayed
  <2>2. CASE ~Replayed(msg)
    <3>1. Input(msg).kind \in {"function_call_output", "message"}
      BY <2>2 DEF Input
    <3>2. QED
      BY <2>2, <3>1
  <2>3. QED
    BY <2>1, <2>2
<1> DEFINE parts == Converted(msg)
<1>1. ASSUME ~Replayed(msg)
      PROVE  /\ msg.parts \in Seq(Parts) /\ parts \in Seq(Parts)
             /\ DOMAIN msg.parts \subseteq DOMAIN parts
             /\ \A n \in DOMAIN msg.parts : parts[n] = msg.parts[n]
  <2>1. msg.parts \in Seq(Parts) /\ Refusal \in Parts
    BY DEF Messages, Refusal, Parts
  <2>2. parts = msg.parts \/ parts = Append(msg.parts, Refusal)
    BY <1>1 DEF Converted, WithRefusal
  <2>3. CASE parts = msg.parts
    BY <2>1, <2>3
  <2>4. CASE parts = Append(msg.parts, Refusal)
    <3>1. DOMAIN msg.parts = 1..Len(msg.parts) /\ Len(msg.parts) \in Nat
      BY <2>1
    <3>2. parts \in Seq(Parts) /\ Len(parts) = Len(msg.parts) + 1
      BY <2>1, <2>4
    <3>3. DOMAIN parts = 1..Len(parts)
      BY <3>2
    <3>4. \A n \in 1..Len(msg.parts) : parts[n] = msg.parts[n]
      BY <2>1, <2>4
    <3>5. QED
      BY <2>1, <3>1, <3>2, <3>3, <3>4
  <2>5. QED
    BY <2>2, <2>3, <2>4
<1>2. Input(msg).parts = [n \in DOMAIN parts |-> Translated(parts[n])]
  BY DEF Input
<1>3. \A p : Translated(p).holds = p.type
  BY DEF Translated
<1>4. ASSUME NEW n \in DOMAIN msg.parts, ~Replayed(msg)
      PROVE  Input(msg).parts[n].holds = msg.parts[n].type
  <2>1. n \in DOMAIN parts /\ parts[n] = msg.parts[n]
    BY <1>1, <1>4
  <2>2. QED
    BY <1>2, <1>3, <2>1
<1>5. ASSUME "refusal" \in msg.fields, ~Replayed(msg)
      PROVE  (\E n \in DOMAIN Input(msg).parts : Input(msg).parts[n].holds = "refusal")
               <=> ~FieldLost("refusal", msg)
  <2>1. (\E n \in DOMAIN Input(msg).parts : Input(msg).parts[n].holds = "refusal")
          <=> \E n \in DOMAIN parts : parts[n].type = "refusal"
    BY <1>2, <1>3
  <2>2. CASE \E n \in DOMAIN msg.parts : msg.parts[n].type = "refusal"
    <3>1. \E n \in DOMAIN parts : parts[n].type = "refusal"
      BY <1>1, <1>5, <2>2
    <3>2. QED
      BY <2>1, <2>2, <3>1 DEF FieldLost
  <2>3. CASE ~(\E n \in DOMAIN msg.parts : msg.parts[n].type = "refusal") /\ msg.role # "assistant"
    <3>1. parts = msg.parts
      BY <1>5, <2>3 DEF Converted, WithRefusal
    <3>2. QED
      BY <2>1, <2>3, <3>1 DEF FieldLost
  <2>4. CASE ~(\E n \in DOMAIN msg.parts : msg.parts[n].type = "refusal") /\ msg.role = "assistant"
    <3>1. parts = Append(msg.parts, Refusal)
      BY <1>5, <2>4 DEF Converted, WithRefusal
    <3>2. msg.parts \in Seq(Parts) /\ Len(msg.parts) \in Nat /\ Len(parts) = Len(msg.parts) + 1
      BY <1>1, <1>5, <3>1
    <3>3. DOMAIN parts = 1..Len(parts)
      BY <1>1, <1>5
    <3>4. parts[Len(msg.parts) + 1] = Refusal
      BY <3>1, <3>2
    <3>5. \E n \in DOMAIN parts : parts[n].type = "refusal"
      BY <3>2, <3>3, <3>4 DEF Refusal
    <3>6. QED
      BY <2>1, <2>4, <3>5 DEF FieldLost
  <2>5. QED
    BY <2>2, <2>3, <2>4
<1>6. ASSUME NEW field \in msg.fields
      PROVE  FieldCarried(field, msg, Input(msg)) <=> ~FieldLost(field, msg)
  <2>1. /\ field \in {"name", "refusal", "tool_calls", "tool_call_id", "x_openai"}
        /\ field = "name" => msg.role = "tool"
    BY DEF Messages, MessageConflicts, Fields
  <2>2. Replayed(msg) => msg.role = "assistant"
    BY DEF Replayed
  <2>3. /\ Input(msg).calls <=> msg.role = "assistant" /\ "tool_calls" \in msg.fields
        /\ Input(msg).call_id <=> msg.role = "tool" /\ "tool_call_id" \in msg.fields
    BY DEF Input
  <2>4. CASE field = "refusal"
    BY <1>0, <1>5, <2>2, <2>4 DEF FieldCarried, FieldLost
  <2>5. CASE field = "tool_calls"
    BY <1>0, <2>2, <2>3, <2>5 DEF FieldCarried, FieldLost
  <2>6. CASE field = "tool_call_id"
    BY <2>3, <2>6 DEF FieldCarried, FieldLost
  <2>7. CASE field = "x_openai"
    BY <1>0, <2>7 DEF FieldCarried, FieldLost, Replayed
  <2>8. CASE field = "name"
    BY <2>1, <2>8 DEF FieldCarried, FieldLost
  <2>9. QED
    BY <2>1, <2>4, <2>5, <2>6, <2>7, <2>8
<1>7. QED
  BY <1>0, <1>4, <1>6 DEF MessageCarried

\* A route chosen by the gateway takes every extension with it.
LEMMA AutoKeepsExtensions ==
  ASSUME NEW r \in Requests, r.mode = "auto", SelectMode(r) = "chat_completions"
  PROVE  ~RequiresResponses(r)
  BY DEF SelectMode

\* A request that is sent to the Responses API is there in full unless it has one
\* of the things that Loses names, and then it is not; on the other route all is
\* there but the extensions of the gateway.  For any functions and requests.
THEOREM LosesNoMore == Spec => []OnlyKnownLosses
<1>1. StepInv => OnlyKnownLosses
  <2> SUFFICES ASSUME StepInv, pc = "sent"
               PROVE  CASE mode = "responses"        -> ResponsesCarries <=> ~Loses(req)
                        [] mode = "chat_completions" -> ChatCarries
    BY DEF OnlyKnownLosses
  <2>1. req \in RequestType /\ req \in Requests
    BY RequestsAssumption DEF StepInv
  <2>2. CASE mode = "responses"
    <3>1. payload = ResponsesPayload(req, choice) /\ ~Conflicts(req)
      BY <2>2 DEF StepInv
    <3>2. (\A p \in req.params : Counterpart(p) \in payload.params)
            <=> "empty_response_format" \notin req.params
      <4>1. req.params \subseteq PassedOn \cup {"reasoning_effort", "response_format",
                                                "empty_response_format", "verbosity"}
        BY <2>1, <3>1 DEF Conflicts, RequestType, Params
      <4>2. payload.params = SharedParams(req)
        BY <3>1 DEF ResponsesPayload
      <4>3. ASSUME NEW p \in req.params, p # "empty_response_format"
            PROVE  Counterpart(p) \in payload.params
        BY <4>1, <4>2, <4>3 DEF SharedParams, Counterpart, PassedOn
      <4>4. "empty_response_format" \notin SharedParams(req)
        BY DEF SharedParams, PassedOn
      <4>5. QED
        BY <4>2, <4>3, <4>4 DEF Counterpart
    <3>3. req.unknown \subseteq payload.unknown <=> req.unknown \cap Overlooked = {}
      <4>1. req.unknown \ Overlooked = {} /\ payload.unknown = {}
        BY <3>1 DEF Conflicts, ResponsesPayload
      <4>2. QED
        BY <4>1
    <3>4. (req.limit # None \/ req.old_limit # None =>
             payload.limit = IF req.limit # None THEN req.limit ELSE req.old_limit)
            <=> ~(req.limit = 0 /\ req.old_limit # 0)
      <4>1. payload.limit = Limit(req)
        BY <3>1 DEF ResponsesPayload
      <4>2. 0 # None
        BY BridgesAssumption
      <4>3. QED
        BY <4>1, <4>2 DEF Limit
    <3>5. /\ "include_usage" \in req.stream_options => payload.usage_chunk
          /\ "include_obfuscation" \in req.stream_options
               => "include_obfuscation" \in payload.stream_options
      <4>1. req.stream_options # {} => req.stream
        BY <3>1 DEF Conflicts
      <4>2. QED
        BY <3>1, <4>1 DEF ResponsesPayload
    <3>6. /\ payload.functions = CustomTools(req)
          /\ payload.builtins = BuiltinConfig(req)
          /\ payload.include = Include(BuiltinConfig(req))
          /\ payload.prefix = req.items
      BY <3>1 DEF ResponsesPayload
    <3>7. (\A f \in req.tools : f \in payload.functions \/ BridgedTo[f] \in payload.builtins)
            <=> ~("file_search" \notin req.builtins
                    /\ \E f \in req.tools : BridgedTo[f] = "file_search")
      <4>1. \A f \in req.tools : BridgedTo[f] \in {"web_search", "file_search", None}
        BY <2>1, BridgesAssumption DEF RequestType
      <4>2. "file_search" \in BuiltinConfig(req) <=> "file_search" \in req.builtins
        BY DEF BuiltinConfig, BuiltinTools
      <4>3. \A f \in req.tools : BridgedTo[f] = "web_search" => "web_search" \in BuiltinConfig(req)
        BY DEF BuiltinConfig
      <4>4. None # "file_search"
        BY BridgesAssumption
      <4>5. QED
        BY <3>6, <4>1, <4>2, <4>3, <4>4 DEF CustomTools
    <3>8. req.builtins \subseteq payload.builtins
            <=> req.builtins \cap {"empty_file_search", "empty_code_interpreter"} = {}
      <4>1. req.builtins \subseteq BuiltinSettings
        BY <2>1 DEF RequestType
      <4>2. QED
        BY <3>6, <4>1 DEF BuiltinConfig, BuiltinSettings, BuiltinTools
    <3>9. \A t \in payload.builtins : t \in payload.include
      BY <2>1, <3>6 DEF Include, BuiltinConfig, RequestType, BuiltinTools
    <3>10. ASSUME NEW k \in DOMAIN req.messages
           PROVE  MessageCarried(req.messages[k], payload.input[k])
                    <=> \A field \in req.messages[k].fields : ~FieldLost(field, req.messages[k])
      <4>1. req.messages[k] \in Messages
        BY <2>1 DEF RequestType
      <4>2. ~MessageConflicts(req.messages[k])
        BY <3>1 DEF Conflicts
      <4>3. payload.input[k] = Input(req.messages[k])
        BY <3>1 DEF ResponsesPayload
      <4>4. QED
        BY <4>1, <4>2, <4>3, MessagesSurvive
    <3>11. ResponsesCarries <=> ~Loses(req)
      BY <3>2, <3>3, <3>4, <3>5, <3>6, <3>7, <3>8, <3>9, <3>10 DEF ResponsesCarries, Loses
    <3>12. QED
      BY <2>2, <3>11
  <2>3. CASE mode = "chat_completions"
    <3>1. payload = NativePayload(req, choice) /\ SelectMode(req) = "chat_completions"
      BY <2>3 DEF StepInv
    <3>2. ASSUME NEW k \in DOMAIN req.messages
          PROVE  /\ payload.input[k].parts = req.messages[k].parts
                 /\ req.messages[k].fields \subseteq payload.input[k].fields \cup {"x_openai"}
      <4>1. req.messages[k] \in Messages
        BY <2>1 DEF RequestType
      <4>2. payload.input[k] = [req.messages[k] EXCEPT !.fields = @ \ {"x_openai"}]
        BY <3>1 DEF NativePayload
      <4>3. QED
        BY <4>1, <4>2 DEF Messages
    <3>3. ASSUME req.mode = "auto"
          PROVE  /\ ~req.extended /\ ~req.items
                 /\ \A k \in DOMAIN req.messages : "x_openai" \notin req.messages[k].fields
      BY <2>1, <3>1, <3>3, AutoKeepsExtensions DEF RequiresResponses, HasState
    <3>4. /\ payload.params = req.params /\ payload.stream_options = req.stream_options
          /\ payload.limit = req.limit /\ payload.old_limit = req.old_limit
          /\ payload.functions = req.tools
          /\ payload.unknown = req.unknown \ TakenOut(req)
      BY <3>1 DEF NativePayload
    <3>5. /\ req.unknown \ {"tool_choice"}
               \subseteq payload.unknown \cup {"x_builtin_tools"} \cup Envelopes
          /\ "tool_choice" \in req.unknown /\ req.tools # {} => "tool_choice" \in payload.unknown
      BY <3>4 DEF TakenOut, Envelopes
    <3>6. ChatCarries
      BY <3>2, <3>3, <3>4, <3>5 DEF ChatCarries
    <3>7. QED
      BY <2>3, <3>6
  <2>4. QED
    BY <2>1, <2>2, <2>3, ModeType DEF StepInv, Modes
<1>2. QED
  BY <1>1, Steps, PTL

-----------------------------------------------------------------------------

\* The route chosen by the gateway refuses nothing that is a plain Chat
\* Completions request, for any functions and requests.
THEOREM OrdinaryPasses == Spec => []OrdinaryNeverRefused
<1>1. StepInv => OrdinaryNeverRefused
  BY DEF StepInv, OrdinaryNeverRefused, SelectMode, RequiresResponses, HasState, HasBridge, HasAudio
<1>2. QED
  BY <1>1, Steps, PTL

\* Declared tools are offered for use, a forced one is sent along, and no
\* tool_choice goes to Chat Completions without a tool, for any functions and
\* requests, but for the two gaps that Translation names.
THEOREM ChoiceFits == Spec => []ChoiceMatchesTools
<1>1. StepInv => ChoiceMatchesTools
  <2> SUFFICES ASSUME StepInv, pc = "sent" PROVE ChoiceMatchesTools
    BY DEF ChoiceMatchesTools
  <2> DEFINE sent == payload.tool_choice
             Offered == req.tool_choice = Unset /\ payload.functions \cup payload.builtins # {}
                          => sent = Choice("auto", None) \/ SearchForbidden
             Given == sent.type \in {"function", "flat"} /\ sent.name \in req.tools
                        => sent.name \in payload.functions \/ ForcesBridged(sent)
             Fits == mode = "chat_completions" /\ payload.functions = {} => sent = Unset
  <2>1. choice = DefaultChoice(req)
    BY DEF StepInv
  <2>2. ASSUME req.tool_choice = Unset, req.tools # {} \/ req.builtins \ {"empty_code_interpreter"} # {}
        PROVE  choice = Choice("auto", None)
    BY <2>1, <2>2 DEF DefaultChoice
  <2>3. CASE mode = "chat_completions"
    <3>1. /\ payload.functions = req.tools /\ payload.builtins = {}
          /\ req.tools = {} => sent = Unset
          /\ req.tools # {} => sent = choice
      BY <2>3 DEF StepInv, NativePayload
    <3>2. payload.functions \cup payload.builtins # {} => req.tools # {}
      BY <3>1
    <3>3. Offered
      BY <2>2, <3>1, <3>2, Zenon
    <3>4. Given /\ Fits
      BY <3>1
    <3>5. QED
      BY <3>3, <3>4 DEF ChoiceMatchesTools
  <2>4. CASE mode = "responses"
    <3>1. payload = ResponsesPayload(req, choice)
      BY <2>4 DEF StepInv
    <3>2. choice = Choice("auto", None) => sent = Choice("auto", None)
      BY <3>1 DEF ResponsesPayload, NormalizeToolChoice, Choice
    <3>3. ASSUME req.tools = {} /\ req.builtins \subseteq {"empty_code_interpreter"}
          PROVE  Offered
      <4>1. payload.functions \cup payload.builtins # {} => "web_search" \in req.searched
        BY <3>1, <3>3 DEF ResponsesPayload, CustomTools, BuiltinConfig, BuiltinTools
      <4>2. QED
        BY <2>4, <3>3, <4>1 DEF SearchForbidden
    <3>4. Offered
      <4>1. \/ req.tools = {} /\ req.builtins \subseteq {"empty_code_interpreter"}
            \/ req.tools # {} \/ req.builtins \ {"empty_code_interpreter"} # {}
        OBVIOUS
      <4>2. QED
        BY <2>2, <3>2, <3>3, <4>1, Zenon
    <3>5. Given
      BY <2>4, <3>1 DEF ResponsesPayload, CustomTools, ForcesBridged
    <3>6. QED
      BY <2>4, <3>4, <3>5 DEF ChoiceMatchesTools
  <2>5. QED
    BY <2>3, <2>4 DEF StepInv
<1>2. QED
  BY <1>1, Steps, PTL
=============================================================================
