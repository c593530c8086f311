--------------------------- MODULE MCTranslation ---------------------------
(* Families of small requests for Translation: parameters, tools, messages. *)
EXTENDS Translation, TLC

CONSTANTS f, search, files

MCBridgedTo == (f :> None) @@ (search :> "web_search") @@ (files :> "file_search")

Text == [type |-> "text", odd |-> FALSE]

Msg(role, parts, fields) == [role |-> role, parts |-> parts, fields |-> fields]

Plain == [mode |-> "auto", params |-> {}, unknown |-> {}, limit |-> None, old_limit |-> None,
          stream |-> FALSE, stream_options |-> {}, tools |-> {}, tool_choice |-> Unset,
          extended |-> FALSE, builtins |-> {}, items |-> FALSE, searched |-> {},
          messages |-> <<Msg("user", <<Text>>, {})>>]

AllModes == Modes \cup {"auto"}

\* Parameters: those with a special treatment and one that is passed on.
ParamRequests ==
  {[Plain EXCEPT !.mode = m, !.params = p, !.limit = l, !.stream = s, !.stream_options = o,
                 !.tools = t] :
     m \in AllModes,
     p \in SUBSET {"n", "user", "reasoning_effort", "response_format", "verbosity"},
     l \in {None, 1}, s \in BOOLEAN, o \in SUBSET StreamOptions, t \in {{}, {f}}}

\* The two output limits.
LimitRequests ==
  {[Plain EXCEPT !.mode = m, !.limit = l, !.old_limit = o] :
     m \in AllModes, l \in {None, 0, 1}, o \in {None, 0, 2}}

\* Fields the gateway does not know, in one or two places of a request that has
\* those places, and other parameters it cannot translate.
UnknownRequests ==
  {[Plain EXCEPT
      !.mode = m, !.unknown = u, !.stream = TRUE, !.params = p,
      !.extended = b \/ "x_builtin_tools" \in u,
      !.tools = IF u \cap {"tool", "function", "tool_choice"} # {} THEN {f} ELSE {},
      !.tool_choice = IF "tool_choice" \in u THEN Choice("function", f) ELSE Unset,
      !.messages = IF u \cap {"tool_call", "tool_call.function"} # {}
                   THEN <<Msg("assistant", <<>>, {"tool_calls"})>> ELSE @] :
     m \in AllModes, u \in {{a, b} : a \in Places, b \in Places}, b \in BOOLEAN,
     p \in {{}, {"stop"}, {"empty_response_format"}}}

\* Tools of all kinds and the choice among them.
ToolRequests(choices, searches) ==
  {[Plain EXCEPT !.mode = m, !.tools = t, !.tool_choice = c, !.extended = b # {}, !.builtins = b,
                 !.items = i, !.searched = s, !.params = p] :
     m \in AllModes, t \in SUBSET Functions, c \in choices,
     b \in {{}, {"web_search"}, {"empty_file_search"}, {"empty_code_interpreter"},
           {"file_search", "code_interpreter"}},
     i \in BOOLEAN, s \in searches, p \in {{}, {"reasoning_effort"}}}

Named == {Choice("function", f), Choice("function", search)}

\* Messages: one or two parts and up to two optional fields.
PartLists == {<<>>} \cup {<<p>> : p \in {q \in Parts : q.odd => q.type \in {"image_url", "refusal",
                                                                     "input_file"}}}
               \cup {<<Text, [type |-> t, odd |-> FALSE]>> : t \in {"image_url", "refusal", "input_audio"}}

MessageRequests(role, parts) ==
  {[Plain EXCEPT !.mode = m, !.messages = <<Msg(role, p, {x, y}), Plain.messages[1]>>] :
     m \in AllModes, p \in parts, x \in Fields, y \in Fields}
    \cup {[Plain EXCEPT !.mode = m, !.messages = <<Plain.messages[1], Msg(role, p, {})>>] :
            m \in AllModes, p \in parts}

MCRequests ==
  UNION {ParamRequests, LimitRequests,
         UnknownRequests,
         ToolRequests({Unset, Choice("none", None), Choice("required", None)} \cup Named,
                      {{}, {"web_search"}}),
         UNION {MessageRequests(role, PartLists) : role \in {"user", "function", "tool", "assistant"}}}
=============================================================================
