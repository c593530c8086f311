-------------------------- MODULE MCConversation ---------------------------
(***************************************************************************)
(* Instance of Conversation for TLC: two custom calls, a web search with a *)
(* query and a file search without one.                                    *)
(***************************************************************************)
EXTENDS Conversation

CONSTANTS c1, c2, web, file

MCToolOf == [c \in {c1, c2, web, file} |->
               CASE c = web -> "web_search" [] c = file -> "file_search" [] OTHER -> "custom"]

\* Text, a call, parallel calls, with and without hidden items around them.
MCAnswers ==
  {<<Item("reasoning"), Item("message")>>, <<Item("builtin"), Item("message")>>}
    \cup {<<Item("reasoning"), CallItem(c)>> : c \in {c1, c2}}
    \cup {<<Item("message"), CallItem(p[1]), Item("reasoning"), CallItem(p[2])>> :
            p \in {<<c1, c2>>, <<c2, c1>>}}

Request(mode, tools, builtins, effort) ==
  [mode |-> mode, tools |-> tools, extended |-> builtins # {}, builtins |-> builtins,
   effort |-> effort, nativeOnly |-> FALSE]

\* Each way to a route, each way to have tools.
MCRequests ==
  {Request("auto", {"custom"}, {}, effort) : effort \in BOOLEAN}
    \cup {Request("auto", {"custom", "web_search"}, {}, FALSE),
          Request("auto", {}, {"web_search"}, FALSE),
          Request("chat_completions", Tools, {}, FALSE),
          Request("responses", {"custom"}, {}, FALSE),
          Request("responses", {"file_search"}, {}, FALSE)}
    \cup {[Request("auto", {"custom"}, {}, TRUE) EXCEPT !.nativeOnly = TRUE],
          [Request("auto", {"custom"}, {}, FALSE) EXCEPT !.extended = TRUE]}
=============================================================================
