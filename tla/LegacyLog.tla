----------------------------- MODULE LegacyLog -----------------------------
(***************************************************************************)
(* to_legacy_log_steps (app/mappers/legacy_log_mapper.py): the output      *)
(* items of an answer as the steps of an old-style transcript, which       *)
(* clients show to users.  Function calls wait for the next message, which *)
(* is shown with them; a built-in tool call is shown at once, as a call    *)
(* and its result.  Texts, queries, results, citations and the names of    *)
(* tools are left out.                                                     *)
(*                                                                         *)
(* An operator whose name ends in _Bug is a wrong version of the           *)
(* definition after it, used only to see that a property notices.          *)
(***************************************************************************)
EXTENDS Naturals, Sequences

CONSTANTS Calls,     \* function_call items, named by their call ids
          Messages,  \* message items: text or refusal
          Builtins   \* calls of web search, file search and code interpreter

\* An output item has one type.
ASSUME KindsAssumption ==
  Calls \cap Messages = {} /\ Calls \cap Builtins = {} /\ Messages \cap Builtins = {}

LegacyStep(role, item, calls) == [role |-> role, item |-> item, calls |-> calls]

\* The steps so far, and the function calls that no step shows yet
\* (pending_tool_calls).  Here a built-in call takes the pending ones with it.
AddItem_Bug(log, item) ==
  CASE item \in Calls    -> [log EXCEPT !.pending = Append(@, item)]
    [] item \in Messages -> [steps   |-> Append(log.steps, LegacyStep("assistant", item, log.pending)),
                             pending |-> <<>>]
    [] item \in Builtins -> [steps   |-> log.steps \o <<LegacyStep("assistant", item, <<item>>),
                                                        LegacyStep("tool", item, <<>>)>>,
                             pending |-> <<>>]
    [] OTHER             -> log

AddItem(log, item) ==
  CASE item \in Calls    -> [log EXCEPT !.pending = Append(@, item)]
    [] item \in Messages -> [steps   |-> Append(log.steps, LegacyStep("assistant", item, log.pending)),
                             pending |-> <<>>]
    [] item \in Builtins -> [log EXCEPT !.steps = @ \o <<LegacyStep("assistant", item, <<item>>),
                                                        LegacyStep("tool", item, <<>>)>>]
    [] OTHER             -> log

LegacySteps(items) ==
  LET log[n \in 0..Len(items)] == IF n = 0 THEN [steps |-> <<>>, pending |-> <<>>]
                                  ELSE AddItem(log[n - 1], items[n])
  IN  log[Len(items)].steps

-----------------------------------------------------------------------------

Position(items, i) == CHOOSE n \in DOMAIN items : items[n] = i

\* The calls a message is shown with: those between the message before it and it.
CallsBefore(items, m) ==
  LET n == Position(items, m)
  IN  {items[k] : k \in {k \in 1..n-1 : /\ items[k] \in Calls
                                        /\ \A l \in k..n-1 : items[l] \notin Messages}}

\* What the steps show of the items (each of which is there once): every
\* message and every built-in call once, in order, the call directly followed
\* by its result; and every function call that a message follows once, in the
\* first message after it.
ShownIn(steps, items) ==
  LET Shows(i) == {n \in DOMAIN steps : steps[n].item = i}
  IN  /\ \A n \in DOMAIN items : items[n] \in Messages =>
           \E k \in DOMAIN steps :
             /\ Shows(items[n]) = {k}
             /\ {steps[k].calls[l] : l \in DOMAIN steps[k].calls} = CallsBefore(items, items[n])
             /\ \A l, o \in DOMAIN steps[k].calls : l < o =>
                  Position(items, steps[k].calls[l]) < Position(items, steps[k].calls[o])
      /\ \A n \in DOMAIN items : items[n] \in Builtins =>
           \E k \in DOMAIN steps :
             /\ Shows(items[n]) = {k, k + 1}
             /\ steps[k].role = "assistant" /\ steps[k].calls = <<items[n]>>
             /\ steps[k + 1].role = "tool"
      /\ \A k, l \in DOMAIN steps : k < l =>
           Position(items, steps[k].item) <= Position(items, steps[l].item)
=============================================================================
