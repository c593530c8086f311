--------------------------- MODULE MCStreamMapper ---------------------------
(***************************************************************************)
(* Instance of StreamMapper for TLC: two parallel calls, a message and a   *)
(* web search.  Calls are interchangeable.  Reasoning items, which the     *)
(* mapper only keeps for the final chunk, add states but no behaviour that *)
(* a message without deltas does not have.                                 *)
(***************************************************************************)
EXTENDS StreamMapper, TLC

CallSymmetry == Permutations(Calls)
=============================================================================
