----------------------------- MODULE MCGateway -----------------------------
(***************************************************************************)
(* Instances of GatewayRuntime for TLC.  Requests are interchangeable, so  *)
(* the safety runs use symmetry; the liveness runs do not, because TLC's   *)
(* symmetry reduction is unsound for liveness.                             *)
(***************************************************************************)
EXTENDS GatewayRuntime, TLC

RequestSymmetry == Permutations(Requests)
=============================================================================
