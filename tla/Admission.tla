----------------------------- MODULE Admission -----------------------------
(***************************************************************************)
(* What the gateway's admission control promises, whatever becomes of a    *)
(* request once it is inside: at most Capacity requests are inside, a      *)
(* request is refused for want of room only when there is none, a request  *)
(* is let in at most once, and every request let in comes out.             *)
(* GatewayRuntime is shown to implement this specification.                *)
(***************************************************************************)
EXTENDS Naturals, FiniteSets

CONSTANTS Requests,   \* the requests the server ever receives
          Capacity    \* GATEWAY_MAX_INFLIGHT_REQUESTS

VARIABLE phase        \* phase[r]: where request r is, seen from outside

Phases == {"waiting", "inside", "refused", "out"}

Inside == {r \in Requests : phase[r] = "inside"}

Room == Cardinality(Inside) < Capacity

Init == phase = [r \in Requests |-> "waiting"]

Enter(r) == /\ phase[r] = "waiting"
            /\ Room
            /\ phase' = [phase EXCEPT ![r] = "inside"]

\* 503 gateway_busy, with Retry-After.
Refuse(r) == /\ phase[r] = "waiting"
             /\ ~Room
             /\ phase' = [phase EXCEPT ![r] = "refused"]

\* There was room, but the request itself is not acceptable.
TurnAway(r) == /\ phase[r] = "waiting"
               /\ Room
               /\ phase' = [phase EXCEPT ![r] = "out"]

Leave(r) == /\ phase[r] = "inside"
            /\ phase' = [phase EXCEPT ![r] = "out"]

Next == \E r \in Requests : Enter(r) \/ Refuse(r) \/ TurnAway(r) \/ Leave(r)

SafeSpec == Init /\ [][Next]_phase

Fairness == \A r \in Requests : WF_phase(Leave(r))

Spec == SafeSpec /\ Fairness
=============================================================================
