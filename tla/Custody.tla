------------------------------- MODULE Custody -------------------------------
(***************************************************************************)
(* Who owes what, for each request that is let in: its slot has to be      *)
(* given back and its upstream stream has to be closed, and at any time    *)
(* one party owes each of the two.  At first it is the server's task; a    *)
(* body dropped inside send() passes both on to the event loop's           *)
(* finalizer, and they stay together: nobody gives a slot back who still   *)
(* has a stream to close.  The ways in which this goes wrong are named:    *)
(* a stream that is given up, so that nobody in the request's code will    *)
(* close it, and a slot that is lost with the close that the finalizer     *)
(* could not finish.                                                       *)
(*                                                                         *)
(* GatewayRuntime, which has the code that runs, and ServiceLifecycle,     *)
(* which sees a request from outside, are both shown to implement this     *)
(* specification: it is what the second takes from the first.              *)
(***************************************************************************)
CONSTANT Requests

VARIABLES slot,    \* slot[r]: who will give back r's slot; "free" if r has none
          stream   \* stream[r]: who will close r's upstream stream, if it is open

vars == <<slot, stream>>

TypeOK == /\ slot \in [Requests -> {"free", "task", "finalizer", "lost"}]
          /\ stream \in [Requests -> {"none", "task", "finalizer", "nobody"}]

Init == /\ slot = [r \in Requests |-> "free"]
        /\ stream = [r \in Requests |-> "none"]

Slot(r, who) == slot' = [slot EXCEPT ![r] = who]

Stream(r, who) == stream' = [stream EXCEPT ![r] = who]

\* The handler takes a slot, and asks for a stream at once or later.
Enter(r) == /\ slot[r] = "free" /\ stream[r] = "none"
            /\ Slot(r, "task")
            /\ stream' = stream \/ Stream(r, "task")

Open(r) == /\ slot[r] = "task" /\ stream[r] = "none"
           /\ Stream(r, "task")
           /\ UNCHANGED slot

\* The task is done with the stream, and has frames to send yet.  A close that
\* raises or is cut short is not tried again.
Close(r) == /\ slot[r] = "task" /\ stream[r] = "task"
            /\ Stream(r, "none") \/ Stream(r, "nobody")
            /\ UNCHANGED slot

\* The task gives the slot back, after the stream or together with it.
Leave(r) == /\ slot[r] = "task"
            /\ Slot(r, "free")
            /\ IF stream[r] = "task" THEN Stream(r, "none") \/ Stream(r, "nobody")
                                     ELSE UNCHANGED stream

\* The task is killed inside send(): what it owed, the finalizer owes.
Drop(r) == /\ slot[r] = "task"
           /\ Slot(r, "finalizer")
           /\ IF stream[r] = "task" THEN Stream(r, "finalizer") ELSE UNCHANGED stream

Finalize(r) == /\ slot[r] = "finalizer"
               /\ Slot(r, "free")
               /\ IF stream[r] = "finalizer" THEN Stream(r, "none") ELSE UNCHANGED stream

\* The finalizer's close raises.
Lose(r) == /\ slot[r] = "finalizer" /\ stream[r] = "finalizer"
           /\ Slot(r, "lost")
           /\ Stream(r, "none") \/ Stream(r, "nobody")

\* The client is closed, and with it streams that no task uses.
CloseClient(of) == /\ \A r \in of : slot[r] # "task"
                   /\ stream' = [r \in Requests |-> IF r \in of THEN "none" ELSE stream[r]]
                   /\ UNCHANGED slot

Next == \/ \E r \in Requests : \/ Enter(r) \/ Open(r) \/ Close(r) \/ Leave(r)
                               \/ Drop(r) \/ Finalize(r) \/ Lose(r)
        \/ \E of \in SUBSET Requests : CloseClient(of)

Spec == Init /\ [][Next]_vars
=============================================================================
