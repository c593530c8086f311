----------------------- MODULE ServiceLifecycle_proofs -----------------------
(***************************************************************************)
(* Proofs about ServiceLifecycle, for any number of requests, clients,     *)
(* slots and connections.                                                  *)
(***************************************************************************)
EXTENDS ServiceLifecycle, FiniteSetTheorems, TLAPS

\* The two globals agree, and name a client that is open; there is no service and
\* no request while the server is closing it or stopped.
Recorded ==
  /\ service = openaiClient
  /\ service # None => clients[service] = "open"
  /\ server \in {"closing", "stopped"} => service = None /\ Busy = {}
  /\ \A c \in Clients : clients[c] = "closing" => server = "closing"

\* A request that is handled uses the service there is now.
UsesCurrent == \A r \in Served : svc[r] = service

\* A connection belongs to a request that had come to use it, and to a client
\* that is not closed; while it is in use the request has not given up its slot.
HeldInPool ==
  \A r \in Requests :
    /\ connection[r] # "none" => /\ pc[r] \in {"upstream", "orphaned", "leaked", "done"}
                                 /\ svc[r] \in Clients
                                 /\ clients[svc[r]] \in {"open", "closing"}
    /\ connection[r] = "used" => pc[r] \in {"upstream", "orphaned"}

Inv == TypeOK /\ OneClient /\ Recorded /\ UsesCurrent /\ HeldInPool

LEMMA InitInv == Init => Inv
<1> SUFFICES ASSUME Init PROVE Inv
  OBVIOUS
<1> QED
  BY NoneAssumption DEF Init, Inv, TypeOK, OneClient, Recorded, UsesCurrent, HeldInPool, Busy, Served

LEMMA ArriveInv ==
  ASSUME Inv, NEW r \in Requests, NEW c \in Clients, Arrive(r, c)
  PROVE  Inv'
<1> USE DEF Inv
<1> DEFINE InService == service' = c /\ openaiClient' = c /\ clients'[c] = "open"
<1>1. /\ clients' \in [Clients -> {"none", "open", "closing", "closed"}]
      /\ InService
      /\ \A d \in Clients : d # c => clients'[d] = clients[d]
      /\ clients[c] \in {"none", "open"}
  BY NoneAssumption DEF Arrive, GetService, TypeOK, Recorded
<1>2. \A q \in Requests : q # r => pc'[q] = pc[q] /\ svc'[q] = svc[q]
  BY DEF Arrive, TypeOK
<1>3. pc'[r] = "checking" /\ svc'[r] = c /\ connection[r] = "none"
  BY DEF Arrive, TypeOK, HeldInPool
<1>4. TypeOK'
  BY <1>1, <1>2, <1>3 DEF Arrive, TypeOK, Busy, Served
<1>5. OneClient'
  BY <1>1, NoneAssumption DEF OneClient, Arrive, GetService
<1>6. Recorded'
  <2>1. server \notin {"closing", "stopped"} /\ server' = server
    BY DEF Arrive, Recorded, Busy
  <2> QED
    BY <1>1, <2>1, NoneAssumption DEF Recorded, TypeOK
<1>7. UsesCurrent'
  <2> SUFFICES ASSUME NEW q \in Requests, q # r, q \in Served' PROVE svc'[q] = c
    BY <1>1, <1>3 DEF UsesCurrent, Busy, Served
  <2>1. q \in Served /\ svc[q] = service /\ service \in Clients
    BY <1>2 DEF Served, UsesCurrent, TypeOK
  <2> QED
    BY <2>1, <1>1, <1>2, NoneAssumption DEF Arrive, GetService
<1>8. HeldInPool'
  <2> SUFFICES ASSUME NEW q \in Requests, connection'[q] # "none"
               PROVE /\ pc'[q] \in {"upstream", "orphaned", "leaked", "done"}
                     /\ svc'[q] \in Clients
                     /\ clients'[svc'[q]] \in {"open", "closing"}
                     /\ connection'[q] = "used" => pc'[q] \in {"upstream", "orphaned"}
    BY DEF HeldInPool
  <2>1. connection[q] # "none" /\ connection'[q] = connection[q] /\ q # r
    BY <1>3 DEF Arrive
  <2> QED
    BY <2>1, <1>1, <1>2 DEF HeldInPool
<1> QED
  BY <1>4, <1>5, <1>6, <1>7, <1>8

LEMMA AcceptInv ==
  ASSUME Inv, NEW r \in Requests, Accept(r)
  PROVE  Inv'
<1>1. /\ pc' = [pc EXCEPT ![r] = "received"] /\ pc[r] = "idle" /\ server = "running"
      /\ UNCHANGED <<server, service, openaiClient, clients, svc, connection>>
  BY DEF Accept, lifeVars
<1>2. Served' \subseteq Served
  BY <1>1 DEF Served, Inv, TypeOK
<1>3. TypeOK' /\ UsesCurrent'
  BY <1>1, <1>2 DEF Inv, TypeOK, UsesCurrent
<1>4. OneClient' /\ Recorded' /\ HeldInPool'
  BY <1>1 DEF Inv, TypeOK, OneClient, Recorded, HeldInPool
<1> QED
  BY <1>3, <1>4 DEF Inv

\* Every step of a request that is already there leaves the client alone.
RequestStep(r) == \/ BodyFails(r) \/ ArriveFails(r) \/ TurnAway(r) \/ Enter(r)
                  \/ GetsConnection(r) \/ GivesUp(r) \/ ClosesStream(r) \/ GivesUpStream(r) \/ Ends(r)
                  \/ Dropped(r) \/ Finalized(r) \/ FinalizerRaises(r)

LEMMA RequestStepInv ==
  ASSUME Inv, NEW r \in Requests, RequestStep(r)
  PROVE  Inv'
<1> USE DEF Inv
<1>1. UNCHANGED <<lifeVars, svc>>
  BY DEF RequestStep, BodyFails, ArriveFails, TurnAway, Enter, GetsConnection, GivesUp,
         ClosesStream, GivesUpStream, Ends, Freed, Dropped, Finalized, FinalizerRaises
<1>2. /\ pc' \in [Requests -> {"idle", "received", "checking", "waiting", "upstream", "orphaned", "leaked", "done"}]
      /\ connection' \in [Requests -> {"none", "used", "left"}]
      /\ \A q \in Requests : q # r => pc'[q] = pc[q] /\ connection'[q] = connection[q]
  BY DEF RequestStep, BodyFails, ArriveFails, TurnAway, Enter, GetsConnection, GivesUp,
         ClosesStream, GivesUpStream, Ends, Freed, Dropped, Finalized, FinalizerRaises, TypeOK
<1>3. (r \in Busy' => r \in Busy) /\ (r \in Served' => r \in Served)
  BY DEF RequestStep, BodyFails, ArriveFails, TurnAway, Enter, GetsConnection, GivesUp,
         ClosesStream, GivesUpStream, Ends, Freed, Dropped, Finalized, FinalizerRaises,
         TypeOK, Busy, Served
<1>4. /\ connection'[r] # "none" => r \in Served \/ connection[r] # "none"
      /\ connection'[r] # "none" => pc'[r] \in {"upstream", "orphaned", "leaked", "done"}
      /\ connection'[r] = "used" => pc'[r] \in {"upstream", "orphaned"}
  BY DEF RequestStep, BodyFails, ArriveFails, TurnAway, Enter, GetsConnection, GivesUp,
         ClosesStream, GivesUpStream, Ends, Freed, Dropped, Finalized, FinalizerRaises,
         TypeOK, Busy, Served, HeldInPool
<1>5. Busy' \subseteq Busy /\ Served' \subseteq Served
  BY <1>2, <1>3 DEF Busy, Served
<1>6. TypeOK' /\ UsesCurrent'
  BY <1>1, <1>2, <1>5 DEF TypeOK, lifeVars, UsesCurrent
<1>7. OneClient' /\ Recorded'
  BY <1>1, <1>5 DEF OneClient, Recorded, lifeVars
<1>8. HeldInPool'
  <2>1. \A q \in Served : svc[q] \in Clients /\ clients[svc[q]] = "open"
    BY NoneAssumption DEF UsesCurrent, Recorded, TypeOK, Busy, Served
  <2>2. svc' = svc /\ clients' = clients
    BY <1>1 DEF lifeVars
  <2>3. ASSUME NEW q \in Requests, connection'[q] # "none"
        PROVE  svc[q] \in Clients /\ clients[svc[q]] \in {"open", "closing"}
    <3>1. q \in Served \/ connection[q] # "none"
      BY <1>2, <1>4, <2>3
    <3>2. QED
      BY <2>1, <3>1 DEF HeldInPool
  <2>4. \A q \in Requests : connection'[q] = "used" => pc'[q] \in {"upstream", "orphaned"}
    BY <1>2, <1>4 DEF HeldInPool
  <2>5. ASSUME NEW q \in Requests, connection'[q] # "none"
        PROVE  pc'[q] \in {"upstream", "orphaned", "leaked", "done"}
    <3>1. CASE q = r
      BY <1>4, <2>5, <3>1
    <3>2. CASE q # r
      <4>1. pc'[q] = pc[q] /\ connection[q] # "none"
        BY <1>2, <2>5, <3>2
      <4> QED
        BY <4>1 DEF HeldInPool
    <3> QED
      BY <3>1, <3>2
  <2> QED
    BY <2>2, <2>3, <2>4, <2>5 DEF HeldInPool
<1> QED
  BY <1>6, <1>7, <1>8

LEMMA ServerInv ==
  ASSUME Inv, Signal \/ SecondSignal \/ CloseService \/ ClientClosed \/ RunAgain
  PROVE  Inv'
<1> USE DEF Inv
<1>1. CASE Signal \/ SecondSignal \/ RunAgain
  BY <1>1 DEF Signal, SecondSignal, RunAgain, requestVars, TypeOK, OneClient, Recorded,
              UsesCurrent, HeldInPool, Busy, Served
<1>2. CASE CloseService
  <2>1. Busy = {} /\ Busy' = {} /\ Served' = {}
    BY <1>2 DEF CloseService, Busy, Served, requestVars
  <2>2. TypeOK' /\ UsesCurrent'
    BY <1>2, <2>1 DEF CloseService, TypeOK, UsesCurrent, requestVars
  <2>3. OneClient' /\ Recorded'
    BY <1>2, <2>1, NoneAssumption DEF CloseService, TypeOK, OneClient, Recorded
  <2>4. HeldInPool'
    BY <1>2 DEF CloseService, TypeOK, OneClient, Recorded, HeldInPool, requestVars
  <2> QED
    BY <2>2, <2>3, <2>4
<1>3. CASE ClientClosed
  <2>1. Busy = {} /\ Busy' = {} /\ Served' = {}
    BY <1>3 DEF ClientClosed, Recorded, Busy, Served
  <2>2. TypeOK' /\ UsesCurrent'
    BY <1>3, <2>1 DEF ClientClosed, TypeOK, UsesCurrent
  <2>3. OneClient' /\ Recorded'
    BY <1>3, <2>1, NoneAssumption DEF ClientClosed, TypeOK, OneClient, Recorded
  <2>4. HeldInPool'
    BY <1>3, NoneAssumption DEF ClientClosed, TypeOK, OneClient, Recorded, HeldInPool
  <2> QED
    BY <2>2, <2>3, <2>4
<1> QED
  BY <1>1, <1>2, <1>3

\* Inv holds in every reachable state.
THEOREM Invariance == Spec => []Inv
<1>1. Inv /\ [Next]_vars => Inv'
  <2> SUFFICES ASSUME Inv, [Next]_vars PROVE Inv'
    OBVIOUS
  <2>1. ASSUME NEW r \in Requests, NEW c \in Clients, Arrive(r, c) PROVE Inv'
    BY <2>1, ArriveInv
  <2>2. ASSUME NEW r \in Requests, Accept(r) \/ RequestStep(r) PROVE Inv'
    BY <2>2, AcceptInv, RequestStepInv
  <2>3. CASE UNCHANGED vars
    BY <2>3 DEF vars, Inv, TypeOK, OneClient, Recorded, UsesCurrent, HeldInPool, Busy, Served
  <2> QED
    BY <2>1, <2>2, <2>3, ServerInv DEF Next, RequestStep
<1> QED
  BY InitInv, <1>1, PTL DEF Spec

\* Variables have their types, and no request is handled without a service.
THEOREM TypeCorrect == Spec => []TypeOK
BY Invariance, PTL DEF Inv

\* get_service and close_service never leave a client with connections that the
\* globals do not name, over any number of runs of the lifespan.
THEOREM SingleClient == Spec => []OneClient
BY Invariance, PTL DEF Inv

\* close_service never closes the client under a request.
THEOREM NeverClosedUnderRequest == Spec => []NoUseAfterClose
<1>1. Inv => NoUseAfterClose
  BY NoneAssumption DEF Inv, NoUseAfterClose, UsesCurrent, Recorded, TypeOK, Busy, Served
<1> QED
  BY Invariance, <1>1, PTL

\* After the lifespan no client is open and no stream holds a connection, those
\* included whose request ended without closing them.
THEOREM ClosesEverything == Spec => []NothingLeftOpen
<1>1. Inv => NothingLeftOpen
  BY NoneAssumption DEF Inv, NothingLeftOpen, OneClient, Recorded, HeldInPool, TypeOK
<1> QED
  BY Invariance, <1>1, PTL

-----------------------------------------------------------------------------
(* The slots limit the connections *)

FiniteInside == IsFiniteSet(Inside)

THEOREM FinitelyMany == Spec => []FiniteInside
<1>1. Init => FiniteInside
  <2> SUFFICES ASSUME Init PROVE Inside = {}
    BY FS_EmptySet DEF FiniteInside
  <2> QED
    BY DEF Init, Inside
<1>2. FiniteInside /\ TypeOK /\ [Next]_vars => FiniteInside'
  <2> SUFFICES ASSUME FiniteInside, TypeOK, [Next]_vars PROVE IsFiniteSet(Inside')
    BY DEF FiniteInside
  <2>1. ASSUME NEW r \in Requests, \A q \in Requests : q # r => pc'[q] = pc[q]
        PROVE  IsFiniteSet(Inside')
    <3>1. Inside' \subseteq Inside \cup {r}
      BY <2>1 DEF Inside
    <3> QED
      BY <3>1, FS_Subset, FS_AddElement DEF FiniteInside
  <2>2. ASSUME NEW r \in Requests, NEW c \in Clients, Arrive(r, c)
        PROVE  IsFiniteSet(Inside')
    BY <2>1, <2>2 DEF Arrive, TypeOK
  <2>3. ASSUME NEW r \in Requests, Accept(r) \/ RequestStep(r)
        PROVE  IsFiniteSet(Inside')
    <3>1. \A q \in Requests : q # r => pc'[q] = pc[q]
      BY <2>3 DEF Accept, RequestStep, BodyFails, ArriveFails, TurnAway, Enter, GetsConnection, GivesUp,
             ClosesStream, GivesUpStream, Ends, Freed, Dropped, Finalized, FinalizerRaises, TypeOK
    <3> QED
      BY <3>1, <2>1
  <2>4. CASE pc' = pc
    <3>1. Inside' = Inside
      BY <2>4 DEF Inside
    <3> QED
      BY <3>1 DEF FiniteInside
  <2> QED
    BY <2>2, <2>3, <2>4 DEF Next, RequestStep, Signal, SecondSignal, CloseService,
       ClientClosed, RunAgain, requestVars, vars
<1> QED
  BY <1>1, <1>2, TypeCorrect, PTL DEF Spec

\* With as many connections as slots, a request waits for a connection only if
\* some earlier stream was left open.
THEOREM SlotsAreTheLimit == Spec => SlotsLimitConnections
<1> DEFINE Step ==
      \A r \in Requests : pc'[r] = "waiting" /\ pc[r] # "waiting"
                            => LeftOpen # {} \/ MaxConnections < Capacity
<1>1. Inv /\ FiniteInside /\ [Next]_vars => [Step]_vars
  <2> SUFFICES ASSUME Inv, FiniteInside, Next, NEW r \in Requests,
                      pc'[r] = "waiting", pc[r] # "waiting",
                      LeftOpen = {}, MaxConnections >= Capacity
               PROVE  FALSE
    BY SettingsAssumption
  <2>1. HasRoom /\ ~PoolHasRoom(svc[r])
    BY DEF Next, Accept, BodyFails, Arrive, ArriveFails, TurnAway, Enter, GetsConnection, GivesUp,
           ClosesStream, GivesUpStream, Ends, Freed, Dropped, Finalized, FinalizerRaises,
           Signal, SecondSignal, CloseService, ClientClosed, RunAgain, requestVars, Inv, TypeOK
  <2>2. InUse(svc[r]) \subseteq Inside
    BY DEF InUse, Inside, LeftOpen, Inv, HeldInPool, TypeOK
  <2>3. /\ Cardinality(InUse(svc[r])) <= Cardinality(Inside)
        /\ Cardinality(InUse(svc[r])) \in Nat /\ Cardinality(Inside) \in Nat
    BY <2>2, FS_Subset, FS_CardinalityType DEF FiniteInside
  <2> QED
    BY <2>1, <2>3, SettingsAssumption DEF HasRoom, PoolHasRoom
<1> QED
  BY Invariance, FinitelyMany, <1>1, PTL DEF Spec, SlotsLimitConnections

-----------------------------------------------------------------------------
(* ServiceLifecycle implements Custody *)

\* A step of one request changes what is owed for that request only.
LEMMA OwedForOne ==
  ASSUME NEW r \in Requests,
         \A q \in Requests : q # r => pc'[q] = pc[q] /\ connection'[q] = connection[q]
  PROVE  /\ slotBar' = [slotBar EXCEPT ![r] = slotBar'[r]]
         /\ streamBar' = [streamBar EXCEPT ![r] = streamBar'[r]]
<1>1. \A q \in Requests : q # r => slotBar'[q] = slotBar[q] /\ streamBar'[q] = streamBar[q]
  BY DEF slotBar, streamBar
<1>2. /\ DOMAIN slotBar = Requests /\ DOMAIN slotBar' = Requests
      /\ slotBar = [q \in Requests |-> slotBar[q]] /\ slotBar' = [q \in Requests |-> slotBar'[q]]
  BY DEF slotBar
<1>3. /\ DOMAIN streamBar = Requests /\ DOMAIN streamBar' = Requests
      /\ streamBar = [q \in Requests |-> streamBar[q]]
      /\ streamBar' = [q \in Requests |-> streamBar'[q]]
  BY DEF streamBar
<1> QED
  BY <1>1, <1>2, <1>3

LEMMA SameSlot ==
  ASSUME NEW r \in Requests, slotBar' = [slotBar EXCEPT ![r] = slotBar[r]]
  PROVE  slotBar' = slotBar
BY DEF slotBar

LEMMA SameStream ==
  ASSUME NEW r \in Requests, streamBar' = [streamBar EXCEPT ![r] = streamBar[r]]
  PROVE  streamBar' = streamBar
BY DEF streamBar

LEMMA CustodyStep == Inv /\ Inv' /\ [Next]_vars => [C!Next]_(C!vars)
<1> SUFFICES ASSUME Inv, Inv', [Next]_vars
             PROVE  C!Next \/ UNCHANGED <<slotBar, streamBar>>
  BY DEF C!vars
<1>0. TypeOK /\ TypeOK' /\ HeldInPool /\ HeldInPool'
  BY DEF Inv
<1>1. ASSUME UNCHANGED <<pc, connection>> PROVE UNCHANGED <<slotBar, streamBar>>
  BY <1>1 DEF slotBar, streamBar
<1>2. ASSUME NEW r \in Requests, Accept(r) \/ \E c \in Clients : Arrive(r, c)
      PROVE  UNCHANGED <<slotBar, streamBar>>
  <2>1. /\ pc[r] \in {"idle", "received"} /\ pc'[r] \in {"received", "checking"}
        /\ connection' = connection
        /\ \A q \in Requests : q # r => pc'[q] = pc[q]
    BY <1>0, <1>2 DEF Accept, Arrive, TypeOK
  <2>2. slotBar'[r] = slotBar[r] /\ streamBar'[r] = streamBar[r]
    BY <1>0, <2>1 DEF slotBar, streamBar, HeldInPool, TypeOK
  <2> QED
    BY <2>1, <2>2, OwedForOne DEF slotBar, streamBar
<1>3. ASSUME NEW r \in Requests, RequestStep(r)
      PROVE  C!Next \/ UNCHANGED <<slotBar, streamBar>>
  <2>1. \A q \in Requests : q # r => pc'[q] = pc[q] /\ connection'[q] = connection[q]
    BY <1>0, <1>3 DEF RequestStep, BodyFails, ArriveFails, TurnAway, Enter, GetsConnection, GivesUp,
       ClosesStream, GivesUpStream, Ends, Freed, Dropped, Finalized, FinalizerRaises, TypeOK
  <2>2. /\ slotBar' = [slotBar EXCEPT ![r] = slotBar'[r]]
        /\ streamBar' = [streamBar EXCEPT ![r] = streamBar'[r]]
    BY <2>1, OwedForOne
  <2> USE <1>0 DEF TypeOK, HeldInPool
  <2>3. CASE BodyFails(r) \/ ArriveFails(r) \/ TurnAway(r)
    <3>1. slotBar'[r] = slotBar[r] /\ streamBar'[r] = streamBar[r]
      BY <2>3 DEF BodyFails, ArriveFails, TurnAway, slotBar, streamBar
    <3> QED
      BY <2>2, <3>1, SameSlot, SameStream
  <2>4. CASE Enter(r)
    <3>1. slotBar[r] = "free" /\ streamBar[r] = "none"
      BY <2>4 DEF Enter, slotBar, streamBar
    <3>2. slotBar'[r] = "task" /\ streamBar'[r] \in {"none", "task"}
      BY <2>4 DEF Enter, slotBar, streamBar
    <3>3. streamBar'[r] = "none" => streamBar' = streamBar
      BY <2>2, <3>1, SameStream
    <3> QED
      BY <2>2, <3>1, <3>2, <3>3 DEF C!Next, C!Enter, C!Slot, C!Stream
  <2>5. CASE GetsConnection(r)
    <3>1. slotBar[r] = "task" /\ streamBar[r] = "none"
      BY <2>5 DEF GetsConnection, slotBar, streamBar
    <3>2. slotBar'[r] = "task" /\ streamBar'[r] = "task"
      BY <2>5 DEF GetsConnection, slotBar, streamBar
    <3> QED
      BY <2>2, <3>1, <3>2, SameSlot DEF C!Next, C!Open, C!Stream
  <2>6. CASE ClosesStream(r) \/ GivesUpStream(r)
    <3>1. slotBar[r] = "task" /\ streamBar[r] = "task"
      BY <2>6 DEF ClosesStream, GivesUpStream, slotBar, streamBar
    <3>2. slotBar'[r] = "task" /\ streamBar'[r] \in {"none", "nobody"}
      BY <2>6 DEF ClosesStream, GivesUpStream, slotBar, streamBar
    <3> QED
      BY <2>2, <3>1, <3>2, SameSlot DEF C!Next, C!Close, C!Stream
  <2>7. CASE GivesUp(r) \/ Ends(r)
    <3>1. slotBar[r] = "task" /\ slotBar'[r] = "free"
      BY <2>7 DEF GivesUp, Ends, slotBar
    <3>2. IF streamBar[r] = "task" THEN streamBar'[r] = "none" ELSE streamBar'[r] = streamBar[r]
      BY <2>7 DEF GivesUp, Ends, Freed, slotBar, streamBar
    <3> QED
      BY <2>2, <3>1, <3>2, SameStream DEF C!Next, C!Leave, C!Slot, C!Stream
  <2>8. CASE Dropped(r)
    <3>1. slotBar[r] = "task" /\ slotBar'[r] = "finalizer"
      BY <2>8 DEF Dropped, slotBar
    <3>2. IF streamBar[r] = "task" THEN streamBar'[r] = "finalizer"
                                   ELSE streamBar'[r] = streamBar[r]
      BY <2>8 DEF Dropped, slotBar, streamBar
    <3> QED
      BY <2>2, <3>1, <3>2, SameStream DEF C!Next, C!Drop, C!Slot, C!Stream
  <2>9. CASE Finalized(r)
    <3>1. slotBar[r] = "finalizer" /\ slotBar'[r] = "free"
      BY <2>9 DEF Finalized, slotBar
    <3>2. IF streamBar[r] = "finalizer" THEN streamBar'[r] = "none"
                                        ELSE streamBar'[r] = streamBar[r]
      BY <2>9 DEF Finalized, Freed, slotBar, streamBar
    <3> QED
      BY <2>2, <3>1, <3>2, SameStream DEF C!Next, C!Finalize, C!Slot, C!Stream
  <2>10. CASE FinalizerRaises(r)
    <3>1. /\ slotBar[r] = "finalizer" /\ slotBar'[r] = "lost"
          /\ streamBar[r] = "finalizer" /\ streamBar'[r] \in {"none", "nobody"}
      BY <2>10 DEF FinalizerRaises, slotBar, streamBar
    <3> QED
      BY <2>2, <3>1 DEF C!Next, C!Lose, C!Slot, C!Stream
  <2> QED
    BY <1>3, <2>3, <2>4, <2>5, <2>6, <2>7, <2>8, <2>9, <2>10 DEF RequestStep
<1>4. CASE CloseService \/ Signal \/ SecondSignal \/ RunAgain
  BY <1>1, <1>4 DEF CloseService, Signal, SecondSignal, RunAgain, requestVars
<1>5. CASE ClientClosed
  <2> DEFINE of == {r \in Requests : svc[r] # None /\ clients[svc[r]] = "closing"}
  <2>1. \A r \in of : slotBar[r] # "task"
    <3>1. Busy = {}
      BY <1>5 DEF Inv, ClientClosed, Recorded
    <3> QED
      BY <1>0, <3>1 DEF slotBar, Busy, Served, TypeOK
  <2>2. slotBar' = slotBar
    BY <1>5 DEF ClientClosed, slotBar
  <2>3. streamBar' = [r \in Requests |-> IF r \in of THEN "none" ELSE streamBar[r]]
    BY <1>5, <2>2 DEF ClientClosed, streamBar
  <2>4. C!CloseClient(of)
    BY <2>1, <2>2, <2>3 DEF C!CloseClient
  <2> QED
    BY <2>4 DEF C!Next
<1>6. CASE UNCHANGED vars
  BY <1>1, <1>6 DEF vars
<1> QED
  BY <1>2, <1>3, <1>4, <1>5, <1>6 DEF Next, RequestStep

\* What ServiceLifecycle takes from GatewayRuntime of a request: who has to give
\* back its slot and to close its stream, with a pool that closes what is left.
THEOREM CustodyKept == Spec => ImplementsCustody
<1>1. Init => C!Init
  BY DEF Init, C!Init, slotBar, streamBar
<1> QED
  BY <1>1, CustodyStep, Invariance, PTL DEF Spec, ImplementsCustody, C!Spec
=============================================================================
