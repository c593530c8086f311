----------------------- MODULE GatewayRuntime_proofs -----------------------
(***************************************************************************)
(* Proofs about GatewayRuntime, for every set of requests, every capacity  *)
(* and whether or not a close may fail.                                    *)
(***************************************************************************)
EXTENDS GatewayRuntime, FiniteSetTheorems, TLAPS

-----------------------------------------------------------------------------
(* Type correctness *)

\* What follows a close keeps the types of what it assigns.
LEMMA ContinueType ==
  ASSUME TypeOK, NEW r \in Requests,
         NEW e \in Reported \cup {"none", "CancelledError"}, Continue(r, e)
  PROVE  /\ active' \in Nat
         /\ pc' \in [Requests -> PCs]
         /\ exc' \in [Requests -> Reported \cup {"none", "CancelledError"}]
         /\ last' \in [Requests -> Frames]
         /\ outcome' \in [Requests -> Outcomes]
<1>0. \A x \in Reported : OutcomeOf[x] \in Outcomes
  BY DEF OutcomeOf, Reported, UpstreamErrors, Outcomes
<1>1. exc' \in [Requests -> Reported \cup {"none", "CancelledError"}]
  BY DEF TypeOK, Continue
<1>2. CASE Finish(r, outcome[r]) /\ UNCHANGED last
  BY <1>1, <1>2 DEF TypeOK, Finish, Release, PCs
<1>3. CASE Finish(r, "client_disconnect") /\ UNCHANGED last
  BY <1>1, <1>3 DEF TypeOK, Finish, Release, PCs, Outcomes
<1>4. CASE Emit(r, "sending_done", "done") /\ UNCHANGED <<active, outcome>>
  BY <1>1, <1>4 DEF TypeOK, Emit, PCs, TimedSends, Frames
<1>5. CASE /\ e \in Reported
           /\ Emit(r, "error", "error")
           /\ outcome' = [outcome EXCEPT ![r] = OutcomeOf[e]]
           /\ UNCHANGED active
  BY <1>0, <1>1, <1>5 DEF TypeOK, Emit, PCs, ErrorSends, Frames
<1>6. QED
  BY <1>2, <1>3, <1>4, <1>5 DEF Continue

\* The values of every variable stay in their types in every reachable state.
THEOREM TypeCorrect == Spec => []TypeOK
<1>1. Init => TypeOK
  BY DEF Init, TypeOK, PCs, Routes, Upstreams, Frames, Outcomes
<1>2. TypeOK /\ [Next]_vars => TypeOK'
  <2> SUFFICES ASSUME TypeOK, [Next]_vars PROVE TypeOK'
    OBVIOUS
  <2> USE DEF TypeOK
  <2>0. CASE UNCHANGED vars
    BY <2>0 DEF vars
  <2>1. ASSUME NEW r \in Requests, Handler(r) PROVE TypeOK'
    <3>1. CASE Refuse(r)
      BY <3>1 DEF Refuse, PCs, Outcomes
    <3>2. CASE Invalid(r)
      BY <3>2 DEF Invalid, PCs, Outcomes
    <3>3. ASSUME NEW way \in Routes, Admit(r, way) PROVE TypeOK'
      BY <3>3 DEF Admit, Acquire, PCs, Upstreams
    <3>4. CASE CreateFails(r)
      BY <3>4 DEF CreateFails, Finish, Release, PCs, Upstreams, Outcomes
    <3>5. CASE CreateTimesOut(r)
      BY <3>5 DEF CreateTimesOut, Finish, Release, PCs, Upstreams, Outcomes
    <3>6. CASE AnswerJson(r)
      BY <3>6 DEF AnswerJson, Finish, Release, PCs, Upstreams, Outcomes
    <3>7. CASE HandOff(r)
      BY <3>7 DEF HandOff, PCs, Upstreams
    <3>8. QED
      BY <2>1, <3>1, <3>2, <3>3, <3>4, <3>5, <3>6, <3>7 DEF Handler
  <2>2. ASSUME NEW r \in Requests, Body(r) PROVE TypeOK'
    <3> USE DEF PCs, TimedSends, ErrorSends, Upstreams, Frames, Outcomes
    <3>1. CASE StartBody(r)
      BY <3>1 DEF StartBody
    <3>2. CASE StartBodyLate(r)
      <4>1. OutcomeOf["TimeoutError"] \in Outcomes
        BY DEF OutcomeOf, Reported
      <4>2. CASE route[r] = "native"
        BY <3>2, <4>2 DEF StartBodyLate, BeginClose, Reported
      <4>3. CASE route[r] = "responses"
        BY <3>2, <4>1, <4>3 DEF StartBodyLate, Emit
      <4>4. QED
        BY <3>2, <4>2, <4>3 DEF StartBodyLate
    <3>3. CASE UpstreamChunk(r)
      BY <3>3 DEF UpstreamChunk, Emit
    <3>4. ASSUME NEW frame \in {"final", "error"}, UpstreamTerminal(r, frame)
          PROVE  TypeOK'
      BY <3>4 DEF UpstreamTerminal, Emit
    <3>5. CASE UpstreamEnds(r)
      BY <3>5 DEF UpstreamEnds, BeginClose
    <3>6. ASSUME NEW e \in UpstreamErrors, UpstreamFails(r, e) PROVE TypeOK'
      BY <3>6 DEF UpstreamFails, BeginClose, Reported
    <3>7. CASE DeadlineInRead(r)
      BY <3>7 DEF DeadlineInRead, BeginClose, Reported
    <3>8. CASE CancelInRead(r)
      BY <3>8 DEF CancelInRead, BeginClose
    <3>9. CASE SendReturns(r)
      <4>1. UNCHANGED <<route, clock, connected>>
        BY <3>9 DEF SendReturns,
                    ContentSent, FinalSent, DoneSent, ErrorSent, ErrorDoneSent
      <4>2. CASE pc[r] = "sending"
        BY <3>9, <4>1, <4>2 DEF SendReturns,
                                ContentSent, FinalSent, DoneSent, ErrorSent, ErrorDoneSent
      <4>3. CASE pc[r] \in {"sending_final", "error"}
        BY <3>9, <4>1, <4>3 DEF SendReturns,
                                ContentSent, FinalSent, DoneSent, ErrorSent, ErrorDoneSent,
                                Emit
      <4>4. CASE pc[r] = "sending_done" /\ route[r] = "responses"
        BY <3>9, <4>1, <4>4 DEF SendReturns,
                                ContentSent, FinalSent, DoneSent, ErrorSent, ErrorDoneSent,
                                BeginClose
      <4>5. CASE pc[r] = "error_done" \/ (pc[r] = "sending_done" /\ route[r] = "native")
        BY <3>9, <4>1, <4>5 DEF SendReturns,
                                ContentSent, FinalSent, DoneSent, ErrorSent, ErrorDoneSent,
                                Finish, Release
      <4>6. QED
        BY <3>9, <4>2, <4>3, <4>4, <4>5 DEF SendReturns,
                                            ContentSent, FinalSent, DoneSent, ErrorSent, ErrorDoneSent
    <3>10. CASE AbandonByTimer(r) \/ AbandonByDisconnect(r)
      BY <3>10 DEF AbandonByTimer, AbandonByDisconnect, Abandon
    <3>11. QED
      BY <2>2, <3>1, <3>2, <3>3, <3>4, <3>5, <3>6, <3>7, <3>8, <3>9, <3>10
      DEF Body
  <2>3. ASSUME NEW r \in Requests, Closing(r) PROVE TypeOK'
    <3>1. ASSUME NEW e \in Reported \cup {"none", "CancelledError"}, Continue(r, e),
                 NEW u \in {"closing", "closed"},
                 upstream' = [upstream EXCEPT ![r] = u],
                 UNCHANGED <<route, closed, clock, connected>>
          PROVE  TypeOK'
      <4>1. upstream' \in [Requests -> Upstreams]
        BY <3>1 DEF Upstreams
      <4>2. QED
        BY <3>1, <4>1, ContinueType
    <3>2. CASE CloseReturns(r)
      <4>1. exc[r] \in Reported \cup {"none", "CancelledError"}
        OBVIOUS
      <4>2. QED
        BY <3>1, <3>2, <4>1 DEF CloseReturns
    <3>3. CASE CloseRaises(r)
      BY <3>1, <3>3 DEF CloseRaises, Reported, UpstreamErrors
    <3>4. CASE InterruptClose(r)
      BY <3>1, <3>4 DEF InterruptClose, Reported
    <3>5. CASE Finalize(r)
      <4>1. CASE Finish(r, outcome[r]) /\ UNCHANGED <<upstream, closed>>
        BY <3>5, <4>1 DEF Finalize, Finish, Release, PCs
      <4>2. CASE /\ pc' = [pc EXCEPT ![r] = "finalizing"]
                 /\ closed' = [closed EXCEPT ![r] = TRUE]
                 /\ upstream' = [upstream EXCEPT ![r] = "closing"]
                 /\ UNCHANGED <<active, outcome>>
        BY <3>5, <4>2 DEF Finalize, PCs, Upstreams
      <4>3. QED
        BY <3>5, <4>1, <4>2 DEF Finalize
    <3>6. CASE FinalizerCloses(r)
      BY <3>6 DEF FinalizerCloses, Finish, Release, PCs, Upstreams
    <3>7. CASE FinalizerRaises(r)
      BY <3>7 DEF FinalizerRaises, PCs, Upstreams
    <3>8. QED
      BY <2>3, <3>2, <3>3, <3>4, <3>5, <3>6, <3>7 DEF Closing
  <2>4. ASSUME NEW r \in Requests, Tick(r) PROVE TypeOK'
    <3>1. clock[r] \in {0, 1}
      BY <2>4 DEF Tick
    <3>2. clock' \in [Requests -> 0..2]
      BY <2>4, <3>1 DEF Tick
    <3>3. QED
      BY <2>4, <3>2 DEF Tick
  <2>5. ASSUME NEW r \in Requests, Disconnect(r) PROVE TypeOK'
    BY <2>5 DEF Disconnect
  <2>6. QED
    BY <2>0, <2>1, <2>2, <2>3, <2>4, <2>5 DEF Next, AllSettled
<1>3. QED
  BY <1>1, <1>2, PTL DEF Spec

-----------------------------------------------------------------------------
(* The slots.  SlotAccounting is inductive once it is known that only      *)
(* finitely many requests hold a slot: Requests itself may be infinite.    *)

SlotInv == IsFiniteSet(Holders) /\ SlotAccounting

\* A holder that goes on, and keeps its slot.
LEMMA SlotKept ==
  ASSUME TypeOK, SlotInv, NEW r \in Holders, NEW p \in PCs \ {"idle", "done"},
         pc' = [pc EXCEPT ![r] = p], active' = active
  PROVE  SlotInv'
<1>1. Holders' = Holders
  BY DEF Holders, TypeOK
<1>2. QED
  BY <1>1 DEF SlotInv, SlotAccounting

\* A holder that is over, and gives its slot back.
LEMMA SlotFreed ==
  ASSUME TypeOK, SlotInv, NEW r \in Holders, NEW how, Finish(r, how)
  PROVE  SlotInv'
<1>1. Holders' = Holders \ {r}
  BY DEF Holders, TypeOK, Finish
<1>2. /\ IsFiniteSet(Holders')
      /\ Cardinality(Holders') = Cardinality(Holders) - 1
  BY <1>1, FS_RemoveElement DEF SlotInv
<1>3. Cardinality(Holders') \in Nat /\ Cardinality(Holders) \in Nat
  BY <1>2, FS_CardinalityType DEF SlotInv
<1>4. active' = Cardinality(Holders')
  BY <1>2, <1>3 DEF Finish, Release, SlotInv, SlotAccounting
<1>5. QED
  BY <1>2, <1>3, <1>4, CapacityAssumption DEF SlotInv, SlotAccounting

\* A request that takes a slot when there is one.
LEMMA SlotTaken ==
  ASSUME TypeOK, SlotInv, NEW r \in Requests, NEW way, Admit(r, way)
  PROVE  SlotInv'
<1>1. r \notin Holders
  BY DEF Admit, Holders
<1>2. Holders' = Holders \cup {r}
  BY DEF Holders, TypeOK, Admit
<1>3. /\ IsFiniteSet(Holders')
      /\ Cardinality(Holders') = Cardinality(Holders) + 1
  BY <1>1, <1>2, FS_AddElement DEF SlotInv
<1>4. active + 1 <= Capacity
  BY CapacityAssumption DEF Admit, CanAcquire, TypeOK
<1>5. QED
  BY <1>3, <1>4 DEF SlotInv, SlotAccounting, Admit, Acquire

\* What follows a close keeps the slot or gives it back.
LEMMA ContinueSlot ==
  ASSUME TypeOK, SlotInv, NEW r \in Holders, NEW e, Continue(r, e)
  PROVE  SlotInv'
<1>1. CASE Finish(r, outcome[r]) \/ Finish(r, "client_disconnect")
  BY <1>1, SlotFreed
<1>2. CASE Emit(r, "sending_done", "done") /\ UNCHANGED <<active, outcome>>
  BY <1>2, SlotKept DEF Emit, PCs, TimedSends
<1>3. CASE Emit(r, "error", "error") /\ UNCHANGED active
  BY <1>3, SlotKept DEF Emit, PCs, ErrorSends
<1>4. QED
  BY <1>1, <1>2, <1>3 DEF Continue

\* No step of any request, and no interleaving of steps of several, makes
\* the limiter's count differ from the number of requests that hold a slot
\* or exceed the capacity.
LEMMA SlotStep == TypeOK /\ SlotInv /\ [Next]_vars => SlotInv'
<1> SUFFICES ASSUME TypeOK, SlotInv, [Next]_vars PROVE SlotInv'
  OBVIOUS
<1>0. ASSUME UNCHANGED <<pc, active>> PROVE SlotInv'
  BY <1>0 DEF SlotInv, SlotAccounting, Holders
<1>1. ASSUME NEW r \in Requests, Handler(r) PROVE SlotInv'
  <2>1. CASE Refuse(r) \/ Invalid(r)
    <3>1. Holders' = Holders
      BY <2>1 DEF Refuse, Invalid, Holders, TypeOK
    <3>2. QED
      BY <2>1, <3>1 DEF Refuse, Invalid, SlotInv, SlotAccounting
  <2>2. ASSUME NEW way \in Routes, Admit(r, way) PROVE SlotInv'
    BY <2>2, SlotTaken
  <2>3. ASSUME pc[r] = "creating" PROVE r \in Holders
    BY <2>3 DEF Holders
  <2>4. CASE CreateFails(r) \/ CreateTimesOut(r) \/ AnswerJson(r)
    BY <2>3, <2>4, SlotFreed DEF CreateFails, CreateTimesOut, AnswerJson
  <2>5. CASE HandOff(r)
    BY <2>3, <2>5, SlotKept DEF HandOff, PCs
  <2>6. QED
    BY <1>1, <2>1, <2>2, <2>4, <2>5 DEF Handler
<1>2. ASSUME NEW r \in Requests, Body(r) PROVE SlotInv'
  <2> USE DEF PCs, TimedSends, ErrorSends
  <2>0. r \in Holders
    BY <1>2 DEF Body, Holders, StartBody, StartBodyLate, UpstreamChunk,
                UpstreamTerminal, UpstreamEnds, UpstreamFails, DeadlineInRead,
                CancelInRead, SendReturns,
                ContentSent, FinalSent, DoneSent, ErrorSent, ErrorDoneSent,
                AbandonByTimer, AbandonByDisconnect
  <2>1. CASE StartBody(r) \/ StartBodyLate(r)
    BY <2>0, <2>1, SlotKept DEF StartBody, StartBodyLate, BeginClose, Emit
  <2>2. CASE UpstreamChunk(r)
    BY <2>0, <2>2, SlotKept DEF UpstreamChunk, Emit
  <2>3. ASSUME NEW frame, UpstreamTerminal(r, frame) PROVE SlotInv'
    BY <2>0, <2>3, SlotKept DEF UpstreamTerminal, Emit
  <2>4. ASSUME NEW e, BeginClose(r, e), UNCHANGED active PROVE SlotInv'
    BY <2>0, <2>4, SlotKept DEF BeginClose
  <2>5. CASE UpstreamEnds(r) \/ DeadlineInRead(r) \/ CancelInRead(r)
    BY <2>4, <2>5 DEF UpstreamEnds, DeadlineInRead, CancelInRead
  <2>6. ASSUME NEW e, UpstreamFails(r, e) PROVE SlotInv'
    BY <2>4, <2>6 DEF UpstreamFails
  <2>7. CASE SendReturns(r)
    <3>1. CASE Finish(r, outcome[r])
      BY <2>0, <3>1, SlotFreed
    <3>2. CASE BeginClose(r, "none") /\ UNCHANGED active
      BY <2>4, <3>2
    <3>3. CASE /\ \E p \in {"reading", "sending_done", "error_done"} :
                     pc' = [pc EXCEPT ![r] = p]
               /\ UNCHANGED active
      BY <2>0, <3>3, SlotKept
    <3>4. QED
      BY <2>7, <3>1, <3>2, <3>3 DEF SendReturns,
                                    ContentSent, FinalSent, DoneSent, ErrorSent, ErrorDoneSent,
                                    Emit
  <2>8. CASE AbandonByTimer(r) \/ AbandonByDisconnect(r)
    BY <2>0, <2>8, SlotKept DEF AbandonByTimer, AbandonByDisconnect, Abandon
  <2>9. QED
    BY <1>2, <2>1, <2>2, <2>3, <2>5, <2>6, <2>7, <2>8 DEF Body
<1>3. ASSUME NEW r \in Requests, Closing(r) PROVE SlotInv'
  <2>0. r \in Holders
    BY <1>3 DEF Closing, Holders, CloseReturns, CloseRaises, InterruptClose,
                Finalize, FinalizerCloses, FinalizerRaises
  <2>1. CASE CloseReturns(r) \/ CloseRaises(r) \/ InterruptClose(r)
    BY <2>0, <2>1, ContinueSlot DEF CloseReturns, CloseRaises, InterruptClose
  <2>2. CASE Finalize(r)
    BY <2>0, <2>2, SlotKept, SlotFreed DEF Finalize, PCs
  <2>3. CASE FinalizerCloses(r)
    BY <2>0, <2>3, SlotFreed DEF FinalizerCloses
  <2>4. CASE FinalizerRaises(r)
    BY <2>0, <2>4, SlotKept DEF FinalizerRaises, PCs
  <2>5. QED
    BY <1>3, <2>1, <2>2, <2>3, <2>4 DEF Closing
<1>4. ASSUME NEW r \in Requests, Tick(r) \/ Disconnect(r) PROVE SlotInv'
  BY <1>0, <1>4 DEF Tick, Disconnect
<1>5. QED
  BY <1>0, <1>1, <1>2, <1>3, <1>4 DEF Next, AllSettled, vars

LEMMA SlotInit == Init => SlotInv
<1> SUFFICES ASSUME Init PROVE SlotInv
  OBVIOUS
<1>1. Holders = {}
  BY DEF Init, Holders
<1>2. QED
  BY <1>1, FS_EmptySet, CapacityAssumption DEF Init, SlotInv, SlotAccounting

LEMMA SlotInvHolds == Spec => []SlotInv
BY SlotInit, SlotStep, TypeCorrect, PTL DEF Spec

\* In every reachable state the limiter's count is the number of requests
\* that were let in and are not over, and it is at most the capacity.
THEOREM SlotsAccounted == Spec => []SlotAccounting
<1>1. SlotInv => SlotAccounting
  BY DEF SlotInv
<1>2. QED
  BY <1>1, SlotInvHolds, PTL

-----------------------------------------------------------------------------
(* The upstream stream of a request.  What a request may do next depends   *)
(* on whether its stream is still open and on whether anyone may still     *)
(* close it, so the invariant ties pc, route, upstream and closed together. *)

\* Where the code of a streamed request is with its stream open and nobody
\* having asked to close it.
StreamInUse(r) ==
  /\ route[r] \in {"native", "responses"}
  /\ upstream[r] = "open"
  /\ ~closed[r]

StreamInvOf(r) ==
  /\ pc[r] = "idle" => upstream[r] = "none" /\ ~closed[r]
  /\ pc[r] = "creating" => route[r] \in Routes /\ upstream[r] = "pending" /\ ~closed[r]
  /\ pc[r] \in {"handoff", "reading", "sending", "sending_final"} => StreamInUse(r)
  /\ pc[r] = "sending_final" => route[r] = "responses"
  /\ pc[r] = "sending_done" => \/ route[r] = "native" /\ closed[r]
                               \/ route[r] = "responses" /\ StreamInUse(r)
  /\ pc[r] \in {"closing", "finalizing"} => upstream[r] = "closing" /\ closed[r]
  /\ pc[r] \in {"error", "error_done"} => closed[r]
  /\ pc[r] = "orphaned" => closed[r] \/ StreamInUse(r)
  /\ pc[r] = "done" /\ ~closed[r] => upstream[r] \in {"none", "closed"}
  /\ closed[r] => upstream[r] \in {"closing", "closed"} \/ LateStart(r)
  /\ outcome[r] = "busy" => pc[r] = "done"

StreamInv == \A r \in Requests : StreamInvOf(r)

\* The invariant of one request depends only on that request's own state.
LEMMA Untouched ==
  ASSUME NEW q \in Requests, StreamInvOf(q),
         pc'[q] = pc[q], route'[q] = route[q], upstream'[q] = upstream[q],
         closed'[q] = closed[q], outcome'[q] = outcome[q]
  PROVE  StreamInvOf(q)'
BY DEF StreamInvOf, StreamInUse, LateStart

\* A close that is over leaves a request that has asked for it.
LEMMA ContinueStream ==
  ASSUME TypeOK, StreamInv, NEW r \in Requests, NEW e, Continue(r, e),
         NEW u \in {"closing", "closed"}, pc[r] = "closing",
         upstream' = [upstream EXCEPT ![r] = u], UNCHANGED <<route, closed>>
  PROVE  StreamInv'
<1> SUFFICES ASSUME NEW q \in Requests PROVE StreamInvOf(q)'
  BY DEF StreamInv
<1>1. StreamInvOf(q) /\ StreamInvOf(r)
  BY DEF StreamInv
<1>2. CASE q # r
  <2>1. pc'[q] = pc[q] /\ outcome'[q] = outcome[q] /\ upstream'[q] = upstream[q]
    BY <1>2 DEF Continue, Emit, Finish, TypeOK
  <2>2. QED
    BY <1>1, <2>1, Untouched
<1>3. CASE q = r
  <2>1. closed'[r] /\ upstream'[r] \in {"closing", "closed"}
    BY <1>1 DEF StreamInvOf, TypeOK
  <2>2. CASE pc'[r] = "done"
    BY <1>3, <2>1, <2>2 DEF StreamInvOf
  <2>3. CASE pc'[r] = "sending_done" /\ route[r] = "native" /\ outcome'[r] = outcome[r]
    BY <1>1, <1>3, <2>1, <2>3 DEF StreamInvOf
  <2>4. CASE pc'[r] = "error" /\ e \in Reported /\ outcome'[r] = OutcomeOf[e]
    <3>1. outcome'[r] # "busy"
      BY <2>4 DEF OutcomeOf, Reported, UpstreamErrors
    <3>2. QED
      BY <1>3, <2>1, <2>4, <3>1 DEF StreamInvOf
  <2>5. QED
    BY <2>2, <2>3, <2>4 DEF Continue, Emit, Finish, TypeOK
<1>4. QED
  BY <1>2, <1>3

\* Every step keeps a stream open until someone asks to close it, lets it be
\* asked once, and never forgets it, but for LateStart.
LEMMA StreamStep == TypeOK /\ StreamInv /\ [Next]_vars => StreamInv'
<1> SUFFICES ASSUME TypeOK, StreamInv, [Next]_vars, NEW q \in Requests
             PROVE  StreamInvOf(q)'
  BY DEF StreamInv
<1>0. StreamInvOf(q)
  BY DEF StreamInv
<1>1. ASSUME UNCHANGED <<pc, route, upstream, closed, outcome>>
      PROVE  StreamInvOf(q)'
  BY <1>0, <1>1, Untouched
<1>2. ASSUME NEW r \in Requests, Handler(r) PROVE StreamInvOf(q)'
  <2>1. CASE q # r
    BY <1>0, <1>2, <2>1, Untouched
    DEF TypeOK, Handler, Refuse, Invalid, Admit, CreateFails, CreateTimesOut,
        AnswerJson, HandOff, Finish
  <2>2. CASE q = r
    <3> USE DEF TypeOK, StreamInvOf, StreamInUse, LateStart
    <3>1. CASE Refuse(r) \/ Invalid(r)
      BY <1>0, <2>2, <3>1 DEF Refuse, Invalid
    <3>2. ASSUME NEW way \in Routes, Admit(r, way) PROVE StreamInvOf(q)'
      BY <1>0, <2>2, <3>2 DEF Admit
    <3>3. CASE CreateFails(r) \/ CreateTimesOut(r) \/ AnswerJson(r)
      BY <1>0, <2>2, <3>3 DEF CreateFails, CreateTimesOut, AnswerJson, Finish
    <3>4. CASE HandOff(r)
      <4>1. route[r] \in {"native", "responses"}
        BY <1>0, <2>2, <3>4 DEF HandOff, Routes
      <4>2. QED
        BY <1>0, <2>2, <3>4, <4>1 DEF HandOff
    <3>5. QED
      BY <1>2, <3>1, <3>2, <3>3, <3>4 DEF Handler
  <2>3. QED
    BY <2>1, <2>2
<1>3. ASSUME NEW r \in Requests, Body(r) PROVE StreamInvOf(q)'
  <2>1. CASE q # r
    BY <1>0, <1>3, <2>1, Untouched
    DEF TypeOK, Body, StartBody, StartBodyLate, UpstreamChunk, UpstreamTerminal,
        UpstreamEnds, UpstreamFails, DeadlineInRead, CancelInRead, SendReturns,
        ContentSent, FinalSent, DoneSent, ErrorSent, ErrorDoneSent,
        AbandonByTimer, AbandonByDisconnect, Abandon, BeginClose, Emit, Finish
  <2>2. CASE q = r
    <3> USE DEF TypeOK, StreamInvOf, StreamInUse, LateStart
    <3>1. CASE StartBody(r)
      BY <1>0, <2>2, <3>1 DEF StartBody
    <3>2. CASE StartBodyLate(r)
      <4>1. OutcomeOf["TimeoutError"] = "request_deadline"
        BY DEF OutcomeOf, Reported
      <4>2. QED
        BY <1>0, <2>2, <3>2, <4>1 DEF StartBodyLate, BeginClose, Emit
    <3>3. ASSUME NEW frame,
                 UpstreamChunk(r) \/ UpstreamTerminal(r, frame)
          PROVE  StreamInvOf(q)'
      BY <1>0, <2>2, <3>3 DEF UpstreamChunk, UpstreamTerminal, Emit
    <3>4. ASSUME NEW e, BeginClose(r, e), StreamInUse(r),
                 UNCHANGED <<route, outcome>>, pc[r] # "done"
          PROVE  StreamInvOf(q)'
      BY <1>0, <2>2, <3>4 DEF BeginClose
    <3>5. CASE UpstreamEnds(r) \/ DeadlineInRead(r) \/ CancelInRead(r)
      BY <1>0, <2>2, <3>4, <3>5 DEF UpstreamEnds, DeadlineInRead, CancelInRead
    <3>6. ASSUME NEW e, UpstreamFails(r, e) PROVE StreamInvOf(q)'
      BY <1>0, <2>2, <3>4, <3>6 DEF UpstreamFails
    <3>7. CASE SendReturns(r)
      <4>1. CASE pc[r] \in {"sending", "sending_final", "error"}
        BY <1>0, <2>2, <3>7, <4>1 DEF SendReturns,
                                      ContentSent, FinalSent, DoneSent, ErrorSent, ErrorDoneSent,
                                      Emit
      <4>2. CASE pc[r] = "sending_done" /\ route[r] = "responses"
        BY <1>0, <2>2, <3>4, <3>7, <4>2 DEF SendReturns,
                                            ContentSent, FinalSent, DoneSent, ErrorSent, ErrorDoneSent
      <4>3. CASE pc[r] = "error_done" \/ (pc[r] = "sending_done" /\ route[r] = "native")
        BY <1>0, <2>2, <3>7, <4>3 DEF SendReturns,
                                      ContentSent, FinalSent, DoneSent, ErrorSent, ErrorDoneSent,
                                      Finish
      <4>4. QED
        BY <3>7, <4>1, <4>2, <4>3 DEF SendReturns,
                                      ContentSent, FinalSent, DoneSent, ErrorSent, ErrorDoneSent
    <3>8. CASE AbandonByTimer(r) \/ AbandonByDisconnect(r)
      BY <1>0, <2>2, <3>8
      DEF AbandonByTimer, AbandonByDisconnect, Abandon, TimedSends, ErrorSends
    <3>9. QED
      BY <1>3, <3>1, <3>2, <3>3, <3>5, <3>6, <3>7, <3>8 DEF Body
  <2>3. QED
    BY <2>1, <2>2
<1>4. ASSUME NEW r \in Requests, Closing(r) PROVE StreamInvOf(q)'
  <2>1. CASE CloseReturns(r) \/ CloseRaises(r) \/ InterruptClose(r)
    BY <2>1, ContinueStream DEF CloseReturns, CloseRaises, InterruptClose, StreamInv
  <2>2. CASE Finalize(r) \/ FinalizerCloses(r) \/ FinalizerRaises(r)
    <3>1. CASE q # r
      BY <1>0, <2>2, <3>1, Untouched
      DEF TypeOK, Finalize, FinalizerCloses, FinalizerRaises, Finish
    <3>2. CASE q = r
      BY <1>0, <2>2, <3>2
      DEF TypeOK, StreamInvOf, StreamInUse, LateStart, Finalize,
          FinalizerCloses, FinalizerRaises, Finish
    <3>3. QED
      BY <3>1, <3>2
  <2>3. QED
    BY <1>4, <2>1, <2>2 DEF Closing
<1>5. ASSUME NEW r \in Requests, Tick(r) \/ Disconnect(r) PROVE StreamInvOf(q)'
  BY <1>1, <1>5 DEF Tick, Disconnect
<1>6. QED
  BY <1>1, <1>2, <1>3, <1>4, <1>5 DEF Next, AllSettled, vars

LEMMA StreamInvHolds == Spec => []StreamInv
<1>1. Init => StreamInv
  BY DEF Init, StreamInv, StreamInvOf
<1>2. QED
  BY <1>1, StreamStep, TypeCorrect, PTL DEF Spec

\* A slot is given back only after the upstream call it was taken for has
\* ended or its close has been asked for, on every path but LateStart.
THEOREM SlotOutlives == Spec => []SlotOutlivesUpstream
<1>1. StreamInv => SlotOutlivesUpstream
  BY DEF StreamInv, StreamInvOf, SlotOutlivesUpstream, Holders
<1>2. QED
  BY <1>1, StreamInvHolds, PTL

\* The upstream stream of a request is never asked to close twice.
THEOREM ClosesOnce == Spec => ClosedOnce
<1> DEFINE Asks(r) == pc'[r] \in {"closing", "finalizing"} /\ pc[r] # pc'[r]
           FirstAsk == \A r \in Requests : Asks(r) => upstream[r] = "open" /\ ~closed[r]
<1>1. TypeOK /\ StreamInv /\ [Next]_vars => [FirstAsk]_vars
  <2> SUFFICES ASSUME TypeOK, StreamInv, Next, NEW q \in Requests, Asks(q)
               PROVE  StreamInUse(q)
    BY DEF StreamInUse
  <2>0. StreamInvOf(q)
    BY DEF StreamInv
  <2>1. ASSUME NEW r \in Requests, Handler(r) PROVE FALSE
    BY <2>1 DEF TypeOK, Handler, Refuse, Invalid, Admit, CreateFails,
                CreateTimesOut, AnswerJson, HandOff, Finish
  <2>2. ASSUME NEW r \in Requests, Body(r) PROVE StreamInUse(q)
    <3>1. q = r
      BY <2>2 DEF TypeOK, Body, StartBody, StartBodyLate, UpstreamChunk,
                  UpstreamTerminal, UpstreamEnds, UpstreamFails, DeadlineInRead,
                  CancelInRead, SendReturns,
                  ContentSent, FinalSent, DoneSent, ErrorSent, ErrorDoneSent,
                  AbandonByTimer, AbandonByDisconnect,
                  Abandon, BeginClose, Emit, Finish
    <3>2. CASE pc[r] \in {"handoff", "reading"}
      BY <2>0, <3>1, <3>2 DEF StreamInvOf
    <3>3. CASE SendReturns(r)
      BY <2>0, <3>1, <3>3
      DEF TypeOK, SendReturns,
          ContentSent, FinalSent, DoneSent, ErrorSent, ErrorDoneSent,
          Emit, Finish, StreamInvOf, StreamInUse
    <3>4. ASSUME AbandonByTimer(r) \/ AbandonByDisconnect(r) PROVE FALSE
      BY <3>1, <3>4 DEF TypeOK, AbandonByTimer, AbandonByDisconnect, Abandon
    <3>5. QED
      BY <2>2, <3>2, <3>3, <3>4
      DEF Body, StartBody, StartBodyLate, UpstreamChunk, UpstreamTerminal,
          UpstreamEnds, UpstreamFails, DeadlineInRead, CancelInRead
  <2>3. ASSUME NEW r \in Requests, Closing(r) PROVE StreamInUse(q)
    <3>1. ASSUME NEW e, Continue(r, e) PROVE FALSE
      BY <3>1 DEF TypeOK, Continue, Emit, Finish
    <3>2. CASE CloseReturns(r) \/ CloseRaises(r) \/ InterruptClose(r)
      BY <3>1, <3>2 DEF CloseReturns, CloseRaises, InterruptClose
    <3>3. ASSUME FinalizerCloses(r) \/ FinalizerRaises(r) PROVE FALSE
      BY <3>3 DEF TypeOK, FinalizerCloses, FinalizerRaises, Finish
    <3>4. CASE Finalize(r)
      <4>1. q = r /\ pc[r] = "orphaned" /\ ~closed[r]
        BY <3>4 DEF TypeOK, Finalize, Finish
      <4>2. QED
        BY <2>0, <4>1 DEF StreamInvOf
    <3>5. QED
      BY <2>3, <3>2, <3>3, <3>4 DEF Closing
  <2>4. ASSUME UNCHANGED pc PROVE FALSE
    BY <2>4
  <2>5. QED
    BY <2>1, <2>2, <2>3, <2>4 DEF Next, Tick, Disconnect, AllSettled, vars
<1>2. QED
  BY <1>1, StreamInvHolds, TypeCorrect, PTL DEF Spec, ClosedOnce

-----------------------------------------------------------------------------
(* What a client is sent and what is logged of it.  The last frame, the    *)
(* exception on its way and the outcome are tied to where the code is, to  *)
(* the clock and to whether the client is still there.                     *)

Failures == {OutcomeOf[e] : e \in Reported}

LEMMA FailureOutcomes ==
  /\ Failures = {"upstream_timeout", "upstream_connection_error", "request_deadline", "stream_error"}
  /\ OutcomeOf["TimeoutError"] = "request_deadline"
  /\ \A e \in Reported : /\ OutcomeOf[e] \in Failures
                         /\ OutcomeOf[e] = "request_deadline" => e = "TimeoutError"
<1>1. /\ OutcomeOf["APITimeoutError"] = "upstream_timeout"
      /\ OutcomeOf["APIConnectionError"] = "upstream_connection_error"
      /\ OutcomeOf["TimeoutError"] = "request_deadline"
      /\ OutcomeOf["Exception"] = "stream_error"
  BY DEF OutcomeOf, Reported, UpstreamErrors
<1>2. QED
  BY <1>1 DEF Failures, Reported, UpstreamErrors

ClientInvOf(r) ==
  /\ pc[r] \in {"idle", "creating", "handoff"} => last[r] = "none" /\ outcome[r] = "none"
  /\ pc[r] = "reading" => last[r] \in {"none", "data"}
  /\ pc[r] = "sending" => last[r] = "data"
  /\ pc[r] \in {"sending_done", "error_done"} => last[r] = "done"
  /\ pc[r] \in {"orphaned", "finalizing"} => ~connected[r] \/ clock[r] >= 1
  /\ pc[r] = "closing" => last[r] \in {"none", "data", "done"}
  /\ exc[r] = "TimeoutError" => clock[r] >= 1
  /\ exc[r] = "CancelledError" => ~connected[r]
  /\ outcome[r] \in {"request_deadline", "http_timeout"} => clock[r] >= 1
  /\ outcome[r] = "client_disconnect" => ~connected[r]
  /\ outcome[r] \in Failures /\ connected[r]
       => pc[r] = "error" \/ (pc[r] \in {"error_done", "done"} /\ last[r] = "done")
  /\ pc[r] = "done" /\ outcome[r] = "completed" /\ connected[r] /\ clock[r] = 0
       => last[r] = "done" \/ (route[r] = "responses" /\ last[r] \in {"none", "data"})

ClientInv == \A r \in Requests : ClientInvOf(r)

LEMMA ClientUntouched ==
  ASSUME NEW q \in Requests, ClientInvOf(q),
         pc'[q] = pc[q], route'[q] = route[q], exc'[q] = exc[q], clock'[q] = clock[q],
         connected'[q] = connected[q], last'[q] = last[q], outcome'[q] = outcome[q]
  PROVE  ClientInvOf(q)'
BY DEF ClientInvOf, Failures, OutcomeOf

\* After a close comes what the exception on its way calls for.
LEMMA ContinueClient ==
  ASSUME TypeOK, NEW r \in Requests, ClientInvOf(r), pc[r] = "closing",
         NEW e \in Reported \cup {"none", "CancelledError"}, Continue(r, e),
         e = "TimeoutError" => clock[r] >= 1,
         e = "CancelledError" => ~connected[r],
         UNCHANGED <<route, clock, connected>>
  PROVE  ClientInvOf(r)'
<1> USE FailureOutcomes DEF TypeOK, ClientInvOf
<1>1. exc'[r] = "none"
  BY DEF Continue
<1>2. Failures' = Failures
  BY DEF Failures, OutcomeOf
<1>3. CASE e = "none" /\ Emit(r, "sending_done", "done") /\ UNCHANGED outcome
  BY <1>1, <1>2, <1>3 DEF Emit
<1>4. CASE e = "none" /\ route[r] = "responses" /\ Finish(r, outcome[r]) /\ UNCHANGED last
  <2>1. /\ pc'[r] = "done" /\ outcome'[r] = outcome[r]
        /\ last'[r] = last[r] /\ last[r] \in {"none", "data", "done"}
        /\ route'[r] = route[r] /\ clock'[r] = clock[r] /\ connected'[r] = connected[r]
    BY <1>4 DEF Finish
  <2>2. outcome[r] \in Failures /\ connected[r] => FALSE
    OBVIOUS
  <2>3. QED
    BY <1>1, <1>2, <1>4, <2>1, <2>2
<1>5. CASE e = "CancelledError" /\ Finish(r, "client_disconnect") /\ UNCHANGED last
  BY <1>1, <1>2, <1>5 DEF Finish
<1>6. CASE /\ e \in Reported /\ Emit(r, "error", "error")
           /\ outcome' = [outcome EXCEPT ![r] = OutcomeOf[e]]
  <2>1. pc'[r] = "error" /\ outcome'[r] = OutcomeOf[e] /\ OutcomeOf[e] \in Failures
    BY <1>6 DEF Emit
  <2>2. QED
    BY <1>1, <1>2, <1>6, <2>1
<1>7. QED
  BY <1>3, <1>4, <1>5, <1>6 DEF Continue

LEMMA ClientStep == TypeOK /\ ClientInv /\ [Next]_vars => ClientInv'
<1> SUFFICES ASSUME TypeOK, ClientInv, [Next]_vars, NEW q \in Requests
             PROVE  ClientInvOf(q)'
  BY DEF ClientInv
<1>0. ClientInvOf(q)
  BY DEF ClientInv
<1>1. Failures' = Failures
  BY DEF Failures, OutcomeOf
<1>2. ASSUME UNCHANGED vars PROVE ClientInvOf(q)'
  BY <1>0, <1>2, ClientUntouched DEF vars
<1>3. ASSUME NEW r \in Requests, Handler(r) PROVE ClientInvOf(q)'
  <2>1. CASE q # r
    BY <1>0, <1>3, <2>1, ClientUntouched
    DEF TypeOK, Handler, Refuse, Invalid, Admit, CreateFails, CreateTimesOut,
        AnswerJson, HandOff, Finish
  <2>2. CASE q = r
    <3> USE FailureOutcomes DEF TypeOK, ClientInvOf
    <3>1. CASE Refuse(r) \/ Invalid(r)
      BY <1>0, <1>1, <2>2, <3>1 DEF Refuse, Invalid
    <3>2. ASSUME NEW way \in Routes, Admit(r, way) PROVE ClientInvOf(q)'
      BY <1>0, <1>1, <2>2, <3>2 DEF Admit
    <3>3. CASE CreateFails(r) \/ CreateTimesOut(r) \/ AnswerJson(r)
      BY <1>0, <1>1, <2>2, <3>3 DEF CreateFails, CreateTimesOut, AnswerJson, Finish
    <3>4. CASE HandOff(r)
      BY <1>0, <1>1, <2>2, <3>4 DEF HandOff
    <3>5. QED
      BY <1>3, <3>1, <3>2, <3>3, <3>4 DEF Handler
  <2>3. QED
    BY <2>1, <2>2
<1>4. ASSUME NEW r \in Requests, Body(r) PROVE ClientInvOf(q)'
  <2>1. CASE q # r
    BY <1>0, <1>4, <2>1, ClientUntouched
    DEF TypeOK, Body, StartBody, StartBodyLate, UpstreamChunk, UpstreamTerminal,
        UpstreamEnds, UpstreamFails, DeadlineInRead, CancelInRead, SendReturns,
        ContentSent, FinalSent, DoneSent, ErrorSent, ErrorDoneSent,
        AbandonByTimer, AbandonByDisconnect, Abandon, BeginClose, Emit, Finish
  <2>2. CASE q = r
    <3> USE FailureOutcomes DEF TypeOK, ClientInvOf
    <3>1. CASE StartBody(r) \/ StartBodyLate(r)
      BY <1>0, <1>1, <2>2, <3>1 DEF StartBody, StartBodyLate, BeginClose, Emit
    <3>2. ASSUME NEW frame \in {"final", "error"},
                 UpstreamChunk(r) \/ UpstreamTerminal(r, frame)
          PROVE  ClientInvOf(q)'
      BY <1>0, <1>1, <2>2, <3>2 DEF UpstreamChunk, UpstreamTerminal, Emit
    <3>3. ASSUME NEW e, BeginClose(r, e), UNCHANGED <<route, clock, connected, last, outcome>>,
                 pc[r] \in {"reading", "sending_done"},
                 e = "TimeoutError" => clock[r] >= 1,
                 e = "CancelledError" => ~connected[r]
          PROVE  ClientInvOf(q)'
      <4>1. /\ pc'[r] = "closing" /\ exc'[r] = e /\ last[r] \in {"none", "data", "done"}
            /\ route'[r] = route[r] /\ clock'[r] = clock[r] /\ connected'[r] = connected[r]
            /\ last'[r] = last[r] /\ outcome'[r] = outcome[r]
        BY <1>0, <2>2, <3>3 DEF BeginClose
      <4>2. QED
        BY <1>0, <1>1, <2>2, <3>3, <4>1
    <3>4. CASE UpstreamEnds(r) \/ DeadlineInRead(r) \/ CancelInRead(r)
      BY <3>3, <3>4 DEF UpstreamEnds, DeadlineInRead, CancelInRead, TimerDue
    <3>5. ASSUME NEW e \in UpstreamErrors, UpstreamFails(r, e) PROVE ClientInvOf(q)'
      BY <3>3, <3>5 DEF UpstreamFails, UpstreamErrors
    <3>6. CASE SendReturns(r)
      <4>0. /\ exc'[r] = exc[r] \/ DoneSent(r)
            /\ route'[r] = route[r] /\ clock'[r] = clock[r] /\ connected'[r] = connected[r]
        BY <3>6 DEF SendReturns, ContentSent, FinalSent, ErrorSent, ErrorDoneSent
      <4>1. CASE ContentSent(r) \/ FinalSent(r) \/ ErrorSent(r) \/ ErrorDoneSent(r)
        <5>1. CASE ContentSent(r)
          BY <1>0, <1>1, <2>2, <4>0, <5>1 DEF ContentSent
        <5>2. CASE FinalSent(r) \/ ErrorSent(r)
          BY <1>0, <1>1, <2>2, <4>0, <5>2 DEF FinalSent, ErrorSent, Emit
        <5>3. CASE ErrorDoneSent(r)
          BY <1>0, <1>1, <2>2, <4>0, <5>3 DEF ErrorDoneSent, Finish
        <5>4. QED
          BY <4>1, <5>1, <5>2, <5>3
      <4>2. CASE DoneSent(r)
        <5>1. CASE BeginClose(r, "none") /\ UNCHANGED <<last, outcome>>
          BY <3>3, <3>6, <4>2, <5>1 DEF SendReturns, DoneSent
        <5>2. CASE Finish(r, outcome[r]) /\ UNCHANGED <<exc, last>>
          <6>1. /\ pc'[r] = "done" /\ outcome'[r] = outcome[r]
                /\ last'[r] = "done" /\ last[r] = "done" /\ exc'[r] = exc[r]
            BY <1>0, <2>2, <4>2, <5>2 DEF DoneSent, Finish
          <6>2. QED
            BY <1>0, <1>1, <2>2, <4>0, <4>2, <6>1
        <5>3. QED
          BY <4>2, <5>1, <5>2 DEF DoneSent
      <4>3. QED
        BY <3>6, <4>1, <4>2 DEF SendReturns
    <3>7. CASE AbandonByTimer(r) \/ AbandonByDisconnect(r)
      BY <1>0, <1>1, <2>2, <3>7
      DEF AbandonByTimer, AbandonByDisconnect, Abandon, TimerDue, TimedSends, ErrorSends
    <3>8. QED
      BY <1>4, <3>1, <3>2, <3>4, <3>5, <3>6, <3>7 DEF Body
  <2>3. QED
    BY <2>1, <2>2
<1>5. ASSUME NEW r \in Requests, Closing(r) PROVE ClientInvOf(q)'
  <2>1. CASE q # r
    BY <1>0, <1>5, <2>1, ClientUntouched
    DEF TypeOK, Closing, CloseReturns, CloseRaises, InterruptClose, Continue,
        Finalize, FinalizerCloses, FinalizerRaises, Emit, Finish
  <2>2. CASE q = r
    <3>1. CASE CloseReturns(r)
      <4>1. exc[r] \in Reported \cup {"none", "CancelledError"}
        BY DEF TypeOK
      <4>2. QED
        BY <1>0, <2>2, <3>1, <4>1, ContinueClient DEF CloseReturns, ClientInvOf
    <3>2. CASE CloseRaises(r)
      BY <1>0, <2>2, <3>2, ContinueClient DEF CloseRaises, Reported, UpstreamErrors
    <3>3. CASE InterruptClose(r)
      <4>1. TimerDue(r) => clock[r] >= 1
        BY DEF TimerDue
      <4>2. QED
        BY <1>0, <2>2, <3>3, <4>1, ContinueClient DEF InterruptClose, Reported
    <3>4. CASE Finalize(r) \/ FinalizerCloses(r) \/ FinalizerRaises(r)
      BY <1>0, <1>1, <2>2, <3>4
      DEF TypeOK, ClientInvOf, Finalize, FinalizerCloses, FinalizerRaises, Finish
    <3>5. QED
      BY <1>5, <3>1, <3>2, <3>3, <3>4 DEF Closing
  <2>3. QED
    BY <2>1, <2>2
<1>6. ASSUME NEW r \in Requests, Tick(r) \/ Disconnect(r) PROVE ClientInvOf(q)'
  <2>1. clock'[q] >= clock[q] /\ (connected'[q] => connected[q])
    BY <1>6 DEF Tick, Disconnect, TypeOK
  <2>2. clock[q] \in Nat /\ clock'[q] \in Nat
    BY <1>6 DEF Tick, Disconnect, TypeOK
  <2>3. UNCHANGED <<pc, route, exc, last, outcome>>
    BY <1>6 DEF Tick, Disconnect
  <2>4. QED
    BY <1>0, <1>1, <2>1, <2>2, <2>3 DEF ClientInvOf
<1>7. QED
  BY <1>2, <1>3, <1>4, <1>5, <1>6 DEF Next, AllSettled

LEMMA ClientInvHolds == Spec => []ClientInv
<1>1. Init => ClientInv
  BY FailureOutcomes DEF Init, ClientInv, ClientInvOf
<1>2. QED
  BY <1>1, ClientStep, TypeCorrect, PTL DEF Spec

\* No interleaving of timers, failing closes and cancellations ends a body
\* with a reported error, and a client that stayed, with anything but [DONE].
THEOREM ErrorsEndWithDone == Spec => []ErrorBodiesEndWithDone
<1>1. ClientInv => ErrorBodiesEndWithDone
  BY DEF ClientInv, ClientInvOf, ErrorBodiesEndWithDone, Failures
<1>2. QED
  BY <1>1, ClientInvHolds, PTL

\* The log blames the deadline only when it has passed and the client only
\* when it is gone.
THEOREM LogNamesCause == Spec => []OutcomeNamesCause
<1>1. ClientInv => OutcomeNamesCause
  BY DEF ClientInv, ClientInvOf, OutcomeNamesCause
<1>2. QED
  BY <1>1, ClientInvHolds, PTL

\* No content is sent after an error frame or a [DONE].
THEOREM EndIsEnd == Spec => NoContentAfterEnd
<1> DEFINE Ended == {"error", "done"}
<1>1. TypeOK /\ ClientInv /\ [Next]_vars
        => [\A r \in Requests : last[r] \in Ended => last'[r] \in Ended]_vars
  <2> SUFFICES ASSUME TypeOK, ClientInv, Next, NEW q \in Requests, last[q] \in Ended
               PROVE  last'[q] \in Ended
    OBVIOUS
  <2>0. ClientInvOf(q)
    BY DEF ClientInv
  <2>1. ASSUME NEW r \in Requests, NEW where, NEW frame \in Ended, Emit(r, where, frame)
        PROVE  last'[q] \in Ended
    BY <2>1 DEF Emit, TypeOK
  <2>2. ASSUME NEW r \in Requests, Handler(r) PROVE last'[q] = last[q]
    BY <2>2 DEF Handler, Refuse, Invalid, Admit, CreateFails, CreateTimesOut,
                AnswerJson, HandOff
  <2>3. ASSUME NEW r \in Requests, Body(r) PROVE last'[q] \in Ended
    <3>1. ASSUME NEW frame, UpstreamChunk(r) \/ UpstreamTerminal(r, frame)
          PROVE  last'[q] \in Ended
      BY <2>0, <3>1 DEF UpstreamChunk, UpstreamTerminal, Emit, ClientInvOf, TypeOK
    <3>2. CASE \/ StartBody(r) \/ StartBodyLate(r) \/ UpstreamEnds(r)
               \/ DeadlineInRead(r) \/ CancelInRead(r) \/ SendReturns(r)
               \/ AbandonByTimer(r) \/ AbandonByDisconnect(r)
      BY <2>1, <3>2 DEF StartBody, StartBodyLate, UpstreamEnds, DeadlineInRead,
         CancelInRead, SendReturns, ContentSent, FinalSent, DoneSent, ErrorSent,
         ErrorDoneSent, AbandonByTimer, AbandonByDisconnect, Abandon
    <3>3. ASSUME NEW e, UpstreamFails(r, e) PROVE last'[q] \in Ended
      BY <3>3 DEF UpstreamFails
    <3>4. QED
      BY <2>3, <3>1, <3>2, <3>3 DEF Body
  <2>4. ASSUME NEW r \in Requests, Closing(r) PROVE last'[q] \in Ended
    <3>1. ASSUME NEW e, Continue(r, e) PROVE last'[q] \in Ended
      BY <2>1, <3>1 DEF Continue
    <3>2. QED
      BY <2>4, <3>1 DEF Closing, CloseReturns, CloseRaises, InterruptClose,
         Finalize, FinalizerCloses, FinalizerRaises
  <2>5. QED
    BY <2>2, <2>3, <2>4 DEF Next, Tick, Disconnect, AllSettled, vars
<1>2. QED
  BY <1>1, ClientInvHolds, TypeCorrect, PTL DEF Spec, NoContentAfterEnd

-----------------------------------------------------------------------------
(* GatewayRuntime implements Admission.  The holders are the requests that *)
(* are inside, so the limiter's count is what Admission decides by.        *)

LEMMA InsideIsHolders == TypeOK => A!Inside = Holders
BY DEF A!Inside, Holders, phaseBar

LEMMA RoomIsCount == TypeOK /\ SlotInv => (A!Room <=> CanAcquire)
<1>1. A!Cardinality(Holders) = Cardinality(Holders)
  BY DEF A!Cardinality, Cardinality
<1>2. QED
  BY <1>1, InsideIsHolders DEF A!Room, CanAcquire, SlotInv, SlotAccounting

\* How a step of one request changes the phases.
LEMMA PhaseStep ==
  ASSUME TypeOK, NEW r \in Requests, NEW p \in PCs, NEW ph,
         pc' = [pc EXCEPT ![r] = p],
         \A q \in Requests \ {r} : outcome'[q] = outcome[q],
         ph = CASE p = "idle" -> "waiting"
                [] p = "done" /\ outcome'[r] = "busy" -> "refused"
                [] p = "done" /\ outcome'[r] # "busy" -> "out"
                [] OTHER -> "inside"
  PROVE  phaseBar' = [phaseBar EXCEPT ![r] = ph]
<1>1. ASSUME NEW q \in Requests PROVE phaseBar'[q] = IF q = r THEN ph ELSE phaseBar[q]
  <2>1. CASE q = r
    <3>1. pc'[q] = p
      BY <2>1 DEF TypeOK
    <3>2. QED
      BY <2>1, <3>1 DEF phaseBar
  <2>2. CASE q # r
    <3>1. pc'[q] = pc[q] /\ outcome'[q] = outcome[q]
      BY <2>2 DEF TypeOK
    <3>2. QED
      BY <2>2, <3>1 DEF phaseBar
  <2>3. QED
    BY <2>1, <2>2
<1>2. phaseBar' = [q \in Requests |-> phaseBar'[q]]
  BY DEF phaseBar
<1>3. phaseBar = [q \in Requests |-> phaseBar[q]]
  BY DEF phaseBar
<1>4. QED
  BY <1>1, <1>2, <1>3, Zenon

\* A holder that goes on is still inside.
LEMMA PhaseKept ==
  ASSUME TypeOK, NEW r \in Holders, NEW p \in PCs \ {"idle", "done"},
         pc' = [pc EXCEPT ![r] = p],
         \A q \in Requests \ {r} : outcome'[q] = outcome[q]
  PROVE  phaseBar' = phaseBar
<1>1. r \in Requests /\ phaseBar[r] = "inside"
  BY DEF phaseBar, Holders
<1>2. phaseBar' = [phaseBar EXCEPT ![r] = "inside"]
  BY <1>1, PhaseStep
<1>3. QED
  BY <1>1, <1>2 DEF phaseBar

\* A holder that is over leaves.
LEMMA PhaseLeaves ==
  ASSUME TypeOK, NEW r \in Holders, NEW how, Finish(r, how), how # "busy"
  PROVE  A!Leave(r)
<1>1. r \in Requests /\ phaseBar[r] = "inside"
  BY DEF phaseBar, Holders
<1>2. outcome'[r] = how /\ \A q \in Requests \ {r} : outcome'[q] = outcome[q]
  BY <1>1 DEF Finish, TypeOK
<1>3. phaseBar' = [phaseBar EXCEPT ![r] = "out"]
  BY <1>1, <1>2, PhaseStep DEF Finish, PCs
<1>4. QED
  BY <1>1, <1>3 DEF A!Leave

LEMMA ContinuePhase ==
  ASSUME TypeOK, StreamInv, NEW r \in Holders, NEW e, Continue(r, e)
  PROVE  A!Leave(r) \/ phaseBar' = phaseBar
<1>1. outcome[r] # "busy"
  BY DEF StreamInv, StreamInvOf, Holders
<1>2. CASE Finish(r, outcome[r]) \/ Finish(r, "client_disconnect")
  BY <1>1, <1>2, PhaseLeaves
<1>3. CASE Emit(r, "sending_done", "done") /\ UNCHANGED outcome
  BY <1>3, PhaseKept DEF Emit, PCs, TimedSends
<1>4. CASE Emit(r, "error", "error") /\ outcome' = [outcome EXCEPT ![r] = OutcomeOf[e]]
  <2>1. \A q \in Requests \ {r} : outcome'[q] = outcome[q]
    BY <1>4 DEF TypeOK
  <2>2. QED
    BY <1>4, <2>1, PhaseKept DEF Emit, PCs, ErrorSends
<1>5. QED
  BY <1>2, <1>3, <1>4 DEF Continue

\* Every step of the gateway is a step of Admission or leaves the phases alone.
LEMMA AdmissionStep ==
  TypeOK /\ SlotInv /\ StreamInv /\ [Next]_vars => [A!Next]_phaseBar
<1> SUFFICES ASSUME TypeOK, SlotInv, StreamInv, [Next]_vars
             PROVE  A!Next \/ phaseBar' = phaseBar
  OBVIOUS
<1>0. ASSUME UNCHANGED <<pc, outcome>> PROVE phaseBar' = phaseBar
  BY <1>0 DEF phaseBar
<1>1. ASSUME NEW r \in Requests, A!Leave(r) PROVE A!Next
  BY <1>1 DEF A!Next
<1>2. ASSUME NEW r \in Requests, Handler(r) PROVE A!Next \/ phaseBar' = phaseBar
  <2>1. CASE Refuse(r)
    <3>1. phaseBar[r] = "waiting" /\ ~A!Room
      BY <2>1, RoomIsCount DEF Refuse, phaseBar
    <3>2. outcome'[r] = "busy" /\ \A q \in Requests \ {r} : outcome'[q] = outcome[q]
      BY <2>1 DEF Refuse, TypeOK
    <3>3. phaseBar' = [phaseBar EXCEPT ![r] = "refused"]
      BY <2>1, <3>2, PhaseStep DEF Refuse, PCs
    <3>4. QED
      BY <3>1, <3>3 DEF A!Next, A!Refuse
  <2>2. CASE Invalid(r)
    <3>1. phaseBar[r] = "waiting" /\ A!Room
      BY <2>2, RoomIsCount DEF Invalid, phaseBar
    <3>2. outcome'[r] # "busy" /\ \A q \in Requests \ {r} : outcome'[q] = outcome[q]
      BY <2>2 DEF Invalid, TypeOK
    <3>3. phaseBar' = [phaseBar EXCEPT ![r] = "out"]
      BY <2>2, <3>2, PhaseStep DEF Invalid, PCs
    <3>4. QED
      BY <3>1, <3>3 DEF A!Next, A!TurnAway
  <2>3. ASSUME NEW way \in Routes, Admit(r, way) PROVE A!Next
    <3>1. phaseBar[r] = "waiting" /\ A!Room
      BY <2>3, RoomIsCount DEF Admit, phaseBar
    <3>2. phaseBar' = [phaseBar EXCEPT ![r] = "inside"]
      BY <2>3, PhaseStep DEF Admit, PCs
    <3>3. QED
      BY <3>1, <3>2 DEF A!Next, A!Enter
  <2>4. ASSUME pc[r] = "creating" PROVE r \in Holders
    BY <2>4 DEF Holders
  <2>5. CASE CreateFails(r) \/ CreateTimesOut(r) \/ AnswerJson(r)
    BY <1>1, <2>4, <2>5, PhaseLeaves DEF CreateFails, CreateTimesOut, AnswerJson
  <2>6. CASE HandOff(r)
    BY <2>4, <2>6, PhaseKept DEF HandOff, PCs
  <2>7. QED
    BY <1>2, <2>1, <2>2, <2>3, <2>5, <2>6 DEF Handler
<1>3. ASSUME NEW r \in Requests, Body(r) PROVE A!Next \/ phaseBar' = phaseBar
  <2> USE DEF PCs, TimedSends, ErrorSends
  <2>0. r \in Holders /\ outcome[r] # "busy"
    BY <1>3 DEF Body, Holders, StartBody, StartBodyLate, UpstreamChunk,
                UpstreamTerminal, UpstreamEnds, UpstreamFails, DeadlineInRead,
                CancelInRead, SendReturns,
                ContentSent, FinalSent, DoneSent, ErrorSent, ErrorDoneSent,
                AbandonByTimer, AbandonByDisconnect,
                StreamInv, StreamInvOf
  <2>1. CASE StartBody(r) \/ StartBodyLate(r)
    <3>1. \A q \in Requests \ {r} : outcome'[q] = outcome[q]
      BY <2>1 DEF StartBody, StartBodyLate, TypeOK
    <3>2. QED
      BY <2>0, <2>1, <3>1, PhaseKept DEF StartBody, StartBodyLate, BeginClose, Emit
  <2>2. ASSUME NEW frame, UpstreamChunk(r) \/ UpstreamTerminal(r, frame)
        PROVE  phaseBar' = phaseBar
    BY <2>0, <2>2, PhaseKept DEF UpstreamChunk, UpstreamTerminal, Emit
  <2>3. ASSUME NEW e, BeginClose(r, e), UNCHANGED outcome PROVE phaseBar' = phaseBar
    BY <2>0, <2>3, PhaseKept DEF BeginClose
  <2>4. CASE UpstreamEnds(r) \/ DeadlineInRead(r) \/ CancelInRead(r)
    BY <2>3, <2>4 DEF UpstreamEnds, DeadlineInRead, CancelInRead
  <2>5. ASSUME NEW e, UpstreamFails(r, e) PROVE phaseBar' = phaseBar
    BY <2>3, <2>5 DEF UpstreamFails
  <2>6. CASE SendReturns(r)
    <3>1. CASE Finish(r, outcome[r])
      BY <1>1, <2>0, <3>1, PhaseLeaves
    <3>2. CASE BeginClose(r, "none") /\ UNCHANGED outcome
      BY <2>3, <3>2
    <3>3. CASE /\ \E p \in {"reading", "sending_done", "error_done"} :
                     pc' = [pc EXCEPT ![r] = p]
               /\ UNCHANGED outcome
      BY <2>0, <3>3, PhaseKept
    <3>4. QED
      BY <2>6, <3>1, <3>2, <3>3 DEF SendReturns,
                                    ContentSent, FinalSent, DoneSent, ErrorSent, ErrorDoneSent,
                                    Emit
  <2>7. CASE AbandonByTimer(r) \/ AbandonByDisconnect(r)
    BY <2>0, <2>7, PhaseKept DEF AbandonByTimer, AbandonByDisconnect, Abandon
  <2>8. QED
    BY <1>3, <2>1, <2>2, <2>4, <2>5, <2>6, <2>7 DEF Body
<1>4. ASSUME NEW r \in Requests, Closing(r) PROVE A!Next \/ phaseBar' = phaseBar
  <2>0. r \in Holders /\ outcome[r] # "busy"
    BY <1>4 DEF Closing, Holders, CloseReturns, CloseRaises, InterruptClose,
                Finalize, FinalizerCloses, FinalizerRaises, StreamInv, StreamInvOf
  <2>1. CASE CloseReturns(r) \/ CloseRaises(r) \/ InterruptClose(r)
    BY <1>1, <2>0, <2>1, ContinuePhase DEF CloseReturns, CloseRaises, InterruptClose
  <2>2. CASE Finalize(r)
    BY <1>1, <2>0, <2>2, PhaseKept, PhaseLeaves DEF Finalize, PCs
  <2>3. CASE FinalizerCloses(r)
    BY <1>1, <2>0, <2>3, PhaseLeaves DEF FinalizerCloses
  <2>4. CASE FinalizerRaises(r)
    BY <2>0, <2>4, PhaseKept DEF FinalizerRaises, PCs
  <2>5. QED
    BY <1>4, <2>1, <2>2, <2>3, <2>4 DEF Closing
<1>5. QED
  BY <1>0, <1>2, <1>3, <1>4 DEF Next, Tick, Disconnect, AllSettled, vars

\* The gateway implements the safety part of Admission: it never lets in
\* more than Capacity, refuses for want of room only when there is none, and
\* lets a request in at most once.
THEOREM Implements == Spec => ImplementsAdmission
<1>1. Init => A!Init
  BY DEF Init, A!Init, phaseBar
<1>2. QED
  BY <1>1, AdmissionStep, TypeCorrect, SlotInvHolds, StreamInvHolds, PTL
  DEF Spec, ImplementsAdmission, A!SafeSpec

-----------------------------------------------------------------------------
(* The deadline, and what goes wrong without it *)

\* A body that has not failed in the guard's sight has the outcome
\* "completed" still; a body is lost in the finalizer only if its client was gone or
\* its deadline had passed.
LossInvOf(r) ==
  /\ pc[r] \in {"reading", "closing", "finalizing", "leaked"} \cup TimedSends
       => outcome[r] = "completed"
  /\ pc[r] = "orphaned" /\ ~closed[r] => outcome[r] = "completed"
  /\ pc[r] = "leaked" => closed[r] /\ (~connected[r] \/ clock[r] >= 1)

LossInv == \A r \in Requests : LossInvOf(r)

LEMMA LossUntouched ==
  ASSUME NEW q \in Requests, LossInvOf(q),
         pc'[q] = pc[q], closed'[q] = closed[q], clock'[q] = clock[q],
         connected'[q] = connected[q], outcome'[q] = outcome[q]
  PROVE  LossInvOf(q)'
BY DEF LossInvOf

LEMMA LossStep ==
  TypeOK /\ StreamInv /\ ClientInv /\ LossInv /\ [Next]_vars => LossInv'
<1> SUFFICES ASSUME TypeOK, StreamInv, ClientInv, LossInv, [Next]_vars, NEW q \in Requests
             PROVE  LossInvOf(q)'
  BY DEF LossInv
<1> USE DEF TypeOK, TimedSends, ErrorSends
<1>0. LossInvOf(q) /\ StreamInvOf(q) /\ ClientInvOf(q)
  BY DEF LossInv, StreamInv, ClientInv
<1>1. CASE UNCHANGED vars
  BY <1>0, <1>1, LossUntouched DEF vars
<1>2. ASSUME NEW r \in Requests, Handler(r) PROVE LossInvOf(q)'
  <2>1. CASE q # r
    BY <1>0, <1>2, <2>1, LossUntouched
    DEF Handler, Refuse, Invalid, Admit, CreateFails, CreateTimesOut, AnswerJson, HandOff, Finish
  <2>2. pc'[r] \in {"done", "creating", "handoff"}
    BY <1>2 DEF Handler, Refuse, Invalid, Admit, CreateFails, CreateTimesOut, AnswerJson,
                HandOff, Finish
  <2>3. QED
    BY <2>1, <2>2 DEF LossInvOf
<1>3. ASSUME NEW r \in Requests, Body(r) PROVE LossInvOf(q)'
  <2>1. CASE q # r
    BY <1>0, <1>3, <2>1, LossUntouched
    DEF Body, StartBody, StartBodyLate, UpstreamChunk, UpstreamTerminal, UpstreamEnds,
        UpstreamFails, DeadlineInRead, CancelInRead, SendReturns,
        ContentSent, FinalSent, DoneSent, ErrorSent, ErrorDoneSent,
        AbandonByTimer, AbandonByDisconnect, Abandon, BeginClose, Emit, Finish
  <2>2. CASE q = r /\ (StartBody(r) \/ StartBodyLate(r))
    BY <2>2 DEF StartBody, StartBodyLate, BeginClose, Emit, LossInvOf
  <2>3. ASSUME q = r, pc[r] = "reading", UNCHANGED outcome,
               pc'[r] \in {"sending", "sending_final", "closing"}
        PROVE  LossInvOf(q)'
    BY <1>0, <2>3 DEF LossInvOf
  <2>4. CASE q = r /\ \/ UpstreamChunk(r)
                      \/ \E frame \in {"final", "error"} : UpstreamTerminal(r, frame)
                      \/ UpstreamEnds(r)
                      \/ \E e \in UpstreamErrors : UpstreamFails(r, e)
                      \/ DeadlineInRead(r) \/ CancelInRead(r)
    BY <2>3, <2>4 DEF UpstreamChunk, UpstreamTerminal, UpstreamEnds, UpstreamFails,
                      DeadlineInRead, CancelInRead, BeginClose, Emit
  <2>5. CASE q = r /\ SendReturns(r)
    BY <1>0, <2>5 DEF SendReturns, ContentSent, FinalSent, DoneSent, ErrorSent, ErrorDoneSent,
                      BeginClose, Emit, Finish, LossInvOf
  <2>6. CASE q = r /\ (AbandonByTimer(r) \/ AbandonByDisconnect(r))
    BY <1>0, <2>6 DEF AbandonByTimer, AbandonByDisconnect, Abandon, LossInvOf, StreamInvOf
  <2>7. QED
    BY <1>3, <2>1, <2>2, <2>4, <2>5, <2>6 DEF Body
<1>4. ASSUME NEW r \in Requests, Closing(r) PROVE LossInvOf(q)'
  <2>1. CASE q # r
    BY <1>0, <1>4, <2>1, LossUntouched
    DEF Closing, CloseReturns, CloseRaises, InterruptClose, Continue,
        Finalize, FinalizerCloses, FinalizerRaises, Emit, Finish
  <2>2. CASE q = r /\ (CloseReturns(r) \/ CloseRaises(r) \/ InterruptClose(r))
    <3>1. PICK e : Continue(r, e)
      BY <2>2 DEF CloseReturns, CloseRaises, InterruptClose
    <3>2. \/ pc'[r] \in {"done", "error"}
          \/ pc'[r] = "sending_done" /\ outcome'[r] = outcome[r]
      BY <3>1 DEF Continue, Emit, Finish
    <3>3. pc[r] = "closing"
      BY <2>2 DEF CloseReturns, CloseRaises, InterruptClose
    <3>4. QED
      BY <1>0, <2>2, <3>2, <3>3 DEF LossInvOf
  <2>3. CASE q = r /\ Finalize(r)
    BY <1>0, <2>3 DEF Finalize, Finish, LossInvOf
  <2>4. CASE q = r /\ (FinalizerCloses(r) \/ FinalizerRaises(r))
    BY <1>0, <2>4 DEF FinalizerCloses, FinalizerRaises, Finish,
                            LossInvOf, ClientInvOf, StreamInvOf
  <2>5. QED
    BY <1>4, <2>1, <2>2, <2>3, <2>4 DEF Closing
<1>5. ASSUME NEW r \in Requests, Tick(r) \/ Disconnect(r) PROVE LossInvOf(q)'
  BY <1>0, <1>5 DEF Tick, Disconnect, LossInvOf
<1>6. QED
  BY <1>1, <1>2, <1>3, <1>4, <1>5 DEF Next, AllSettled

LEMMA LossInvHolds == Spec => []LossInv
<1>1. Init => LossInv
  BY DEF Init, LossInv, LossInvOf, TimedSends
<1>2. QED
  BY <1>1, LossStep, TypeCorrect, StreamInvHolds, ClientInvHolds, PTL DEF Spec

\* Bodies are dropped, slots lost and streams left open only for the reasons
\* that the property names, with any number of requests.
THEOREM LossesExplained == Spec => []LossesHaveCauses
<1>1. TypeOK /\ StreamInv /\ ClientInv /\ LossInv => LossesHaveCauses
  <2> SUFFICES ASSUME TypeOK, StreamInv, ClientInv, LossInv, NEW r \in Requests
               PROVE  /\ pc[r] \in {"orphaned", "finalizing", "leaked"}
                           => ~connected[r] \/ clock[r] >= 1
                      /\ pc[r] = "leaked" => outcome[r] = "completed"
                      /\ pc[r] = "done" /\ upstream[r] \in {"pending", "open"}
                           => LateStart(r) /\ clock[r] >= 1
    BY DEF LossesHaveCauses
  <2>1. LossInvOf(r) /\ StreamInvOf(r) /\ ClientInvOf(r)
    BY DEF LossInv, StreamInv, ClientInv
  <2>2. QED
    BY <2>1 DEF LossInvOf, StreamInvOf, ClientInvOf, LateStart
<1>2. QED
  BY <1>1, TypeCorrect, StreamInvHolds, ClientInvHolds, LossInvHolds, PTL

\* The deadline has a step to take, wherever it finds the request: the safety
\* half of what the liveness property DeadlineStopsUpstream asks.
THEOREM DeadlineArmed == Spec => []DeadlineIsArmed
<1>1. TypeOK /\ StreamInv /\ LossInv => DeadlineIsArmed
  <2> SUFFICES ASSUME TypeOK, StreamInv, LossInv, NEW r \in Requests,
                      clock[r] >= 1, upstream[r] \in {"pending", "open"}
               PROVE  \/ pc[r] \in {"creating", "handoff"}
                      \/ TimerDue(r)
                      \/ pc[r] = "orphaned" /\ ~closed[r]
                      \/ LateStart(r)
    BY DEF DeadlineIsArmed
  <2>1. StreamInvOf(r) /\ LossInvOf(r)
    BY DEF StreamInv, LossInv
  <2>2. CASE closed[r]
    BY <2>1, <2>2 DEF StreamInvOf
  <2>3. CASE ~closed[r]
    <3>1. pc[r] \in {"creating", "handoff", "orphaned", "reading"} \cup TimedSends
      BY <2>1, <2>3 DEF StreamInvOf, LossInvOf, TypeOK, PCs, ErrorSends
    <3>2. QED
      BY <2>1, <2>3, <3>1 DEF StreamInvOf, StreamInUse, TimerDue, IterateArmed, TimedSends
  <2>4. QED
    BY <2>2, <2>3 DEF TypeOK
<1>2. QED
  BY <1>1, TypeCorrect, StreamInvHolds, LossInvHolds, PTL

\* A slot is lost for no other reason than a close that raises in the finalizer.
THEOREM OnlyClosesLoseSlots ==
  ASSUME ~CloseMayFail
  PROVE  Spec => []NoSlotWithoutRequest
<1>1. Init => NoSlotWithoutRequest
  BY DEF Init, NoSlotWithoutRequest
<1>2. TypeOK /\ NoSlotWithoutRequest /\ [Next]_vars => NoSlotWithoutRequest'
  <2> SUFFICES ASSUME TypeOK, NoSlotWithoutRequest, [Next]_vars, NEW q \in Requests
               PROVE  pc'[q] # "leaked"
    BY DEF NoSlotWithoutRequest
  <2> USE DEF TypeOK, NoSlotWithoutRequest
  <2>1. CASE UNCHANGED pc
    BY <2>1
  <2>2. ASSUME NEW r \in Requests, NEW p, p # "leaked", pc' = [pc EXCEPT ![r] = p]
        PROVE  pc'[q] # "leaked"
    BY <2>2
  <2>3. ASSUME NEW r \in Requests, NEW how, Finish(r, how) PROVE pc'[q] # "leaked"
    BY <2>2, <2>3 DEF Finish
  <2>4. ASSUME NEW r \in Requests, NEW e, Continue(r, e) PROVE pc'[q] # "leaked"
    BY <2>2, <2>3, <2>4 DEF Continue, Emit
  <2>5. ASSUME NEW r \in Requests, Handler(r) PROVE pc'[q] # "leaked"
    BY <2>2, <2>3, <2>5 DEF Handler, Refuse, Invalid, Admit, CreateFails, CreateTimesOut,
                            AnswerJson, HandOff
  <2>6. ASSUME NEW r \in Requests, Body(r) PROVE pc'[q] # "leaked"
    BY <2>2, <2>3, <2>6
    DEF Body, StartBody, StartBodyLate, UpstreamChunk, UpstreamTerminal, UpstreamEnds,
        UpstreamFails, DeadlineInRead, CancelInRead, SendReturns,
        ContentSent, FinalSent, DoneSent, ErrorSent, ErrorDoneSent,
        AbandonByTimer, AbandonByDisconnect, Abandon, BeginClose, Emit
  <2>7. ASSUME NEW r \in Requests, Closing(r) PROVE pc'[q] # "leaked"
    BY <2>2, <2>3, <2>4, <2>7
    DEF Closing, CloseReturns, CloseRaises, InterruptClose,
        Finalize, FinalizerCloses, FinalizerRaises
  <2>8. QED
    BY <2>1, <2>5, <2>6, <2>7 DEF Next, Tick, Disconnect, AllSettled, vars
<1>3. QED
  BY <1>1, <1>2, TypeCorrect, PTL DEF Spec

-----------------------------------------------------------------------------
(* Refinement: GatewayRuntime implements Custody *)

\* A step of one request changes what is owed for that request only.
LEMMA OwedForOne ==
  ASSUME NEW r \in Requests,
         \A q \in Requests : q # r => /\ pc'[q] = pc[q]
                                     /\ upstream'[q] = upstream[q]
                                     /\ closed'[q] = closed[q]
  PROVE  /\ slotBar' = [slotBar EXCEPT ![r] = slotBar'[r]]
         /\ streamBar' = [streamBar EXCEPT ![r] = streamBar'[r]]
<1>1. \A q \in Requests : q # r => slotBar'[q] = slotBar[q] /\ streamBar'[q] = streamBar[q]
  BY DEF slotBar, streamBar, GivenUp
<1>2. /\ slotBar = [q \in Requests |-> slotBar[q]]
      /\ slotBar' = [q \in Requests |-> slotBar'[q]]
  BY DEF slotBar
<1>3. /\ streamBar = [q \in Requests |-> streamBar[q]]
      /\ streamBar' = [q \in Requests |-> streamBar'[q]]
  BY DEF streamBar
<1>4. QED
  BY <1>1, <1>2, <1>3

LEMMA OwedAsBefore ==
  ASSUME NEW r \in Requests,
         slotBar' = [slotBar EXCEPT ![r] = slotBar'[r]],
         streamBar' = [streamBar EXCEPT ![r] = streamBar'[r]]
  PROVE  /\ slotBar'[r] = slotBar[r] => slotBar' = slotBar
         /\ streamBar'[r] = streamBar[r] => streamBar' = streamBar
<1>1. slotBar = [slotBar EXCEPT ![r] = slotBar[r]]
  BY DEF slotBar
<1>2. streamBar = [streamBar EXCEPT ![r] = streamBar[r]]
  BY DEF streamBar
<1>3. QED
  BY <1>1, <1>2

\* Requests that Custody sees in the care of the task, and what they owe.
LEMMA TaskOwes ==
  ASSUME TypeOK, StreamInv, NEW r \in Requests
  PROVE  /\ pc[r] \in {"creating", "handoff", "reading", "sending", "sending_final", "closing"}
              => slotBar[r] = "task" /\ streamBar[r] = "task"
         /\ pc[r] \in {"sending_done", "error", "error_done"}
              => slotBar[r] = "task" /\ streamBar[r] \in {"none", "nobody", "task"}
         /\ pc[r] \in {"sending_done", "error", "error_done"} /\ closed[r]
              => streamBar[r] \in {"none", "nobody"}
<1>1. StreamInvOf(r)
  BY DEF StreamInv
<1>2. QED
  BY <1>1 DEF StreamInvOf, StreamInUse, TypeOK, Upstreams, slotBar, streamBar, GivenUp, LateStart

\* The end of a request whose task owes the slot: nothing of what it owes stays.
LEMMA TaskLeaves ==
  ASSUME NEW r \in Requests,
         slotBar' = [slotBar EXCEPT ![r] = "free"], slotBar[r] = "task",
         streamBar' = [streamBar EXCEPT ![r] = streamBar'[r]],
         IF streamBar[r] = "task" THEN streamBar'[r] \in {"none", "nobody"}
                                  ELSE streamBar'[r] = streamBar[r]
  PROVE  C!Next
<1>1. CASE streamBar[r] = "task"
  <2>1. C!Leave(r)
    BY <1>1 DEF C!Leave, C!Slot, C!Stream
  <2>2. QED
    BY <2>1 DEF C!Next
<1>2. CASE streamBar[r] # "task"
  <2>1. streamBar' = streamBar
    BY <1>2 DEF streamBar
  <2>2. C!Leave(r)
    BY <1>2, <2>1 DEF C!Leave, C!Slot
  <2>3. QED
    BY <2>2 DEF C!Next
<1>3. QED
  BY <1>1, <1>2

\* A step within the task's care that ends the use of the stream, if it was in use.
LEMMA TaskCloses ==
  ASSUME NEW r \in Requests,
         slotBar' = slotBar, slotBar[r] = "task", streamBar[r] = "task",
         streamBar' = [streamBar EXCEPT ![r] = streamBar'[r]],
         streamBar'[r] \in {"none", "nobody"}
  PROVE  C!Next
BY DEF C!Next, C!Close, C!Stream

\* What follows a close: the task goes on without the stream, or is over.
LEMMA ContinueOwes ==
  ASSUME TypeOK, StreamInv, NEW r \in Requests, pc[r] = "closing", NEW e, Continue(r, e),
         NEW u \in {"closing", "closed"}, upstream' = [upstream EXCEPT ![r] = u],
         UNCHANGED closed
  PROVE  C!Next
<1>1. slotBar[r] = "task" /\ streamBar[r] = "task"
  BY TaskOwes
<1>2. PICK p \in {"sending_done", "error", "done"} : pc' = [pc EXCEPT ![r] = p]
  BY DEF Continue, Emit, Finish
<1>3. /\ slotBar' = [slotBar EXCEPT ![r] = slotBar'[r]]
      /\ streamBar' = [streamBar EXCEPT ![r] = streamBar'[r]]
  BY <1>2, OwedForOne DEF TypeOK
<1>4. pc'[r] = p /\ upstream'[r] = u
  BY <1>2 DEF TypeOK
<1>5. streamBar'[r] \in {"none", "nobody"}
  BY <1>4 DEF streamBar, GivenUp
<1>6. CASE p = "done"
  <2>1. slotBar'[r] = "free"
    BY <1>4, <1>6 DEF slotBar
  <2>2. QED
    BY <1>1, <1>3, <1>5, <2>1, TaskLeaves
<1>7. CASE p \in {"sending_done", "error"}
  <2>1. slotBar'[r] = "task"
    BY <1>4, <1>7 DEF slotBar
  <2>2. slotBar' = slotBar
    BY <1>1, <1>3, <2>1, OwedAsBefore
  <2>3. QED
    BY <1>1, <1>3, <1>5, <2>2, TaskCloses
<1>8. QED
  BY <1>6, <1>7

\* Every step of the gateway hands on what is owed as Custody says.
LEMMA CustodyStep == TypeOK /\ StreamInv /\ [Next]_vars => [C!Next]_(C!vars)
<1> SUFFICES ASSUME TypeOK, StreamInv, [Next]_vars
             PROVE  C!Next \/ UNCHANGED <<slotBar, streamBar>>
  BY DEF C!vars
<1>0. ASSUME UNCHANGED <<pc, upstream, closed>> PROVE UNCHANGED <<slotBar, streamBar>>
  BY <1>0 DEF slotBar, streamBar, GivenUp
<1>1. ASSUME NEW r \in Requests, slotBar'[r] = slotBar[r], streamBar'[r] = streamBar[r],
             slotBar' = [slotBar EXCEPT ![r] = slotBar'[r]],
             streamBar' = [streamBar EXCEPT ![r] = streamBar'[r]]
      PROVE  UNCHANGED <<slotBar, streamBar>>
  BY <1>1, OwedAsBefore
<1>2. ASSUME NEW r \in Requests, Handler(r) PROVE C!Next \/ UNCHANGED <<slotBar, streamBar>>
  <2>1. /\ slotBar' = [slotBar EXCEPT ![r] = slotBar'[r]]
        /\ streamBar' = [streamBar EXCEPT ![r] = streamBar'[r]]
    BY <1>2, OwedForOne DEF Handler, Refuse, Invalid, Admit, CreateFails, CreateTimesOut,
       AnswerJson, HandOff, Finish, TypeOK
  <2>2. pc[r] = "idle" => /\ slotBar[r] = "free" /\ streamBar[r] = "none"
                          /\ upstream[r] = "none" /\ ~closed[r]
    BY DEF StreamInv, StreamInvOf, slotBar, streamBar
  <2>3. CASE Refuse(r) \/ Invalid(r)
    <3>1. slotBar'[r] = "free" /\ streamBar'[r] = "none"
      BY <2>2, <2>3 DEF Refuse, Invalid, TypeOK, slotBar, streamBar
    <3>2. QED
      BY <1>1, <2>1, <2>2, <2>3, <3>1 DEF Refuse, Invalid
  <2>4. ASSUME NEW way \in Routes, Admit(r, way) PROVE C!Next
    <3>1. slotBar'[r] = "task" /\ streamBar'[r] = "task"
      BY <2>2, <2>4 DEF Admit, TypeOK, slotBar, streamBar, GivenUp
    <3>2. C!Enter(r)
      BY <2>1, <2>2, <2>4, <3>1 DEF Admit, C!Enter, C!Slot, C!Stream
    <3>3. QED
      BY <3>2 DEF C!Next
  <2>5. CASE CreateFails(r) \/ CreateTimesOut(r) \/ AnswerJson(r)
    <3>1. slotBar[r] = "task" /\ streamBar[r] = "task"
      BY <2>5, TaskOwes DEF CreateFails, CreateTimesOut, AnswerJson
    <3>2. slotBar'[r] = "free" /\ streamBar'[r] = "none"
      BY <2>5 DEF CreateFails, CreateTimesOut, AnswerJson, Finish, TypeOK, slotBar, streamBar
    <3>3. QED
      BY <2>1, <3>1, <3>2, TaskLeaves
  <2>6. CASE HandOff(r)
    <3>1. slotBar[r] = "task" /\ streamBar[r] = "task"
      BY <2>6, TaskOwes DEF HandOff
    <3>2. slotBar'[r] = "task" /\ streamBar'[r] = "task"
      BY <2>6 DEF HandOff, TypeOK, StreamInv, StreamInvOf, slotBar, streamBar, GivenUp
    <3>3. QED
      BY <1>1, <2>1, <3>1, <3>2
  <2>7. QED
    BY <1>2, <2>3, <2>4, <2>5, <2>6 DEF Handler
<1>3. ASSUME NEW r \in Requests, Body(r) PROVE C!Next \/ UNCHANGED <<slotBar, streamBar>>
  <2> USE DEF TypeOK, TimedSends, ErrorSends
  <2>1. /\ slotBar' = [slotBar EXCEPT ![r] = slotBar'[r]]
        /\ streamBar' = [streamBar EXCEPT ![r] = streamBar'[r]]
    BY <1>3, OwedForOne
    DEF Body, StartBody, StartBodyLate, UpstreamChunk, UpstreamTerminal, UpstreamEnds,
        UpstreamFails, DeadlineInRead, CancelInRead, SendReturns,
        ContentSent, FinalSent, DoneSent, ErrorSent, ErrorDoneSent,
        AbandonByTimer, AbandonByDisconnect, Abandon, BeginClose, Emit, Finish
  <2>2. StreamInvOf(r)
    BY DEF StreamInv
  <2>3. ASSUME pc[r] \in {"handoff", "reading", "sending", "sending_final"} \/
                 (pc[r] = "sending_done" /\ ~closed[r]),
               \/ /\ pc'[r] \in {"reading", "sending", "sending_final", "sending_done"}
                  /\ upstream'[r] = upstream[r] /\ closed'[r] = closed[r]
               \/ pc'[r] = "closing" /\ upstream'[r] = "closing"
        PROVE  UNCHANGED <<slotBar, streamBar>>
    <3>1. StreamInUse(r)
      BY <2>2, <2>3 DEF StreamInvOf
    <3>2. /\ slotBar[r] = "task" /\ streamBar[r] = "task"
          /\ slotBar'[r] = "task" /\ streamBar'[r] = "task"
      BY <2>3, <3>1 DEF StreamInUse, slotBar, streamBar, GivenUp
    <3>3. QED
      BY <1>1, <2>1, <3>2
  <2>4. CASE \/ StartBody(r) \/ UpstreamChunk(r) \/ ContentSent(r) \/ FinalSent(r)
             \/ \E frame \in {"final", "error"} : UpstreamTerminal(r, frame)
    BY <2>3, <2>4 DEF StartBody, UpstreamChunk, UpstreamTerminal, ContentSent, FinalSent, Emit
  <2>5. CASE \/ UpstreamEnds(r) \/ DeadlineInRead(r) \/ CancelInRead(r)
             \/ \E e \in UpstreamErrors : UpstreamFails(r, e)
    BY <2>3, <2>5 DEF UpstreamEnds, DeadlineInRead, CancelInRead, UpstreamFails, BeginClose
  <2>6. CASE StartBodyLate(r)
    <3>1. CASE route[r] = "native"
      BY <2>2, <2>3, <2>6, <3>1 DEF StartBodyLate, BeginClose
    <3>2. CASE route[r] = "responses"
      <4>1. slotBar[r] = "task" /\ streamBar[r] = "task" /\ upstream[r] = "open"
        BY <2>2, <2>6, TaskOwes DEF StartBodyLate, StreamInvOf, StreamInUse
      <4>2. slotBar'[r] = "task" /\ streamBar'[r] = "nobody"
        BY <2>6, <3>2, <4>1 DEF StartBodyLate, Emit, slotBar, streamBar, GivenUp
      <4>3. QED
        BY <2>1, <4>1, <4>2, OwedAsBefore, TaskCloses
    <3>3. QED
      BY <2>6, <3>1, <3>2 DEF StartBodyLate
  <2>7. CASE DoneSent(r) /\ route[r] = "responses"
    BY <2>2, <2>3, <2>7 DEF DoneSent, BeginClose, StreamInvOf, StreamInUse
  <2>8. CASE (DoneSent(r) /\ route[r] = "native") \/ ErrorDoneSent(r)
    <3>1. closed[r] /\ pc[r] \in {"sending_done", "error_done"}
      BY <2>2, <2>8 DEF DoneSent, ErrorDoneSent, StreamInvOf
    <3>2. slotBar[r] = "task" /\ streamBar[r] \in {"none", "nobody"}
      BY <3>1, TaskOwes
    <3>3. slotBar'[r] = "free" /\ streamBar'[r] = streamBar[r]
      BY <2>2, <2>8, <3>1, <3>2 DEF DoneSent, ErrorDoneSent, Finish, StreamInvOf,
         slotBar, streamBar, GivenUp
    <3>4. QED
      BY <2>1, <3>2, <3>3, TaskLeaves
  <2>9. CASE ErrorSent(r)
    <3>1. closed[r]
      BY <2>2, <2>9 DEF ErrorSent, StreamInvOf
    <3>2. slotBar'[r] = slotBar[r] /\ streamBar'[r] = streamBar[r]
      BY <2>9, <3>1 DEF ErrorSent, Emit, slotBar, streamBar, GivenUp
    <3>3. QED
      BY <1>1, <2>1, <3>2
  <2>10. CASE AbandonByTimer(r) \/ AbandonByDisconnect(r)
    <3>1. /\ pc[r] \in TimedSends \cup ErrorSends /\ pc'[r] = "orphaned"
          /\ upstream' = upstream /\ closed' = closed
      BY <2>10 DEF AbandonByTimer, AbandonByDisconnect, Abandon
    <3>2. slotBar[r] = "task" /\ slotBar'[r] = "finalizer"
      BY <3>1 DEF slotBar
    <3>3. IF streamBar[r] = "task" THEN streamBar'[r] = "finalizer"
                                   ELSE streamBar'[r] = streamBar[r]
      BY <3>1, <3>2 DEF streamBar, GivenUp
    <3>4. C!Drop(r)
      BY <2>1, <3>2, <3>3, OwedAsBefore DEF C!Drop, C!Slot, C!Stream
    <3>5. QED
      BY <3>4 DEF C!Next
  <2>11. QED
    BY <1>3, <2>4, <2>5, <2>6, <2>7, <2>8, <2>9, <2>10 DEF Body, SendReturns, DoneSent
<1>4. ASSUME NEW r \in Requests, Closing(r) PROVE C!Next \/ UNCHANGED <<slotBar, streamBar>>
  <2>1. CASE CloseReturns(r) \/ CloseRaises(r) \/ InterruptClose(r)
    <3>1. PICK u \in {"closing", "closed"}, e \in Reported \cup {"none", "CancelledError"} :
            /\ pc[r] = "closing" /\ Continue(r, e) /\ UNCHANGED closed
            /\ upstream' = [upstream EXCEPT ![r] = u]
      BY <2>1 DEF CloseReturns, CloseRaises, InterruptClose, TypeOK, Reported, UpstreamErrors
    <3>2. QED
      BY <3>1, ContinueOwes
  <2>2. ASSUME Finalize(r) \/ FinalizerCloses(r) \/ FinalizerRaises(r)
        PROVE  /\ slotBar' = [slotBar EXCEPT ![r] = slotBar'[r]]
               /\ streamBar' = [streamBar EXCEPT ![r] = streamBar'[r]]
    BY <2>2, OwedForOne
    DEF Finalize, FinalizerCloses, FinalizerRaises, Finish, TypeOK
  <2>3. StreamInvOf(r)
    BY DEF StreamInv
  <2> USE DEF TypeOK
  <2>4. CASE Finalize(r) /\ closed[r]
    <3>1. slotBar[r] = "finalizer" /\ slotBar'[r] = "free"
      BY <2>4 DEF Finalize, Finish, slotBar
    <3>2. streamBar[r] # "finalizer" /\ streamBar'[r] = streamBar[r]
      BY <2>4 DEF Finalize, Finish, Upstreams, streamBar, slotBar, GivenUp
    <3>3. QED
      BY <2>2, <2>4, <3>1, <3>2, OwedAsBefore DEF C!Next, C!Finalize, C!Slot
  <2>5. CASE Finalize(r) /\ ~closed[r]
    <3>1. /\ slotBar[r] = "finalizer" /\ streamBar[r] = "finalizer"
          /\ slotBar'[r] = "finalizer" /\ streamBar'[r] = "finalizer"
      BY <2>3, <2>5 DEF Finalize, StreamInvOf, StreamInUse, streamBar, slotBar, GivenUp
    <3>2. QED
      BY <1>1, <2>2, <2>5, <3>1
  <2>6. CASE FinalizerCloses(r) \/ FinalizerRaises(r)
    <3>1. slotBar[r] = "finalizer" /\ streamBar[r] = "finalizer"
      BY <2>3, <2>6 DEF FinalizerCloses, FinalizerRaises, StreamInvOf, streamBar, slotBar, GivenUp
    <3>2. CASE FinalizerCloses(r)
      <4>1. slotBar'[r] = "free" /\ streamBar'[r] = "none"
        BY <3>2 DEF FinalizerCloses, Finish, streamBar, slotBar
      <4>2. QED
        BY <2>2, <3>1, <3>2, <4>1 DEF C!Next, C!Finalize, C!Slot, C!Stream
    <3>3. CASE FinalizerRaises(r)
      <4>1. slotBar'[r] = "lost" /\ streamBar'[r] \in {"none", "nobody"}
        BY <3>3 DEF FinalizerRaises, streamBar, slotBar, GivenUp
      <4>2. QED
        BY <2>2, <3>1, <3>3, <4>1 DEF C!Next, C!Lose, C!Slot, C!Stream
    <3>4. QED
      BY <2>6, <3>2, <3>3
  <2>7. QED
    BY <1>4, <2>1, <2>4, <2>5, <2>6 DEF Closing
<1>5. QED
  BY <1>0, <1>2, <1>3, <1>4 DEF Next, Tick, Disconnect, AllSettled, vars

\* At every moment one party owes the release of a request's slot, and the same
\* one the close of its stream, but for the streams that are given up and the
\* slots that are lost; and they are handed on together.
THEOREM CustodyKept == Spec => ImplementsCustody
<1>1. Init => C!Init
  BY DEF Init, C!Init, slotBar, streamBar
<1>2. QED
  BY <1>1, CustodyStep, TypeCorrect, StreamInvHolds, PTL DEF Spec, ImplementsCustody, C!Spec
=============================================================================
