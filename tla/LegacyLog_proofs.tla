--------------------------- MODULE LegacyLog_proofs ---------------------------
(***************************************************************************)
(* Proofs about LegacyLog: whatever items an answer has, however many and  *)
(* in whatever order, the transcript made of them shows each one as it     *)
(* should.  This is induction over the items: the induction principles of  *)
(* the library take an operator as a parameter, which the provers cannot   *)
(* instantiate, so the first lemmas state what is needed of induction and  *)
(* of recursive functions with sets and functions only.                    *)
(***************************************************************************)
EXTENDS LegacyLog, SequenceTheorems, WellFoundedInduction, TLAPS

\* Induction: a set that holds zero and with n also n + 1 holds every number.
LEMMA NatInductionSet ==
  ASSUME NEW T, 0 \in T, \A n \in Nat : n \in T => n + 1 \in T
  PROVE  Nat \subseteq T
<1> DEFINE R == {p \in Nat \X Nat : p[1] < p[2]}
           U == Nat \ T
<1>1. IsWellFoundedOn(R, Nat)
  BY NatLessThanWellFounded DEF OpToRel
<1>2. \A x, y \in Nat : y < x => <<y, x>> \in R
  OBVIOUS
<1>3. SUFFICES ASSUME U # {} PROVE FALSE
  OBVIOUS
<1>4. U \subseteq Nat
  OBVIOUS
<1> HIDE DEF R, U
<1>5. PICK m \in U : \A y \in U : ~(<<y, m>> \in R)
  BY <1>1, <1>3, <1>4, WFMin
<1>6. \A y \in U : ~(y < m)
  BY <1>2, <1>4, <1>5
<1> USE DEF U
<1>7. m # 0 /\ m - 1 \in Nat /\ m - 1 < m
  OBVIOUS
<1>8. m - 1 \in T
  BY <1>6, <1>7
<1>9. QED
  BY <1>7, <1>8

\* A walk over L elements starts with base, and step says what the n-th
\* element makes of what there was before it.
IsWalk(f, V, base, L, step) ==
  /\ f \in [0..L -> V]
  /\ f[0] = base
  /\ \A n \in 1..L : f[n] = step[<<f[n - 1], n>>]

LEMMA WalkExists ==
  ASSUME NEW V, NEW base \in V, NEW L \in Nat, NEW step \in [V \X (1..L) -> V]
  PROVE  \E f : IsWalk(f, V, base, L, step)
<1> DEFINE T == {m \in Nat : m <= L => \E f : IsWalk(f, V, base, m, step)}
<1> USE DEF IsWalk
<1>1. 0 \in T
  <2>1. IsWalk([n \in 0..0 |-> base], V, base, 0, step)
    OBVIOUS
  <2>2. QED
    BY <2>1
<1>2. ASSUME NEW m \in Nat, m \in T PROVE m + 1 \in T
  <2>1. SUFFICES ASSUME m + 1 <= L
                 PROVE  \E g : IsWalk(g, V, base, m + 1, step)
    OBVIOUS
  <2>2. PICK f : IsWalk(f, V, base, m, step)
    BY <1>2, <2>1
  <2> DEFINE g == [n \in 0..m + 1 |-> IF n = m + 1 THEN step[<<f[m], m + 1>>] ELSE f[n]]
  <2>3. f[m] \in V /\ m + 1 \in 1..L /\ step[<<f[m], m + 1>>] \in V
    BY <2>1, <2>2
  <2>4. g \in [0..m + 1 -> V]
    BY <2>2, <2>3
  <2>5. IsWalk(g, V, base, m + 1, step)
    <3>1. g[0] = base /\ g[m + 1] = step[<<f[m], m + 1>>] /\ \A n \in 0..m : g[n] = f[n]
      BY <2>2
    <3>2. \A n \in 1..m + 1 : n = m + 1 \/ (n \in 1..m /\ n - 1 \in 0..m /\ n \in 0..m)
      OBVIOUS
    <3> HIDE DEF g
    <3>3. \A n \in 1..m : g[n] = step[<<g[n - 1], n>>]
      BY <2>2, <3>1, <3>2
    <3>4. g[m + 1] = step[<<g[m], m + 1>>]
      BY <3>1
    <3>5. ASSUME NEW n \in 1..m + 1 PROVE g[n] = step[<<g[n - 1], n>>]
      <4>1. CASE n = m + 1
        <5>1. n - 1 = m
          BY <4>1
        <5>2. QED
          BY <3>4, <4>1, <5>1, Zenon
      <4>2. CASE n # m + 1
        <5>1. n \in 1..m
          BY <4>2
        <5>2. QED
          BY <3>3, <5>1, Zenon
      <4>3. QED
        BY <4>1, <4>2
    <3>6. QED
      BY <2>4, <3>1, <3>5
  <2>6. QED
    BY <2>4, <2>5
<1> HIDE DEF T
<1>3. L \in T
  BY <1>1, <1>2, NatInductionSet
<1>4. QED
  BY <1>3 DEF T

-----------------------------------------------------------------------------
(* The transcript as a walk over the items                                 *)

StepType == [role : {"assistant", "tool"}, item : Messages \cup Builtins, calls : Seq(Calls \cup Builtins)]
Logs == [steps : Seq(StepType), pending : Seq(Calls)]
NoLog == [steps |-> <<>>, pending |-> <<>>]

\* What an item of each kind adds.  It has one kind, so one of these holds.
LEMMA AddItemCases ==
  ASSUME NEW log \in Logs, NEW item
  PROVE  /\ item \in Calls =>
              AddItem(log, item) = [steps |-> log.steps, pending |-> Append(log.pending, item)]
         /\ item \in Messages => AddItem(log, item) =
              [steps   |-> Append(log.steps, LegacyStep("assistant", item, log.pending)),
               pending |-> <<>>]
         /\ item \in Builtins => AddItem(log, item) =
              [steps   |-> log.steps \o <<LegacyStep("assistant", item, <<item>>),
                                         LegacyStep("tool", item, <<>>)>>,
               pending |-> log.pending]
         /\ item \notin Calls \cup Messages \cup Builtins => AddItem(log, item) = log
<1>1. \A e : /\ [log EXCEPT !.steps = e] = [steps |-> e, pending |-> log.pending]
             /\ [log EXCEPT !.pending = e] = [steps |-> log.steps, pending |-> e]
  BY DEF Logs
<1>2. CASE item \in Calls
  BY <1>1, <1>2, KindsAssumption DEF AddItem
<1>3. CASE item \in Messages
  BY <1>3, KindsAssumption DEF AddItem
<1>4. CASE item \in Builtins
  BY <1>1, <1>4, KindsAssumption DEF AddItem
<1>5. CASE item \notin Calls \cup Messages \cup Builtins
  BY <1>5 DEF AddItem
<1>6. QED
  BY <1>2, <1>3, <1>4, <1>5

\* A built-in call adds its two steps at the end.
LEMMA TwoSteps ==
  ASSUME NEW S, NEW s \in Seq(S), NEW a \in S, NEW b \in S
  PROVE  /\ s \o <<a, b>> \in Seq(S)
         /\ Len(s \o <<a, b>>) = Len(s) + 2
         /\ \A k \in 1..Len(s) : (s \o <<a, b>>)[k] = s[k]
         /\ (s \o <<a, b>>)[Len(s) + 1] = a
         /\ (s \o <<a, b>>)[Len(s) + 2] = b
<1> DEFINE t == <<a, b>>
<1>1. t \in Seq(S) /\ Len(t) = 2 /\ t[1] = a /\ t[2] = b
  OBVIOUS
<1> HIDE DEF t
<1>2. QED
  BY <1>1, ConcatProperties DEF t

LEMMA AddItemType ==
  ASSUME NEW log \in Logs, NEW item
  PROVE  AddItem(log, item) \in Logs
<1>1. log.steps \in Seq(StepType) /\ log.pending \in Seq(Calls)
  BY DEF Logs
<1>0. \A steps \in Seq(StepType), pending \in Seq(Calls) :
        [steps |-> steps, pending |-> pending] \in Logs
  BY DEF Logs
<1>2. CASE item \in Calls
  <2>1. Append(log.pending, item) \in Seq(Calls)
    BY <1>1, <1>2
  <2>2. QED
    BY <1>0, <1>1, <1>2, <2>1, AddItemCases
<1>3. CASE item \in Messages
  <2>1. log.pending \in Seq(Calls \cup Builtins)
    BY <1>1, SeqMonotonic
  <2>2. LegacyStep("assistant", item, log.pending) \in StepType
    BY <1>3, <2>1 DEF LegacyStep, StepType
  <2>3. Append(log.steps, LegacyStep("assistant", item, log.pending)) \in Seq(StepType)
    BY <1>1, <2>2
  <2>4. <<>> \in Seq(Calls)
    OBVIOUS
  <2>5. QED
    BY <1>0, <1>3, <2>3, <2>4, AddItemCases
<1>4. CASE item \in Builtins
  <2>1. /\ LegacyStep("assistant", item, <<item>>) \in StepType
        /\ LegacyStep("tool", item, <<>>) \in StepType
    BY <1>4 DEF LegacyStep, StepType
  <2>2. log.steps \o <<LegacyStep("assistant", item, <<item>>), LegacyStep("tool", item, <<>>)>>
          \in Seq(StepType)
    BY <1>1, <2>1, TwoSteps
  <2>3. QED
    BY <1>0, <1>1, <1>4, <2>2, AddItemCases
<1>5. CASE item \notin Calls \cup Messages \cup Builtins
  BY <1>5, AddItemCases
<1>6. QED
  BY <1>2, <1>3, <1>4, <1>5

\* The recursion of LegacySteps has a solution, and it adds item after item.
LEMMA LegacyWalk ==
  ASSUME NEW S, NEW items \in Seq(S)
  PROVE  \E log \in [0..Len(items) -> Logs] :
           /\ log[0] = NoLog
           /\ \A n \in 1..Len(items) : log[n] = AddItem(log[n - 1], items[n])
           /\ LegacySteps(items) = log[Len(items)].steps
<1> DEFINE L == Len(items)
           step == [p \in Logs \X (1..L) |-> AddItem(p[1], items[p[2]])]
           IsLog(f) == f = [n \in 0..L |-> IF n = 0 THEN [steps |-> <<>>, pending |-> <<>>]
                                          ELSE AddItem(f[n - 1], items[n])]
           log == CHOOSE f : IsLog(f)
<1>1. L \in Nat /\ NoLog \in Logs
  BY DEF NoLog, Logs
<1>2. \A p \in Logs \X (1..L) : AddItem(p[1], items[p[2]]) \in Logs
  BY AddItemType
<1>3. step \in [Logs \X (1..L) -> Logs]
  BY <1>2
<1> HIDE DEF step, L
<1>4. PICK f : IsWalk(f, Logs, NoLog, L, step)
  BY <1>1, <1>3, WalkExists
<1>5. \A l \in Logs, n \in 1..L : step[<<l, n>>] = AddItem(l, items[n])
  BY DEF step
<1>6. ASSUME NEW n \in 0..L
      PROVE  f[n] = IF n = 0 THEN NoLog ELSE AddItem(f[n - 1], items[n])
  <2>1. n # 0 => n \in 1..L /\ f[n - 1] \in Logs
    BY <1>1, <1>4 DEF IsWalk
  <2>2. QED
    BY <1>4, <1>5, <2>1 DEF IsWalk
<1>7. IsLog(f)
  <2>1. f = [n \in 0..L |-> f[n]]
    BY <1>4 DEF IsWalk
  <2>2. QED
    BY <1>6, <2>1 DEF NoLog
<1>8. IsLog(log)
  BY <1>7, Zenon
<1>9. LegacySteps(items) = log[L].steps
  BY DEF LegacySteps, L
<1> HIDE DEF log
<1>10. /\ log[0] = NoLog
       /\ \A n \in 1..L : log[n] = AddItem(log[n - 1], items[n])
  BY <1>1, <1>8 DEF NoLog
<1>11. log \in [0..L -> Logs]
  <2> DEFINE T == {m \in Nat : m <= L => log[m] \in Logs}
  <2>1. 0 \in T
    BY <1>1, <1>10
  <2>2. ASSUME NEW m \in Nat, m \in T PROVE m + 1 \in T
    <3>1. m + 1 <= L => m <= L /\ m + 1 \in 1..L /\ m + 1 - 1 = m
      BY <1>1
    <3>2. ASSUME m + 1 <= L PROVE log[m + 1] \in Logs
      <4>1. log[m + 1] = AddItem(log[m], items[m + 1])
        BY <1>10, <3>1, <3>2
      <4>2. log[m] \in Logs
        BY <2>2, <3>1, <3>2
      <4>3. QED
        BY <4>1, <4>2, AddItemType
    <3>3. QED
      BY <3>2
  <2> HIDE DEF T
  <2>3. Nat \subseteq T
    BY <2>1, <2>2, NatInductionSet
  <2>4. \A m \in 0..L : log[m] \in Logs
    BY <1>1, <2>3 DEF T
  <2>5. log = [n \in 0..L |-> log[n]]
    BY <1>8
  <2>6. QED
    BY <2>4, <2>5
<1>12. QED
  BY <1>9, <1>10, <1>11 DEF L

-----------------------------------------------------------------------------
(* What the transcript shows of the items it has walked over               *)

Once(items) == \A j, k \in DOMAIN items : items[j] = items[k] => j = k

InOrder(calls, items) ==
  \A l, o \in DOMAIN calls : l < o => Position(items, calls[l]) < Position(items, calls[o])

\* The calls that no message among the first n items follows.
Waiting(items, n) ==
  {items[k] : k \in {k \in 1..n : items[k] \in Calls /\ \A l \in k..n : items[l] \notin Messages}}

MessageAt(steps, items, i, k) ==
  /\ k \in DOMAIN steps
  /\ \A n \in DOMAIN steps : steps[n].item = i <=> n = k
  /\ {steps[k].calls[l] : l \in DOMAIN steps[k].calls} = CallsBefore(items, i)
  /\ InOrder(steps[k].calls, items)

BuiltinAt(steps, i, k) ==
  /\ k \in DOMAIN steps /\ k + 1 \in DOMAIN steps
  /\ \A n \in DOMAIN steps : steps[n].item = i <=> n \in {k, k + 1}
  /\ steps[k].role = "assistant" /\ steps[k].calls = <<i>>
  /\ steps[k + 1].role = "tool"

\* The log after the first n items.
ShownUpTo(log, items, n) ==
  /\ \A j \in 1..n : items[j] \in Messages => \E k : MessageAt(log.steps, items, items[j], k)
  /\ \A j \in 1..n : items[j] \in Builtins => \E k : BuiltinAt(log.steps, items[j], k)
  /\ \A k \in DOMAIN log.steps : \E j \in 1..n : log.steps[k].item = items[j]
  /\ \A k, l \in DOMAIN log.steps : k < l =>
       Position(items, log.steps[k].item) <= Position(items, log.steps[l].item)
  /\ {log.pending[l] : l \in DOMAIN log.pending} = Waiting(items, n)
  /\ InOrder(log.pending, items)

LEMMA PositionOf ==
  ASSUME NEW S, NEW items \in Seq(S), Once(items), NEW n \in DOMAIN items
  PROVE  Position(items, items[n]) = n
<1> DEFINE P(m) == m \in DOMAIN items /\ items[m] = items[n]
<1>1. P(n) /\ \A m : P(m) => m = n
  BY DEF Once
<1>2. Position(items, items[n]) = CHOOSE m : P(m)
  BY DEF Position
<1> HIDE DEF P
<1>3. P(CHOOSE m : P(m))
  BY <1>1, Zenon
<1>4. QED
  BY <1>1, <1>2, <1>3

LEMMA CallsBeforeWaiting ==
  ASSUME NEW S, NEW items \in Seq(S), Once(items), NEW n \in DOMAIN items
  PROVE  CallsBefore(items, items[n]) = Waiting(items, n - 1)
BY PositionOf DEF CallsBefore, Waiting

\* new is old and steps that show item.
Grows(new, old, item) ==
  /\ new \in Seq(StepType) /\ old \in Seq(StepType)
  /\ Len(new) >= Len(old)
  /\ \A k \in 1..Len(old) : new[k] = old[k]
  /\ \A k \in Len(old) + 1..Len(new) : new[k].item = item

\* What was shown of an item stays as it is when another item is added.
LEMMA ShownKept ==
  ASSUME NEW new, NEW old, NEW item, Grows(new, old, item), NEW items, NEW i, i # item, NEW k
  PROVE  /\ MessageAt(old, items, i, k) => MessageAt(new, items, i, k)
         /\ BuiltinAt(old, i, k) => BuiltinAt(new, i, k)
<1>1. /\ Len(old) \in Nat /\ Len(new) \in Nat /\ DOMAIN old = 1..Len(old)
      /\ DOMAIN new = 1..Len(new) /\ 1..Len(old) \subseteq 1..Len(new)
  BY DEF Grows
<1>2. \A n \in DOMAIN new : n \in DOMAIN old \/ new[n].item = item
  BY <1>1 DEF Grows
<1>3. \A n \in DOMAIN old : n \in DOMAIN new /\ new[n] = old[n]
  BY <1>1 DEF Grows
<1>4. ASSUME MessageAt(old, items, i, k) PROVE MessageAt(new, items, i, k)
  <2>1. k \in DOMAIN old /\ new[k] = old[k]
    BY <1>3, <1>4 DEF MessageAt
  <2>2. QED
    BY <1>2, <1>3, <1>4, <2>1 DEF MessageAt
<1>5. ASSUME BuiltinAt(old, i, k) PROVE BuiltinAt(new, i, k)
  <2>1. k \in DOMAIN old /\ new[k] = old[k] /\ k + 1 \in DOMAIN old /\ new[k + 1] = old[k + 1]
    BY <1>3, <1>5 DEF BuiltinAt
  <2>2. QED
    BY <1>2, <1>3, <1>5, <2>1 DEF BuiltinAt
<1>6. QED
  BY <1>4, <1>5

\* The calls that wait after one more item: the item too if it is a call,
\* none if it is a message.
LEMMA WaitingStep ==
  ASSUME NEW items, NEW n \in Nat
  PROVE  Waiting(items, n + 1) =
           IF items[n + 1] \in Messages THEN {}
           ELSE IF items[n + 1] \in Calls THEN Waiting(items, n) \cup {items[n + 1]}
           ELSE Waiting(items, n)
<1> DEFINE In(k, m) == items[k] \in Calls /\ \A l \in k..m : items[l] \notin Messages
           item == items[n + 1]
<1>1. \A k \in 1..n + 1 : k \in 1..n \/ k = n + 1
  OBVIOUS
<1>2. \A k \in 1..n : n + 1 \in k..n + 1 /\ \A l \in k..n + 1 : l \in k..n \/ l = n + 1
  OBVIOUS
<1>3. \A k \in 1..n : k \in 1..n + 1 /\ \A l \in k..n : l \in k..n + 1
  OBVIOUS
<1>4. \A k \in 1..n : In(k, n + 1) <=> In(k, n) /\ item \notin Messages
  BY <1>2, <1>3
<1>5. In(n + 1, n + 1) <=> item \in Calls /\ item \notin Messages
  OBVIOUS
<1>6. \A m : Waiting(items, m) = {items[k] : k \in {k \in 1..m : In(k, m)}}
  BY DEF Waiting
<1> HIDE DEF In
<1>7. \A m, c : c \in Waiting(items, m) <=> \E k \in 1..m : In(k, m) /\ c = items[k]
  BY <1>6
<1>8. \A c : c \in Waiting(items, n + 1) <=>
        \/ c \in Waiting(items, n) /\ item \notin Messages
        \/ c = item /\ item \in Calls /\ item \notin Messages
  <2>1. n + 1 \in 1..n + 1
    OBVIOUS
  <2>2. QED
    BY <1>1, <1>3, <1>4, <1>5, <1>7, <2>1
<1>9. QED
  BY <1>8

LEMMA PendingStep ==
  ASSUME NEW S, NEW items \in Seq(S), Once(items), NEW n \in Nat, n + 1 \in DOMAIN items,
         NEW log \in Logs,
         {log.pending[l] : l \in DOMAIN log.pending} = Waiting(items, n),
         InOrder(log.pending, items)
  PROVE  LET new == AddItem(log, items[n + 1])
         IN  /\ {new.pending[l] : l \in DOMAIN new.pending} = Waiting(items, n + 1)
             /\ InOrder(new.pending, items)
<1> DEFINE item == items[n + 1]
           pending == log.pending
           new == AddItem(log, items[n + 1])
<1>1. pending \in Seq(Calls)
  BY DEF Logs
<1>2. CASE item \in Calls
  <2>1. new.pending = Append(pending, item)
    <3>1. new = [steps |-> log.steps, pending |-> Append(pending, item)]
      BY <1>2, AddItemCases
    <3>2. QED
      BY <3>1
  <2>2. item \notin Messages
    BY <1>2, KindsAssumption
  <2>3. Waiting(items, n + 1) = Waiting(items, n) \cup {item}
    BY <1>2, <2>2, WaitingStep
  <2> DEFINE p == new.pending
             L == Len(pending)
  <2>4. /\ L \in Nat /\ DOMAIN pending = 1..L /\ DOMAIN p = 1..L + 1
        /\ \A l \in 1..L : p[l] = pending[l]
        /\ p[L + 1] = item
    BY <1>1, <1>2, <2>1
  <2> HIDE DEF p, L, pending
  <2>5. \A l \in 1..L + 1 : l \in 1..L \/ l = L + 1
    BY <2>4
  <2>6. {p[l] : l \in DOMAIN p} = Waiting(items, n) \cup {item}
    <3>1. \A l \in 1..L : l \in 1..L + 1
      BY <2>4
    <3>2. L + 1 \in 1..L + 1
      BY <2>4
    <3>3. Waiting(items, n) = {pending[l] : l \in 1..L}
      BY <2>4 DEF pending
    <3>4. QED
      BY <2>4, <2>5, <3>1, <3>2, <3>3
  <2>7. \A l \in 1..L : Position(items, p[l]) < n + 1
    <3>1. SUFFICES ASSUME NEW l \in 1..L PROVE Position(items, p[l]) < n + 1
      OBVIOUS
    <3>2. pending[l] \in Waiting(items, n)
      BY <2>4 DEF pending
    <3>3. PICK k \in 1..n : pending[l] = items[k]
      BY <3>2 DEF Waiting
    <3>4. k \in DOMAIN items
      BY <3>3
    <3>5. QED
      BY <2>4, <3>3, <3>4, PositionOf
  <2>8. Position(items, item) = n + 1
    BY PositionOf
  <2>9. InOrder(p, items)
    <3>1. SUFFICES ASSUME NEW l \in 1..L + 1, NEW o \in 1..L + 1, l < o
                   PROVE  Position(items, p[l]) < Position(items, p[o])
      BY <2>4 DEF InOrder
    <3>2. l \in 1..L
      BY <2>4, <3>1
    <3>3. CASE o \in 1..L
      BY <2>4, <3>1, <3>2, <3>3 DEF InOrder, pending
    <3>4. CASE o = L + 1
      BY <2>4, <2>7, <2>8, <3>2, <3>4
    <3>5. QED
      BY <2>5, <3>3, <3>4
  <2>10. QED
    BY <2>3, <2>6, <2>9 DEF p
<1>3. CASE item \in Messages
  <2>1. new.pending = <<>>
    <3>1. new = [steps   |-> Append(log.steps, LegacyStep("assistant", item, pending)),
                 pending |-> <<>>]
      BY <1>3, AddItemCases
    <3>2. QED
      BY <3>1
  <2>2. Waiting(items, n + 1) = {}
    BY <1>3, WaitingStep
  <2>3. DOMAIN new.pending = {}
    BY <2>1
  <2>4. QED
    BY <2>2, <2>3 DEF InOrder
<1>4. CASE item \notin Calls /\ item \notin Messages
  <2>1. new.pending = pending
    <3>1. \/ new = [steps   |-> log.steps \o <<LegacyStep("assistant", item, <<item>>),
                                               LegacyStep("tool", item, <<>>)>>,
                    pending |-> pending]
          \/ new = log
      BY <1>4, AddItemCases
    <3>2. QED
      BY <3>1
  <2>2. Waiting(items, n + 1) = Waiting(items, n)
    BY <1>4, WaitingStep, Zenon
  <2>3. QED
    BY <2>1, <2>2
<1>5. QED
  BY <1>2, <1>3, <1>4

\* The steps that an item adds show that item.
LEMMA StepsGrow ==
  ASSUME NEW log \in Logs, NEW item
  PROVE  LET new == AddItem(log, item).steps
             L   == Len(log.steps)
         IN  /\ Grows(new, log.steps, item)
             /\ item \in Messages => /\ Len(new) = L + 1
                                     /\ new[L + 1] = LegacyStep("assistant", item, log.pending)
             /\ item \in Builtins => /\ Len(new) = L + 2
                                     /\ new[L + 1] = LegacyStep("assistant", item, <<item>>)
                                     /\ new[L + 2] = LegacyStep("tool", item, <<>>)
<1> DEFINE new == AddItem(log, item).steps
           old == log.steps
           L == Len(old)
<1>1. /\ old \in Seq(StepType) /\ L \in Nat /\ log.pending \in Seq(Calls)
      /\ DOMAIN old = 1..L
  BY DEF Logs
<1>2. new \in Seq(StepType)
  BY AddItemType DEF Logs
<1>3. \A role, calls : LegacyStep(role, item, calls).item = item
  BY DEF LegacyStep
<1>4. CASE item \in Messages
  <2> DEFINE a == LegacyStep("assistant", item, log.pending)
  <2>1. new = Append(old, a)
    <3>1. AddItem(log, item) = [steps |-> Append(old, a), pending |-> <<>>]
      BY <1>4, AddItemCases
    <3>2. QED
      BY <3>1
  <2> HIDE DEF new, old, a, L
  <2>2. /\ Len(new) = L + 1 /\ \A k \in 1..L : new[k] = old[k]
        /\ new[L + 1] = a
    BY <1>1, <2>1 DEF L
  <2>3. a.item = item
    BY <1>3 DEF a
  <2>4. Grows(new, old, item)
    BY <1>1, <1>2, <2>2, <2>3 DEF Grows, L
  <2>5. item \notin Builtins
    BY <1>4, KindsAssumption
  <2>6. QED
    BY <2>2, <2>4, <2>5 DEF new, old, a, L
<1>5. CASE item \in Builtins
  <2> DEFINE a == LegacyStep("assistant", item, <<item>>)
             b == LegacyStep("tool", item, <<>>)
  <2>1. new = old \o <<a, b>>
    <3>1. AddItem(log, item) = [steps |-> old \o <<a, b>>, pending |-> log.pending]
      BY <1>5, AddItemCases
    <3>2. QED
      BY <3>1
  <2>2. a \in StepType /\ b \in StepType
    BY <1>5 DEF LegacyStep, StepType
  <2>3. a.item = item /\ b.item = item
    BY <1>3
  <2> HIDE DEF new, old, a, b, L
  <2>4. /\ Len(new) = L + 2 /\ \A k \in 1..L : new[k] = old[k]
        /\ new[L + 1] = a /\ new[L + 2] = b
    BY <1>1, <2>1, <2>2, TwoSteps DEF L
  <2>5. \A k \in L + 1..L + 2 : k = L + 1 \/ k = L + 2
    BY <1>1
  <2>6. Grows(new, old, item)
    BY <1>1, <1>2, <2>3, <2>4, <2>5 DEF Grows, L
  <2>7. item \notin Messages
    BY <1>5, KindsAssumption
  <2>8. QED
    BY <2>4, <2>6, <2>7 DEF new, old, a, b, L
<1>6. CASE item \notin Messages /\ item \notin Builtins
  <2>1. new = old
    <3>1. \/ AddItem(log, item) = [steps |-> old, pending |-> Append(log.pending, item)]
          \/ AddItem(log, item) = log
      BY <1>6, AddItemCases
    <3>2. QED
      BY <3>1
  <2> HIDE DEF new, old
  <2>2. Grows(new, old, item)
    BY <1>1, <2>1 DEF Grows
  <2>3. QED
    BY <1>6, <2>2 DEF new, old
<1>7. QED
  BY <1>4, <1>5, <1>6

\* One more item, and the log shows that one too.
LEMMA ShownStep ==
  ASSUME NEW S, NEW items \in Seq(S), Once(items), NEW n \in Nat, n + 1 \in DOMAIN items,
         NEW log \in Logs, ShownUpTo(log, items, n)
  PROVE  ShownUpTo(AddItem(log, items[n + 1]), items, n + 1)
<1> DEFINE item == items[n + 1]
           old == log.steps
           L == Len(old)
<1>0. PICK log2 : log2 = AddItem(log, item)
  OBVIOUS
<1> DEFINE new == log2.steps
<1>1. /\ Grows(new, old, item)
      /\ item \in Messages => /\ Len(new) = L + 1
                              /\ new[L + 1] = LegacyStep("assistant", item, log.pending)
      /\ item \in Builtins => /\ Len(new) = L + 2
                              /\ new[L + 1] = LegacyStep("assistant", item, <<item>>)
                              /\ new[L + 2] = LegacyStep("tool", item, <<>>)
  BY <1>0, StepsGrow
<1>2. /\ L \in Nat /\ Len(new) \in Nat /\ DOMAIN old = 1..L /\ DOMAIN new = 1..Len(new)
      /\ L <= Len(new)
      /\ \A k \in 1..L : new[k] = old[k]
      /\ \A k \in DOMAIN new : k \in 1..L \/ new[k].item = item
  <2>1. Grows(new, old, item)
    BY <1>1
  <2> HIDE DEF new, old
  <2>2. QED
    BY <2>1 DEF Grows
<1>3. \A j \in 1..n : j \in DOMAIN items /\ items[j] # item
  BY DEF Once
<1>4. \A k \in 1..L : \E j \in 1..n : old[k].item = items[j]
  BY <1>2 DEF ShownUpTo
<1>5. \A k \in 1..L : new[k].item # item
  BY <1>2, <1>3, <1>4
<1>6. \A j \in 1..n + 1 : j \in 1..n \/ j = n + 1
  OBVIOUS
<1>7. Position(items, item) = n + 1 /\ \A j \in 1..n : Position(items, items[j]) = j
  BY <1>3, PositionOf
<1> HIDE DEF new, old, L
<1>8. ASSUME NEW j \in 1..n + 1, items[j] \in Messages
      PROVE  \E k : MessageAt(new, items, items[j], k)
  <2>1. CASE j \in 1..n
    <3>1. PICK k : MessageAt(old, items, items[j], k)
      BY <1>8, <2>1 DEF ShownUpTo, old
    <3>2. QED
      BY <1>1, <1>3, <2>1, <3>1, ShownKept
  <2>2. CASE j = n + 1
    <3> DEFINE k == L + 1
    <3>1. /\ Len(new) = k /\ k \in DOMAIN new /\ new[k] = LegacyStep("assistant", item, log.pending)
      BY <1>1, <1>2, <1>8, <2>2
    <3>2. new[k].item = item /\ new[k].calls = log.pending
      BY <3>1 DEF LegacyStep
    <3>3. \A m \in DOMAIN new : m \in 1..L \/ m = k
      BY <1>2, <3>1
    <3>4. CallsBefore(items, item) = Waiting(items, n)
      BY CallsBeforeWaiting
    <3> HIDE DEF k
    <3>5. k \notin 1..L
      BY <1>2 DEF k
    <3>6. MessageAt(new, items, item, k)
      BY <1>5, <3>1, <3>2, <3>3, <3>4, <3>5 DEF MessageAt, ShownUpTo
    <3>7. QED
      BY <2>2, <3>6
  <2>3. QED
    BY <1>6, <2>1, <2>2
<1>9. ASSUME NEW j \in 1..n + 1, items[j] \in Builtins
      PROVE  \E k : BuiltinAt(new, items[j], k)
  <2>1. CASE j \in 1..n
    <3>1. PICK k : BuiltinAt(old, items[j], k)
      BY <1>9, <2>1 DEF ShownUpTo, old
    <3>2. QED
      BY <1>1, <1>3, <2>1, <3>1, ShownKept
  <2>2. CASE j = n + 1
    <3> DEFINE k == L + 1
    <3>1. /\ Len(new) = k + 1 /\ k \in DOMAIN new /\ k + 1 \in DOMAIN new
          /\ new[k] = LegacyStep("assistant", item, <<item>>)
          /\ new[k + 1] = LegacyStep("tool", item, <<>>)
      BY <1>1, <1>2, <1>9, <2>2
    <3>2. /\ new[k].item = item /\ new[k].role = "assistant" /\ new[k].calls = <<item>>
          /\ new[k + 1].item = item /\ new[k + 1].role = "tool"
      BY <3>1 DEF LegacyStep
    <3>3. \A m \in DOMAIN new : m \in 1..L \/ m = k \/ m = k + 1
      BY <1>2, <3>1
    <3> HIDE DEF k
    <3>4. k \notin 1..L /\ k + 1 \notin 1..L
      BY <1>2 DEF k
    <3>5. BuiltinAt(new, item, k)
      BY <1>5, <3>1, <3>2, <3>3, <3>4 DEF BuiltinAt
    <3>6. QED
      BY <2>2, <3>5
  <2>3. QED
    BY <1>6, <2>1, <2>2
<1>10. ASSUME NEW k \in DOMAIN new PROVE \E j \in 1..n + 1 : new[k].item = items[j]
  <2>1. CASE k \in 1..L
    BY <1>2, <1>4, <2>1
  <2>2. CASE new[k].item = item
    BY <2>2
  <2>3. QED
    BY <1>2, <2>1, <2>2
<1>11. ASSUME NEW k \in DOMAIN new, NEW l \in DOMAIN new, k < l
       PROVE  Position(items, new[k].item) <= Position(items, new[l].item)
  <2>1. CASE l \in 1..L
    <3>1. k \in 1..L
      BY <1>2, <1>11, <2>1
    <3>2. QED
      BY <1>2, <1>11, <2>1, <3>1 DEF ShownUpTo, old
  <2>2. CASE new[l].item = item
    <3>1. PICK j \in 1..n + 1 : new[k].item = items[j]
      BY <1>10
    <3>2. Position(items, items[j]) = j
      BY <1>6, <1>7
    <3>3. QED
      BY <1>7, <2>2, <3>1, <3>2
  <2>3. QED
    BY <1>2, <2>1, <2>2
<1>12. /\ {log2.pending[l] : l \in DOMAIN log2.pending} = Waiting(items, n + 1)
       /\ InOrder(log2.pending, items)
  <2>1. /\ {log.pending[l] : l \in DOMAIN log.pending} = Waiting(items, n)
        /\ InOrder(log.pending, items)
    BY DEF ShownUpTo
  <2>2. /\ {AddItem(log, items[n + 1]).pending[l] :
              l \in DOMAIN AddItem(log, items[n + 1]).pending} = Waiting(items, n + 1)
        /\ InOrder(AddItem(log, items[n + 1]).pending, items)
    BY <2>1, PendingStep
  <2>3. QED
    BY <1>0, <2>2
<1>13. ShownUpTo(log2, items, n + 1)
  BY <1>8, <1>9, <1>10, <1>11, <1>12 DEF ShownUpTo, new
<1>14. QED
  BY <1>0, <1>13

\* However many items an answer has and in whatever order, its transcript
\* shows each message and built-in call once, each call directly before its
\* result, and each function call with the first message after it.
THEOREM StepsShowItems ==
  ASSUME NEW S, NEW items \in Seq(S), Once(items)
  PROVE  ShownIn(LegacySteps(items), items)
<1> DEFINE N == Len(items)
<1>1. PICK log \in [0..N -> Logs] :
        /\ log[0] = NoLog
        /\ \A n \in 1..N : log[n] = AddItem(log[n - 1], items[n])
        /\ LegacySteps(items) = log[N].steps
  BY LegacyWalk
<1>2. N \in Nat /\ DOMAIN items = 1..N
  OBVIOUS
<1> DEFINE T == {n \in Nat : n <= N => ShownUpTo(log[n], items, n)}
<1>3. 0 \in T
  <2>1. NoLog.steps = <<>> /\ NoLog.pending = <<>> /\ DOMAIN <<>> = {} /\ 1..0 = {}
    BY DEF NoLog
  <2>2. Waiting(items, 0) = {}
    BY DEF Waiting
  <2>3. ShownUpTo(NoLog, items, 0)
    BY <2>1, <2>2 DEF ShownUpTo, InOrder
  <2>4. QED
    BY <1>1, <2>3
<1>4. ASSUME NEW n \in Nat, n \in T PROVE n + 1 \in T
  <2>1. ASSUME n + 1 <= N PROVE ShownUpTo(log[n + 1], items, n + 1)
    <3>1. n \in 0..N /\ n + 1 \in 1..N /\ n + 1 - 1 = n /\ n <= N /\ n + 1 \in DOMAIN items
      BY <1>2, <2>1
    <3>2. log[n] \in Logs /\ log[n + 1] = AddItem(log[n], items[n + 1])
      BY <1>1, <3>1
    <3>3. ShownUpTo(log[n], items, n)
      BY <1>4, <3>1
    <3> HIDE DEF T, N
    <3>4. ShownUpTo(AddItem(log[n], items[n + 1]), items, n + 1)
      BY <3>1, <3>2, <3>3, ShownStep
    <3>5. QED
      BY <3>2, <3>4
  <2>2. QED
    BY <2>1
<1> HIDE DEF T
<1>5. Nat \subseteq T
  BY <1>3, <1>4, NatInductionSet
<1>6. ShownUpTo(log[N], items, N)
  BY <1>2, <1>5 DEF T
<1> DEFINE steps == log[N].steps
<1>7. ASSUME NEW n \in DOMAIN items, items[n] \in Messages
      PROVE  \E k \in DOMAIN steps :
               /\ {m \in DOMAIN steps : steps[m].item = items[n]} = {k}
               /\ {steps[k].calls[l] : l \in DOMAIN steps[k].calls} = CallsBefore(items, items[n])
               /\ \A l, o \in DOMAIN steps[k].calls : l < o =>
                    Position(items, steps[k].calls[l]) < Position(items, steps[k].calls[o])
  <2>1. PICK k : MessageAt(steps, items, items[n], k)
    BY <1>2, <1>6, <1>7 DEF ShownUpTo
  <2> HIDE DEF steps
  <2>2. k \in DOMAIN steps /\ {m \in DOMAIN steps : steps[m].item = items[n]} = {k}
    BY <2>1 DEF MessageAt
  <2>3. QED
    BY <2>1, <2>2 DEF MessageAt, InOrder
<1>8. ASSUME NEW n \in DOMAIN items, items[n] \in Builtins
      PROVE  \E k \in DOMAIN steps :
               /\ {m \in DOMAIN steps : steps[m].item = items[n]} = {k, k + 1}
               /\ steps[k].role = "assistant" /\ steps[k].calls = <<items[n]>>
               /\ steps[k + 1].role = "tool"
  <2>1. PICK k : BuiltinAt(steps, items[n], k)
    BY <1>2, <1>6, <1>8 DEF ShownUpTo
  <2> HIDE DEF steps
  <2>2. k \in DOMAIN steps /\ {m \in DOMAIN steps : steps[m].item = items[n]} = {k, k + 1}
    BY <2>1 DEF BuiltinAt
  <2>3. QED
    BY <2>1, <2>2 DEF BuiltinAt
<1>9. \A k, l \in DOMAIN steps : k < l =>
        Position(items, steps[k].item) <= Position(items, steps[l].item)
  BY <1>6 DEF ShownUpTo
<1>10. LegacySteps(items) = steps
  BY <1>1
<1> HIDE DEF steps
<1>11. ShownIn(steps, items)
  BY <1>7, <1>8, <1>9 DEF ShownIn
<1>12. QED
  BY <1>10, <1>11
=============================================================================
