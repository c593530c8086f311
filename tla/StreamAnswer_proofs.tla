-------------------------- MODULE StreamAnswer_proofs --------------------------
(***************************************************************************)
(* Proofs about StreamMapper: whatever calls, messages and built-in calls  *)
(* an answer has, however their events interleave and however they are cut *)
(* into deltas, a client rebuilds from the chunks what it would have got   *)
(* without streaming.                                                      *)
(***************************************************************************)
EXTENDS StreamMapper_proofs, LegacyLog_proofs

-----------------------------------------------------------------------------
(* Selected, the loop that collects items of some kinds                    *)

\* sel is the result of the loop after each of the items.
IsSelection(sel, items, kinds, S) ==
  /\ sel \in [0..Len(items) -> Seq(S)]
  /\ sel[0] = <<>>
  /\ \A n \in 1..Len(items) :
       sel[n] = IF items[n] \in kinds THEN Append(sel[n - 1], items[n]) ELSE sel[n - 1]

\* The recursion of Selected has a solution, and it adds item after item.
LEMMA SelectionExists ==
  ASSUME NEW S, NEW items \in Seq(S), NEW kinds
  PROVE  \E sel : IsSelection(sel, items, kinds, S) /\ Selected(items, kinds) = sel[Len(items)]
<1> DEFINE L == Len(items)
           Of(n) == IF items[n] \in kinds THEN <<items[n]>> ELSE <<>>
           step == [p \in Seq(S) \X (1..L) |-> p[1] \o Of(p[2])]
           IsSel(f) == f = [n \in 0..L |-> IF n = 0 THEN <<>>
                                           ELSE f[n - 1] \o (IF items[n] \in kinds THEN <<items[n]>>
                                                             ELSE <<>>)]
           sel == CHOOSE f : IsSel(f)
<1>1. L \in Nat /\ <<>> \in Seq(S) /\ \A n \in 1..L : items[n] \in S
  OBVIOUS
<1>2. ASSUME NEW s \in Seq(S), NEW n \in 1..L
      PROVE  /\ s \o Of(n) = IF items[n] \in kinds THEN Append(s, items[n]) ELSE s
             /\ s \o Of(n) \in Seq(S)
  <2>1. CASE items[n] \in kinds
    <3>1. <<items[n]>> \in Seq(S) /\ s \o <<items[n]>> = Append(s, items[n])
      BY <1>1, AppendIsConcat
    <3>2. QED
      BY <1>1, <2>1, <3>1
  <2>2. CASE items[n] \notin kinds
    BY <2>2, ConcatEmptySeq
  <2>3. QED
    BY <2>1, <2>2
<1> HIDE DEF L, Of
<1>3. \A p \in Seq(S) \X (1..L) : p[1] \o Of(p[2]) \in Seq(S)
  BY <1>2
<1>4. step \in [Seq(S) \X (1..L) -> Seq(S)]
  BY <1>3
<1>5. \A s \in Seq(S), n \in 1..L : step[<<s, n>>] = s \o Of(n)
  OBVIOUS
<1> HIDE DEF step
<1>6. PICK f : IsWalk(f, Seq(S), <<>>, L, step)
  BY <1>1, <1>4, WalkExists
<1>7. ASSUME NEW n \in 0..L PROVE f[n] = IF n = 0 THEN <<>> ELSE f[n - 1] \o Of(n)
  <2>1. n # 0 => n \in 1..L /\ f[n - 1] \in Seq(S)
    BY <1>1, <1>6 DEF IsWalk
  <2>2. QED
    BY <1>5, <1>6, <2>1 DEF IsWalk
<1>8. IsSel(f)
  <2>1. f = [n \in 0..L |-> f[n]]
    BY <1>6 DEF IsWalk
  <2>2. QED
    BY <1>7, <2>1 DEF Of
<1>9. IsSel(sel)
  BY <1>8, Zenon
<1>10. Selected(items, kinds) = sel[L]
  BY DEF Selected, L
<1> HIDE DEF sel
<1>11. sel = [n \in 0..L |-> sel[n]]
  BY <1>9
<1>12. sel[0] = <<>> /\ \A n \in 1..L : sel[n] = sel[n - 1] \o Of(n)
  BY <1>1, <1>9 DEF Of
<1> HIDE DEF IsSel
<1> DEFINE T == {m \in Nat : m <= L => sel[m] \in Seq(S)}
<1>13. 0 \in T
  BY <1>1, <1>12
<1>14. ASSUME NEW m \in Nat, m \in T PROVE m + 1 \in T
  <2>1. ASSUME m + 1 <= L PROVE sel[m + 1] \in Seq(S)
    <3>1. m <= L /\ m + 1 \in 1..L /\ m + 1 - 1 = m
      BY <1>1, <2>1
    <3>2. sel[m] \in Seq(S)
      BY <1>14, <3>1
    <3>3. PICK n \in 1..L : n = m + 1 /\ n - 1 = m
      BY <3>1
    <3>4. sel[n] = sel[n - 1] \o Of(n) /\ sel[n - 1] \in Seq(S)
      BY <1>12, <3>2, <3>3
    <3>5. sel[n] \in Seq(S)
      BY <1>2, <3>4
    <3>6. QED
      BY <3>3, <3>5
  <2>2. QED
    BY <2>1
<1> HIDE DEF T
<1>15. Nat \subseteq T
  BY <1>13, <1>14, NatInductionSet
<1>16. \A m \in 0..L : sel[m] \in Seq(S)
  BY <1>1, <1>15 DEF T
<1>17. IsSelection(sel, items, kinds, S)
  <2>1. sel \in [0..L -> Seq(S)]
    BY <1>11, <1>16
  <2>2. ASSUME NEW n \in 1..L
        PROVE  sel[n] = IF items[n] \in kinds THEN Append(sel[n - 1], items[n]) ELSE sel[n - 1]
    <3>1. sel[n - 1] \in Seq(S)
      BY <1>1, <1>16
    <3>2. QED
      BY <1>2, <1>12, <3>1
  <2>3. QED
    BY <1>12, <2>1, <2>2 DEF IsSelection, L
<1>18. QED
  BY <1>10, <1>17 DEF L

LEMMA SelectedEmpty == ASSUME NEW kinds PROVE Selected(<<>>, kinds) = <<>>
<1>1. <<>> \in Seq({}) /\ Len(<<>>) = 0
  OBVIOUS
<1>2. PICK sel : IsSelection(sel, <<>>, kinds, {}) /\ Selected(<<>>, kinds) = sel[Len(<<>>)]
  BY <1>1, SelectionExists
<1>3. QED
  BY <1>1, <1>2 DEF IsSelection

\* One more item: it comes last, if it is of these kinds.
LEMMA SelectedAppend ==
  ASSUME NEW S, NEW items \in Seq(S), NEW item \in S, NEW kinds
  PROVE  /\ Selected(items, kinds) \in Seq(S)
         /\ Selected(Append(items, item), kinds) =
              IF item \in kinds THEN Append(Selected(items, kinds), item) ELSE Selected(items, kinds)
<1> DEFINE L == Len(items)
           longer == Append(items, item)
<1>1. /\ L \in Nat /\ longer \in Seq(S) /\ Len(longer) = L + 1 /\ longer[L + 1] = item
      /\ \A n \in 1..L : longer[n] = items[n]
  OBVIOUS
<1>2. PICK a : IsSelection(a, items, kinds, S) /\ Selected(items, kinds) = a[L]
  BY SelectionExists
<1>3. PICK b : IsSelection(b, longer, kinds, S) /\ Selected(longer, kinds) = b[L + 1]
  BY <1>1, SelectionExists
<1> HIDE DEF L, longer
<1>4. /\ a[0] = <<>> /\ b[0] = <<>> /\ a[L] \in Seq(S)
      /\ \A n \in 1..L : a[n] = IF items[n] \in kinds THEN Append(a[n - 1], items[n]) ELSE a[n - 1]
      /\ \A n \in 1..L + 1 :
           b[n] = IF longer[n] \in kinds THEN Append(b[n - 1], longer[n]) ELSE b[n - 1]
  BY <1>1, <1>2, <1>3 DEF IsSelection, L
<1> DEFINE T == {m \in Nat : m <= L => a[m] = b[m]}
<1>5. 0 \in T
  BY <1>4
<1>6. ASSUME NEW m \in Nat, m \in T PROVE m + 1 \in T
  <2>1. ASSUME m + 1 <= L PROVE a[m + 1] = b[m + 1]
    <3>1. PICK n \in 1..L : n = m + 1 /\ n - 1 = m /\ m <= L /\ n \in 1..L + 1
      BY <1>1, <2>1
    <3>2. a[n - 1] = b[n - 1]
      BY <1>6, <3>1
    <3>3. a[n] = b[n]
      BY <1>1, <1>4, <3>1, <3>2
    <3>4. QED
      BY <3>1, <3>3
  <2>2. QED
    BY <2>1
<1> HIDE DEF T
<1>7. Nat \subseteq T
  BY <1>5, <1>6, NatInductionSet
<1>8. a[L] = b[L]
  BY <1>1, <1>7 DEF T
<1>9. PICK n \in 1..L + 1 : n = L + 1 /\ n - 1 = L
  BY <1>1
<1>10. b[n] = IF item \in kinds THEN Append(b[n - 1], item) ELSE b[n - 1]
  BY <1>1, <1>4, <1>9
<1>11. QED
  BY <1>2, <1>3, <1>4, <1>8, <1>9, <1>10 DEF L, longer

Elements(s) == {s[n] : n \in DOMAIN s}

\* If no item is there twice, what is selected are the items of these kinds,
\* each once.
LEMMA SelectedElements ==
  ASSUME NEW S, NEW items \in Seq(S), Once(items), NEW kinds
  PROVE  /\ Selected(items, kinds) \in Seq(S)
         /\ Elements(Selected(items, kinds)) = Elements(items) \cap kinds
         /\ IsFiniteSet(Elements(items) \cap kinds)
         /\ Cardinality(Elements(items) \cap kinds) = Len(Selected(items, kinds))
<1> DEFINE L == Len(items)
           Of(m) == {items[n] : n \in 1..m} \cap kinds
           IsAll(s, m) == /\ Elements(s) = Of(m)
                          /\ IsFiniteSet(Of(m))
                          /\ Cardinality(Of(m)) = Len(s)
<1>1. L \in Nat /\ DOMAIN items = 1..L
  OBVIOUS
<1>2. PICK sel : IsSelection(sel, items, kinds, S) /\ Selected(items, kinds) = sel[L]
  BY SelectionExists
<1>3. /\ sel[0] = <<>> /\ \A n \in 0..L : sel[n] \in Seq(S)
      /\ \A n \in 1..L :
           sel[n] = IF items[n] \in kinds THEN Append(sel[n - 1], items[n]) ELSE sel[n - 1]
  BY <1>2 DEF IsSelection
<1>4. \A j, k \in 1..L : items[j] = items[k] => j = k
  BY DEF Once
<1> DEFINE T == {m \in Nat : m <= L => IsAll(sel[m], m)}
<1>5. 0 \in T
  <2>1. Of(0) = {} /\ Elements(<<>>) = {} /\ Len(<<>>) = 0
    BY DEF Elements
  <2>2. IsFiniteSet(Of(0)) /\ Cardinality(Of(0)) = 0
    BY <2>1, FS_EmptySet
  <2>3. IsAll(<<>>, 0)
    BY <2>1, <2>2
  <2> HIDE DEF IsAll
  <2>4. QED
    BY <1>3, <2>3
<1>6. ASSUME NEW m \in Nat, m \in T, m + 1 <= L PROVE IsAll(sel[m + 1], m + 1)
  <2>1. PICK n \in 1..L : n = m + 1 /\ n - 1 = m /\ m <= L /\ m \in 0..L
    BY <1>1, <1>6
  <2>2. IsAll(sel[m], m)
    BY <1>6, <2>1
  <2>3. sel[m] \in Seq(S) /\ items[n] \in S
    BY <1>3, <2>1
  <2>4. sel[n] = IF items[n] \in kinds THEN Append(sel[m], items[n]) ELSE sel[m]
    BY <1>3, <2>1
  <2>5. items[n] \notin Of(m)
    BY <1>4, <2>1
  <2>6. Of(n) = IF items[n] \in kinds THEN Of(m) \cup {items[n]} ELSE Of(m)
    <3>1. \A k : k \in 1..n <=> k \in 1..m \/ k = n
      BY <2>1
    <3>2. QED
      BY <3>1
  <2> HIDE DEF Of
  <2>7. CASE items[n] \in kinds
    <3>1. IsFiniteSet(Of(n)) /\ Cardinality(Of(n)) = Cardinality(Of(m)) + 1
      <4>1. IsFiniteSet(Of(m))
        BY <2>2
      <4>2. /\ IsFiniteSet(Of(m) \cup {items[n]})
            /\ Cardinality(Of(m) \cup {items[n]}) = Cardinality(Of(m)) + 1
        BY <2>5, <4>1, FS_AddElement
      <4>3. Of(n) = Of(m) \cup {items[n]}
        BY <2>6, <2>7
      <4>4. QED
        BY <4>2, <4>3
    <3>2. sel[n] = Append(sel[m], items[n])
      BY <2>4, <2>7
    <3> DEFINE s == sel[m]
               t == sel[n]
               l == Len(s)
    <3>3. /\ l \in Nat /\ DOMAIN s = 1..l /\ DOMAIN t = 1..l + 1 /\ Len(t) = l + 1
          /\ \A k \in 1..l : t[k] = s[k]
          /\ t[l + 1] = items[n]
      BY <2>3, <3>2
    <3>4. \A k : k \in 1..l + 1 <=> k \in 1..l \/ k = l + 1
      BY <3>3
    <3> HIDE DEF s, t, l
    <3>5. Elements(t) = Elements(s) \cup {items[n]}
      BY <3>3, <3>4 DEF Elements
    <3>6. IsAll(t, n)
      BY <2>2, <2>6, <2>7, <3>1, <3>3, <3>5 DEF s, l
    <3>7. QED
      BY <2>1, <3>6 DEF t
  <2>8. CASE items[n] \notin kinds
    BY <2>1, <2>2, <2>4, <2>6, <2>8
  <2>9. QED
    BY <2>7, <2>8
<1> HIDE DEF IsAll
<1>7. ASSUME NEW m \in Nat, m \in T PROVE m + 1 \in T
  BY <1>6, <1>7
<1> HIDE DEF T
<1>8. Nat \subseteq T
  BY <1>5, <1>7, NatInductionSet
<1>9. IsAll(sel[L], L)
  BY <1>1, <1>8 DEF T
<1>10. Of(L) = Elements(items) \cap kinds
  BY <1>1 DEF Elements
<1>11. Selected(items, kinds) = sel[L] /\ sel[L] \in Seq(S)
  BY <1>1, <1>2, <1>3
<1> HIDE DEF Of
<1>12. QED
  BY <1>9, <1>10, <1>11 DEF IsAll

LEMMA OnceCardinality ==
  ASSUME NEW S, NEW items \in Seq(S), Once(items)
  PROVE  IsFiniteSet(Elements(items)) /\ Cardinality(Elements(items)) = Len(items)
<1> DEFINE L == Len(items)
           E == Elements(items)
<1>1. L \in Nat /\ DOMAIN items = 1..L
  OBVIOUS
<1>2. items \in [1..L -> E]
  BY <1>1 DEF Elements
<1>3. items \in Surjection(1..L, E)
  BY <1>1, <1>2 DEF Surjection, Elements
<1>4. items \in Injection(1..L, E)
  BY <1>1, <1>2 DEF Injection, IsInjective, Once
<1>5. IsFiniteSet(1..L) /\ Cardinality(1..L) = L
  BY <1>1, FS_Interval
<1>6. QED
  BY <1>3, <1>4, <1>5, FS_Surjection

-----------------------------------------------------------------------------
(* The calls of an open stream and what the mapper knows of them           *)

\* Every call that was opened has an index and was announced, and no other
\* key has or was: the item id of an announced call is known to be that
\* call's.  The n-th call opened has index n - 1.
OpenInv ==
  /\ Once(opened)
  /\ \A c \in bare : IsOpened(c) /\ frags[c] >= 1
  /\ \A c \in Calls : ~IsOpened(c) => frags[c] = 0
  /\ \A c \in Calls : IsOpened(c) /\ c \notin bare =>
       ItemId(c) \in DOMAIN functionItems /\ functionItems[ItemId(c)] = c
  /\ DOMAIN callIndexes = {c \in Calls : IsOpened(c)}
  /\ announcedCalls = DOMAIN callIndexes
  /\ Len(AnswerCalls(opened)) = Cardinality(DOMAIN callIndexes)
  /\ \A n \in DOMAIN AnswerCalls(opened) :
       /\ AnswerCalls(opened)[n] \in DOMAIN callIndexes
       /\ callIndexes[AnswerCalls(opened)[n]] = n - 1

IsCall(chunk) == chunk.kind = "call"

\* The chunks of calls are those of the fragments sent, in order call by call.
ChunkInv ==
  /\ \A p \in DOMAIN out : IsCall(out[p]) =>
       \E c \in Calls : /\ IsOpened(c)
                        /\ \E k \in FirstFrag(c)..frags[c] :
                             out[p] = CallChunk(callIndexes[c],
                                                IF k = FirstFrag(c) THEN c ELSE None, <<c, k>>)
  /\ \A c \in Calls : IsOpened(c) =>
       \A k \in FirstFrag(c)..frags[c] :
         \E p \in DOMAIN out : IsCall(out[p]) /\ out[p].data = <<c, k>>
  /\ \A p, q \in DOMAIN out :
       p < q /\ IsCall(out[p]) /\ IsCall(out[q]) /\ out[p].data[1] = out[q].data[1] =>
         out[p].data[2] < out[q].data[2]

\* The items that are done, each once and each of them opened.
DoneInv ==
  /\ \A i \in finished : IsOpened(i)
  /\ up = "open" => Once(completedItems) /\ Elements(completedItems) = finished

FinalInv ==
  /\ up \in {"completed", "max_output_tokens", "content_filter"} =>
       /\ FinalOf.items \in Seq(Items) /\ Once(FinalOf.items)
       /\ FinalOf.legacy = LegacySteps(FinalOf.items)
  /\ up = "completed" =>
       /\ FinalOf.finish = AnswerFinishReason(opened, "none")
       /\ SameItems(FinalOf.items, opened)
       /\ SameItems(FinalOf.events, EventsOf(opened))
       /\ SameItems(FinalOf.citations, CitationsOf(opened))

LEMMA OpensOnce ==
  ASSUME opened \in Seq(Items), Once(opened), NEW i \in Items, Opens(i)
  PROVE  /\ Once(opened)'
         /\ \A j : IsOpened(j)' <=> IsOpened(j) \/ j = i
         /\ AnswerCalls(opened)' = IF i \in Calls THEN Append(AnswerCalls(opened), i)
                                   ELSE AnswerCalls(opened)
         /\ AnswerCalls(opened) \in Seq(Items)
<1> DEFINE L == Len(opened)
<1>1. /\ L \in Nat /\ DOMAIN opened = 1..L /\ DOMAIN opened' = 1..L + 1
      /\ \A n \in 1..L : opened'[n] = opened[n]
      /\ opened'[L + 1] = i
      /\ \A n \in 1..L : opened[n] # i
  BY DEF Opens, IsOpened
<1> HIDE DEF L
<1>2. \A n : n \in 1..L + 1 <=> n \in 1..L \/ n = L + 1
  BY <1>1
<1>3. Once(opened)'
  BY <1>1, <1>2 DEF Once
<1>4. \A j : IsOpened(j)' <=> IsOpened(j) \/ j = i
  BY <1>1, <1>2 DEF IsOpened
<1>5. opened' = Append(opened, i)
  BY DEF Opens
<1>6. /\ Selected(opened, Calls) \in Seq(Items)
      /\ Selected(Append(opened, i), Calls) =
           IF i \in Calls THEN Append(Selected(opened, Calls), i) ELSE Selected(opened, Calls)
  BY SelectedAppend
<1>7. Selected(opened', Calls) =
        IF i \in Calls THEN Append(Selected(opened, Calls), i) ELSE Selected(opened, Calls)
  BY <1>5, <1>6
<1>8. QED
  BY <1>3, <1>4, <1>6, <1>7 DEF AnswerCalls

\* Whichever way a call's deltas say which call they are of, they are booked
\* under its call id.
LEMMA BookedUnderItself ==
  ASSUME OpenInv, NEW c \in Calls, ArgumentsDelta(c)
  PROVE  BookedUnder(c) = c
<1>1. CASE c \in bare'
  BY <1>1 DEF BookedUnder
<1>2. CASE c \notin bare'
  <2>1. IsOpened(c) /\ c \notin bare
    BY <1>2 DEF ArgumentsDelta, IsOpen
  <2>2. ItemId(c) \in DOMAIN functionItems /\ functionItems[ItemId(c)] = c
    BY <2>1 DEF OpenInv
  <2>3. QED
    BY <1>2, <2>2 DEF BookedUnder
<1>3. QED
  BY <1>1, <1>2

\* A call that comes in for the first time gets the next index.
LEMMA FirstSeen ==
  ASSUME opened \in Seq(Items), OpenInv, IndexInv, NEW c \in Calls, Opens(c),
         callIndexes' = WithCall(callIndexes, c)
  PROVE  /\ DOMAIN callIndexes' = {d \in Calls : IsOpened(d)'}
         /\ c \notin DOMAIN callIndexes
         /\ \A d \in DOMAIN callIndexes : callIndexes'[d] = callIndexes[d]
         /\ Len(AnswerCalls(opened)') = Cardinality(DOMAIN callIndexes')
         /\ \A n \in DOMAIN AnswerCalls(opened)' :
              /\ AnswerCalls(opened)'[n] \in DOMAIN callIndexes'
              /\ callIndexes'[AnswerCalls(opened)'[n]] = n - 1
<1> DEFINE D == DOMAIN callIndexes
           calls == AnswerCalls(opened)
           L == Len(calls)
<1>1. c \in Items /\ Once(opened)
  BY DEF Items, OpenInv
<1>2. /\ \A j : IsOpened(j)' <=> IsOpened(j) \/ j = c
      /\ calls' = Append(calls, c) /\ calls \in Seq(Items)
  BY <1>1, OpensOnce
<1>3. c \notin D
  BY DEF OpenInv, Opens
<1>4. DOMAIN callIndexes' = D \cup {c}
  BY DEF WithCall
<1>5. (\A d \in D : callIndexes'[d] = callIndexes[d]) /\ callIndexes'[c] = Cardinality(D)
  BY <1>3 DEF WithCall, CallIndex
<1>6. Cardinality(D \cup {c}) = Cardinality(D) + 1
  BY <1>3, FS_AddElement DEF IndexInv
<1>7. D = {d \in Calls : IsOpened(d)}
  BY DEF OpenInv
<1>8. DOMAIN callIndexes' = {d \in Calls : IsOpened(d)'}
  BY <1>2, <1>4, <1>7
<1>9. L = Cardinality(D) /\ \A n \in DOMAIN calls : calls[n] \in D /\ callIndexes[calls[n]] = n - 1
  BY DEF OpenInv
<1> HIDE DEF calls
<1>10. /\ L \in Nat /\ DOMAIN calls = 1..L /\ DOMAIN calls' = 1..L + 1 /\ Len(calls') = L + 1
       /\ \A n \in 1..L : calls'[n] = calls[n]
       /\ calls'[L + 1] = c
  BY <1>1, <1>2
<1> HIDE DEF L
<1>11. ASSUME NEW n \in DOMAIN calls'
       PROVE  calls'[n] \in DOMAIN callIndexes' /\ callIndexes'[calls'[n]] = n - 1
  <2>1. CASE n \in 1..L
    BY <1>4, <1>5, <1>9, <1>10, <2>1
  <2>2. CASE n = L + 1
    BY <1>4, <1>5, <1>9, <1>10, <2>2
  <2>3. QED
    BY <1>10, <1>11, <2>1, <2>2
<1>12. Len(calls') = Cardinality(DOMAIN callIndexes')
  BY <1>4, <1>6, <1>9, <1>10
<1>13. QED
  BY <1>3, <1>5, <1>8, <1>11, <1>12 DEF calls

\* A call that has an index keeps its entry as it is.
LEMMA SeenBefore ==
  ASSUME IndexInv, NEW c \in DOMAIN callIndexes, callIndexes' = WithCall(callIndexes, c)
  PROVE  callIndexes' = callIndexes
BY DEF WithCall, CallIndex, IndexInv

LEMMA OpenStep ==
  UpstreamType /\ IndexInv /\ OpenInv /\ [Next]_vars => OpenInv'
<1> SUFFICES ASSUME UpstreamType, IndexInv, OpenInv, [Next]_vars PROVE OpenInv'
  OBVIOUS
<1>0. opened \in Seq(Items) /\ Calls \subseteq Items
  BY DEF UpstreamType, Items
<1>1. ASSUME UNCHANGED <<opened, bare, callIndexes, announcedCalls, functionItems>>,
             \A c \in Calls : frags'[c] = frags[c], bare \subseteq Calls
      PROVE  OpenInv'
  BY <1>1 DEF OpenInv, IsOpened
<1>2. CASE Ignored \/ Failed \/ Ends \/ Over \/ UNCHANGED vars
  BY <1>1, <1>2 DEF Ignored, Failed, Ends, Over, vars, upstreamVars, mapperVars, UpstreamType
<1>3. ASSUME NEW i \in Items, ItemDone(i) PROVE OpenInv'
  BY <1>1, <1>3 DEF ItemDone, UpstreamType
<1>4. ASSUME NEW reason, NEW output, Terminal(reason, output) PROVE OpenInv'
  BY <1>1, <1>4 DEF Terminal, UpstreamType
<1>5. ASSUME NEW i \in Messages, ContentDelta(i) PROVE OpenInv'
  <2>1. \A c \in Calls : frags'[c] = frags[c]
    BY <1>5, KindsAssumption DEF ContentDelta, UpstreamType, Items
  <2>2. QED
    BY <1>1, <1>5, <2>1 DEF ContentDelta, UpstreamType
<1>6. ASSUME NEW i \in Items \ Calls, ItemAdded(i) PROVE OpenInv'
  <2>1. /\ Once(opened)' /\ \A j : IsOpened(j)' <=> IsOpened(j) \/ j = i
        /\ AnswerCalls(opened)' = AnswerCalls(opened)
    BY <1>0, <1>6, OpensOnce DEF ItemAdded, OpenInv
  <2>2. UNCHANGED <<frags, bare, callIndexes, announcedCalls, functionItems>>
    BY <1>6 DEF ItemAdded
  <2>3. \A c \in Calls : IsOpened(c)' <=> IsOpened(c)
    BY <2>1
  <2>4. bare \subseteq Calls
    BY DEF UpstreamType
  <2>5. QED
    BY <2>1, <2>2, <2>3, <2>4 DEF OpenInv
<1>7. ASSUME NEW c \in Calls, CallAdded(c) PROVE OpenInv'
  <2>1. /\ Once(opened)' /\ \A j : IsOpened(j)' <=> IsOpened(j) \/ j = c
    BY <1>0, <1>7, OpensOnce DEF CallAdded, OpenInv
  <2>2. /\ Opens(c) /\ callIndexes' = WithCall(callIndexes, c)
        /\ announcedCalls' = announcedCalls \cup {c}
        /\ UNCHANGED <<frags, bare>>
        /\ functionItems' = [k \in DOMAIN functionItems \cup {ItemId(c)} |->
                               IF k = ItemId(c) THEN c ELSE functionItems[k]]
    BY <1>7 DEF CallAdded
  <2>3. ASSUME NEW d \in Calls, IsOpened(d)', d \notin bare'
        PROVE  ItemId(d) \in DOMAIN functionItems' /\ functionItems'[ItemId(d)] = d
    <3>1. CASE d = c
      BY <2>2, <3>1
    <3>2. CASE d # c
      <4>1. ItemId(d) # ItemId(c)
        BY <3>2 DEF ItemId
      <4>2. ItemId(d) \in DOMAIN functionItems /\ functionItems[ItemId(d)] = d
        BY <2>1, <2>2, <2>3, <3>2 DEF OpenInv
      <4>3. QED
        BY <2>2, <4>1, <4>2
    <3>3. QED
      BY <3>1, <3>2
  <2>4. announcedCalls' = DOMAIN callIndexes'
    BY <2>2 DEF OpenInv, WithCall
  <2>5. QED
    BY <1>0, <2>1, <2>2, <2>3, <2>4, FirstSeen DEF OpenInv
<1>8. ASSUME NEW c \in Calls, ArgumentsDelta(c) PROVE OpenInv'
  <2>1. /\ callIndexes' = WithCall(callIndexes, c)
        /\ announcedCalls' = announcedCalls \cup {c}
        /\ UNCHANGED functionItems
        /\ frags' = [frags EXCEPT ![c] = @ + 1]
    BY <1>8, BookedUnderItself DEF ArgumentsDelta
  <2>2. frags'[c] = frags[c] + 1 /\ frags[c] \in Nat /\ \A d \in Calls : d # c => frags'[d] = frags[d]
    BY <1>0, <2>1 DEF UpstreamType
  <2>3. announcedCalls' = DOMAIN callIndexes'
    BY <2>1 DEF OpenInv, WithCall
  <2>4. CASE IsOpen(c) /\ UNCHANGED <<opened, bare>>
    <3>1. c \in DOMAIN callIndexes
      BY <2>4 DEF OpenInv, IsOpen
    <3>2. UNCHANGED <<callIndexes, announcedCalls>>
      BY <2>1, <3>1, SeenBefore DEF OpenInv
    <3>3. \A d : IsOpened(d)' <=> IsOpened(d)
      BY <2>4 DEF IsOpened
    <3>4. bare \subseteq Calls
      BY DEF UpstreamType
    <3>5. \A d \in bare' : IsOpened(d)' /\ frags'[d] >= 1
      BY <2>2, <2>4, <3>3, <3>4 DEF OpenInv
    <3>6. \A d \in Calls : ~IsOpened(d)' => frags'[d] = 0
      BY <2>2, <2>4, <3>3 DEF OpenInv, IsOpen
    <3>7. QED
      BY <2>1, <2>3, <2>4, <3>2, <3>3, <3>5, <3>6 DEF OpenInv
  <2>5. CASE Opens(c) /\ bare' = bare \cup {c}
    <3>1. /\ Once(opened)' /\ \A j : IsOpened(j)' <=> IsOpened(j) \/ j = c
      BY <1>0, <2>5, OpensOnce DEF OpenInv
    <3>2. bare \subseteq Calls
      BY DEF UpstreamType
    <3>3. \A d \in bare' : IsOpened(d)' /\ frags'[d] >= 1
      BY <2>2, <2>5, <3>1, <3>2 DEF OpenInv
    <3>4. \A d \in Calls : ~IsOpened(d)' => frags'[d] = 0
      BY <2>2, <3>1 DEF OpenInv
    <3>5. \A d \in Calls : IsOpened(d)' /\ d \notin bare' =>
            ItemId(d) \in DOMAIN functionItems' /\ functionItems'[ItemId(d)] = d
      BY <2>1, <2>5, <3>1 DEF OpenInv
    <3>6. QED
      BY <1>0, <2>1, <2>3, <2>5, <3>1, <3>3, <3>4, <3>5, FirstSeen DEF OpenInv
  <2>6. QED
    BY <1>8, <2>4, <2>5 DEF ArgumentsDelta
<1>9. QED
  BY <1>2, <1>3, <1>4, <1>5, <1>6, <1>7, <1>8 DEF Next, Completed, Incomplete

-----------------------------------------------------------------------------
(* The chunks of the calls                                                 *)

AddsNoCalls ==
  /\ DOMAIN out \subseteq DOMAIN out'
  /\ \A p \in DOMAIN out : out'[p] = out[p]
  /\ \A p \in DOMAIN out' : p \in DOMAIN out \/ ~IsCall(out'[p])

AddsCall(chunk) ==
  \E last \in DOMAIN out' :
    /\ DOMAIN out \subseteq DOMAIN out' /\ DOMAIN out' \subseteq Nat
    /\ out'[last] = chunk
    /\ \A p \in DOMAIN out : p < last /\ out'[p] = out[p]
    /\ \A p \in DOMAIN out' : p \in DOMAIN out \/ p = last \/ ~IsCall(out'[p])

LEMMA RoleIsNoCall == ~IsCall(Plain("role"))
BY DEF IsCall, Plain

LEMMA YieldsNoCalls ==
  ASSUME FrameInv, NEW T, NEW chunks \in Seq(T), Yields(chunks),
         \A n \in DOMAIN chunks : ~IsCall(chunks[n])
  PROVE  AddsNoCalls
<1>1. PICK S : out \in Seq(S)
  BY DEF FrameInv
<1> DEFINE h == IF sentRole THEN 0 ELSE 1
<1>2. /\ out' \in Seq(S \cup T \cup {Plain("role")})
      /\ Len(out') = Len(out) + h + Len(chunks)
      /\ \A n \in 1..Len(out) : out'[n] = out[n]
      /\ ~sentRole => out'[Len(out) + 1] = Plain("role")
      /\ \A n \in 1..Len(chunks) : out'[Len(out) + h + n] = chunks[n]
  BY <1>1, YieldsAppends
<1>3. /\ Len(out) \in Nat /\ Len(chunks) \in Nat /\ DOMAIN out = 1..Len(out)
      /\ DOMAIN chunks = 1..Len(chunks) /\ DOMAIN out' = 1..Len(out')
  BY <1>1, <1>2
<1>4. ASSUME NEW p \in 1..Len(out') PROVE p \in 1..Len(out) \/ ~IsCall(out'[p])
  <2>1. CASE p \in 1..Len(out)
    BY <2>1
  <2>2. CASE ~sentRole /\ p = Len(out) + 1
    BY <1>2, <2>2, RoleIsNoCall
  <2>3. CASE p > Len(out) + h
    <3> DEFINE n == p - (Len(out) + h)
    <3>1. n \in 1..Len(chunks) /\ p = Len(out) + h + n
      BY <1>2, <1>3, <2>3
    <3> HIDE DEF n, h
    <3>2. QED
      BY <1>2, <1>3, <3>1
  <2>4. QED
    BY <1>2, <1>3, <2>1, <2>2, <2>3
<1>5. QED
  BY <1>2, <1>3, <1>4 DEF AddsNoCalls

LEMMA YieldsCall ==
  ASSUME FrameInv, NEW chunk, Yields(<<chunk>>)
  PROVE  AddsCall(chunk)
<1>1. PICK S : out \in Seq(S)
  BY DEF FrameInv
<1> DEFINE h == IF sentRole THEN 0 ELSE 1
           chunks == <<chunk>>
           last == Len(out) + h + 1
<1>2. chunks \in Seq({chunk}) /\ Len(chunks) = 1 /\ chunks[1] = chunk
  OBVIOUS
<1> HIDE DEF chunks
<1>3. /\ out' \in Seq(S \cup {chunk} \cup {Plain("role")})
      /\ Len(out') = last
      /\ \A n \in 1..Len(out) : out'[n] = out[n]
      /\ ~sentRole => out'[Len(out) + 1] = Plain("role")
      /\ out'[last] = chunk
  <2>1. Yields(chunks)
    BY DEF chunks
  <2>2. /\ out' \in Seq(S \cup {chunk} \cup {Plain("role")})
        /\ Len(out') = Len(out) + h + Len(chunks)
        /\ \A n \in 1..Len(out) : out'[n] = out[n]
        /\ ~sentRole => out'[Len(out) + 1] = Plain("role")
        /\ \A n \in 1..Len(chunks) : out'[Len(out) + h + n] = chunks[n]
    BY <1>1, <1>2, <2>1, YieldsAppends
  <2>3. 1 \in 1..Len(chunks)
    BY <1>2
  <2>4. QED
    BY <1>2, <2>2, <2>3
<1>4. /\ Len(out) \in Nat /\ DOMAIN out = 1..Len(out) /\ DOMAIN out' = 1..Len(out')
  BY <1>1, <1>3
<1>5. /\ last \in 1..Len(out') /\ 1..Len(out) \subseteq 1..Len(out')
      /\ \A p \in 1..Len(out) : p < last
      /\ \A p \in 1..Len(out') : p \in 1..Len(out) \/ p = last \/ (~sentRole /\ p = Len(out) + 1)
  BY <1>3, <1>4
<1> HIDE DEF last
<1>6. QED
  BY <1>3, <1>4, <1>5, RoleIsNoCall DEF AddsCall

\* A step that sends no fragment leaves the chunks of the calls alone.
LEMMA NoFragment ==
  ASSUME ChunkInv, AddsNoCalls, UNCHANGED <<bare, callIndexes>>,
         \A c \in Calls : frags'[c] = frags[c] /\ (IsOpened(c)' <=> IsOpened(c))
  PROVE  ChunkInv'
<1>1. \A c : FirstFrag(c)' = FirstFrag(c)
  BY DEF FirstFrag
<1>2. \A p \in DOMAIN out' : IsCall(out'[p]) => p \in DOMAIN out /\ out'[p] = out[p]
  BY DEF AddsNoCalls
<1>3. ASSUME NEW p \in DOMAIN out', IsCall(out'[p])
      PROVE  \E c \in Calls : /\ IsOpened(c)'
                              /\ \E k \in FirstFrag(c)'..frags'[c] :
                                   out'[p] = CallChunk(callIndexes'[c],
                                              IF k = FirstFrag(c)' THEN c ELSE None, <<c, k>>)
  <2>1. p \in DOMAIN out /\ IsCall(out[p]) /\ out'[p] = out[p]
    BY <1>2, <1>3
  <2>2. PICK c \in Calls : /\ IsOpened(c)
                           /\ \E k \in FirstFrag(c)..frags[c] :
                                out[p] = CallChunk(callIndexes[c],
                                           IF k = FirstFrag(c) THEN c ELSE None, <<c, k>>)
    BY <2>1 DEF ChunkInv
  <2>3. QED
    BY <1>1, <2>1, <2>2
<1>4. ASSUME NEW c \in Calls, IsOpened(c)', NEW k \in FirstFrag(c)'..frags'[c]
      PROVE  \E p \in DOMAIN out' : IsCall(out'[p]) /\ out'[p].data = <<c, k>>
  <2>1. IsOpened(c) /\ k \in FirstFrag(c)..frags[c]
    BY <1>1, <1>4
  <2>2. PICK p \in DOMAIN out : IsCall(out[p]) /\ out[p].data = <<c, k>>
    BY <2>1 DEF ChunkInv
  <2>3. QED
    BY <2>2 DEF AddsNoCalls
<1>5. \A p, q \in DOMAIN out' :
        p < q /\ IsCall(out'[p]) /\ IsCall(out'[q]) /\ out'[p].data[1] = out'[q].data[1] =>
          out'[p].data[2] < out'[q].data[2]
  BY <1>2 DEF ChunkInv
<1>6. QED
  BY <1>3, <1>4, <1>5 DEF ChunkInv

\* A step that sends the next fragment k of call c, the first being the one
\* that names it.
LEMMA NextFragment ==
  ASSUME ChunkInv, NEW c \in Calls, NEW k \in Nat, frags \in [Items -> Nat],
         AddsCall(CallChunk(callIndexes'[c], IF k = FirstFrag(c)' THEN c ELSE None, <<c, k>>)),
         IsOpened(c)', frags'[c] = k,
         \/ IsOpened(c) /\ FirstFrag(c)' = FirstFrag(c) /\ k = frags[c] + 1 /\ frags[c] >= FirstFrag(c)
         \/ ~IsOpened(c) /\ FirstFrag(c)' = k,
         \A d \in Calls : IsOpened(d) => callIndexes'[d] = callIndexes[d],
         \A d \in Calls : d # c =>
           /\ IsOpened(d)' <=> IsOpened(d)
           /\ FirstFrag(d)' = FirstFrag(d)
           /\ frags'[d] = frags[d]
  PROVE  ChunkInv'
<1> DEFINE chunk == CallChunk(callIndexes'[c], IF k = FirstFrag(c)' THEN c ELSE None, <<c, k>>)
<1>1. PICK last \in DOMAIN out' :
        /\ DOMAIN out \subseteq DOMAIN out' /\ DOMAIN out' \subseteq Nat
        /\ out'[last] = chunk
        /\ \A p \in DOMAIN out : p < last /\ out'[p] = out[p]
        /\ \A p \in DOMAIN out' : p \in DOMAIN out \/ p = last \/ ~IsCall(out'[p])
  BY DEF AddsCall
<1>2. IsCall(chunk) /\ chunk.data = <<c, k>>
  BY DEF CallChunk, IsCall
<1>3. \A d \in Calls : FirstFrag(d) \in {0, 1} /\ FirstFrag(d)' \in {0, 1} /\ frags[d] \in Nat
  BY DEF FirstFrag, Items
<1>4. \A j \in FirstFrag(c)'..k : j = k \/ (IsOpened(c) /\ j \in FirstFrag(c)..frags[c])
  BY <1>3
<1>5. k \in FirstFrag(c)'..frags'[c]
  BY <1>3
<1>6. ASSUME NEW p \in DOMAIN out', IsCall(out'[p])
      PROVE  \E d \in Calls : /\ IsOpened(d)'
                              /\ \E j \in FirstFrag(d)'..frags'[d] :
                                   out'[p] = CallChunk(callIndexes'[d],
                                              IF j = FirstFrag(d)' THEN d ELSE None, <<d, j>>)
  <2>1. CASE p = last
    BY <1>1, <1>5, <2>1
  <2>2. CASE p \in DOMAIN out
    <3>1. IsCall(out[p]) /\ out'[p] = out[p]
      BY <1>1, <1>6, <2>2
    <3>2. PICK d \in Calls, j \in Int :
            /\ IsOpened(d) /\ j \in FirstFrag(d)..frags[d]
            /\ out[p] = CallChunk(callIndexes[d], IF j = FirstFrag(d) THEN d ELSE None, <<d, j>>)
      BY <2>2, <3>1 DEF ChunkInv
    <3>3. callIndexes'[d] = callIndexes[d] /\ FirstFrag(d)' = FirstFrag(d) /\ IsOpened(d)'
      BY <3>2
    <3>4. j \in FirstFrag(d)'..frags'[d]
      BY <1>3, <3>2, <3>3
    <3>5. QED
      BY <3>1, <3>2, <3>3, <3>4
  <2>3. QED
    BY <1>1, <1>6, <2>1, <2>2
<1>7. ASSUME NEW d \in Calls, IsOpened(d)', NEW j \in FirstFrag(d)'..frags'[d]
      PROVE  \E p \in DOMAIN out' : IsCall(out'[p]) /\ out'[p].data = <<d, j>>
  <2>1. CASE d = c /\ j = k
    BY <1>1, <1>2, <2>1
  <2>2. CASE ~(d = c /\ j = k)
    <3>1. IsOpened(d) /\ j \in FirstFrag(d)..frags[d]
      BY <1>4, <1>7, <2>2
    <3>2. PICK p \in DOMAIN out : IsCall(out[p]) /\ out[p].data = <<d, j>>
      BY <3>1 DEF ChunkInv
    <3>3. QED
      BY <1>1, <3>2
  <2>3. QED
    BY <2>1, <2>2
<1>8. ASSUME NEW p \in DOMAIN out', NEW q \in DOMAIN out', p < q, IsCall(out'[p]), IsCall(out'[q]),
             out'[p].data[1] = out'[q].data[1]
      PROVE  out'[p].data[2] < out'[q].data[2]
  <2>1. CASE p \in DOMAIN out /\ q \in DOMAIN out
    BY <1>1, <1>8, <2>1 DEF ChunkInv
  <2>2. CASE p \in DOMAIN out /\ q = last
    <3>1. IsCall(out[p]) /\ out'[p] = out[p]
      BY <1>1, <1>8, <2>2
    <3>2. PICK d \in Calls, j \in Int :
            /\ IsOpened(d) /\ j \in FirstFrag(d)..frags[d]
            /\ out[p] = CallChunk(callIndexes[d], IF j = FirstFrag(d) THEN d ELSE None, <<d, j>>)
      BY <2>2, <3>1 DEF ChunkInv
    <3>3. out[p].data = <<d, j>>
      BY <3>2 DEF CallChunk
    <3>4. d = c
      BY <1>1, <1>2, <1>8, <2>2, <3>1, <3>3
    <3>5. j <= frags[c] /\ k = frags[c] + 1 /\ j \in Int /\ frags[c] \in Nat
      BY <1>3, <3>2, <3>4
    <3>6. QED
      BY <1>1, <1>2, <2>2, <3>1, <3>3, <3>5
  <2>3. p \in DOMAIN out \/ p = last
    BY <1>1, <1>8
  <2>4. q \in DOMAIN out \/ q = last
    BY <1>1, <1>8
  <2>5. p # last
    <3>1. p = last /\ q \in DOMAIN out => q < last
      BY <1>1
    <3>2. p \in Nat /\ q \in Nat /\ last \in Nat
      BY <1>1
    <3>3. QED
      BY <1>8, <2>4, <3>1, <3>2
  <2>6. QED
    BY <2>1, <2>2, <2>3, <2>4, <2>5
<1>9. QED
  BY <1>6, <1>7, <1>8 DEF ChunkInv

LEMMA TerminalNoCalls ==
  ASSUME FrameInv, includeUsage \in BOOLEAN, NEW reason, NEW output, Terminal(reason, output)
  PROVE  AddsNoCalls
<1>1. PICK final : /\ final.kind = "final"
                   /\ Yields(<<final>> \o (IF includeUsage THEN <<Plain("usage")>> ELSE <<>>)
                                       \o <<Plain("done")>>)
  BY DEF Terminal, FinalChunk
<1> DEFINE chunks == <<final>> \o (IF includeUsage THEN <<Plain("usage")>> ELSE <<>>)
                               \o <<Plain("done")>>
<1>2. chunks \in Seq({final, Plain("usage"), Plain("done")})
  BY LastChunks
<1>3. ~IsCall(final) /\ ~IsCall(Plain("usage")) /\ ~IsCall(Plain("done"))
  BY <1>1 DEF IsCall, Plain
<1>4. Yields(chunks)
  BY <1>1
<1> HIDE DEF chunks
<1>5. \A n \in DOMAIN chunks : ~IsCall(chunks[n])
  BY <1>2, <1>3
<1>6. QED
  BY <1>2, <1>4, <1>5, YieldsNoCalls

LEMMA ChunkStep ==
  UpstreamType /\ FrameInv /\ IndexInv /\ OpenInv /\ ChunkInv /\ [Next]_vars => ChunkInv'
<1> SUFFICES ASSUME UpstreamType, FrameInv, IndexInv, OpenInv, ChunkInv, [Next]_vars
             PROVE  ChunkInv'
  OBVIOUS
<1>0. /\ opened \in Seq(Items) /\ Calls \subseteq Items /\ frags \in [Items -> Nat]
      /\ bare \subseteq Calls /\ includeUsage \in BOOLEAN /\ Once(opened)
  BY DEF UpstreamType, Items, OpenInv
<1>1. ASSUME AddsNoCalls, UNCHANGED <<opened, bare, callIndexes>>,
             \A c \in Calls : frags'[c] = frags[c]
      PROVE  ChunkInv'
  BY <1>1, NoFragment DEF IsOpened
<1>2. ASSUME Yields(<<>>) PROVE AddsNoCalls
  <2>1. <<>> \in Seq({}) /\ DOMAIN <<>> = {}
    OBVIOUS
  <2>2. QED
    BY <1>2, <2>1, YieldsNoCalls
<1>3. CASE Ends \/ Over \/ UNCHANGED vars
  <2>1. UNCHANGED <<out, opened, bare, callIndexes, frags>>
    BY <1>3 DEF Ends, Over, vars, upstreamVars, mapperVars
  <2>2. QED
    BY <1>1, <2>1 DEF AddsNoCalls
<1>4. CASE Ignored
  BY <1>1, <1>2, <1>4 DEF Ignored, upstreamVars
<1>5. CASE Failed
  <2> DEFINE chunks == <<Plain("error"), Plain("done")>>
  <2>1. chunks \in Seq({Plain("error"), Plain("done")}) /\ Yields(chunks)
    BY <1>5 DEF Failed
  <2>2. ~IsCall(Plain("error")) /\ ~IsCall(Plain("done"))
    BY DEF IsCall, Plain
  <2> HIDE DEF chunks
  <2>3. AddsNoCalls
    BY <2>1, <2>2, YieldsNoCalls
  <2>4. QED
    BY <1>1, <1>5, <2>3 DEF Failed
<1>6. ASSUME NEW i \in Items, ItemDone(i) PROVE ChunkInv'
  BY <1>1, <1>2, <1>6 DEF ItemDone
<1>7. ASSUME NEW reason, NEW output, Terminal(reason, output) PROVE ChunkInv'
  <2>1. AddsNoCalls
    BY <1>0, <1>7, TerminalNoCalls
  <2>2. QED
    BY <1>1, <1>7, <2>1 DEF Terminal
<1>8. ASSUME NEW i \in Messages, ContentDelta(i) PROVE ChunkInv'
  <2>1. \A c \in Calls : frags'[c] = frags[c]
    BY <1>0, <1>8, KindsAssumption DEF ContentDelta, Items
  <2>2. AddsNoCalls
    <3>1. <<ContentChunk(i)>> \in Seq({ContentChunk(i)}) /\ ~IsCall(ContentChunk(i))
      BY DEF IsCall, ContentChunk
    <3>2. Yields(<<ContentChunk(i)>>)
      BY <1>8 DEF ContentDelta
    <3>3. \A n \in DOMAIN <<ContentChunk(i)>> : ~IsCall(<<ContentChunk(i)>>[n])
      BY <3>1
    <3>4. QED
      BY <3>1, <3>2, <3>3, YieldsNoCalls
  <2>3. QED
    BY <1>1, <1>8, <2>1, <2>2 DEF ContentDelta
<1>9. ASSUME NEW i \in Items \ Calls, ItemAdded(i) PROVE ChunkInv'
  <2>1. \A j : IsOpened(j)' <=> IsOpened(j) \/ j = i
    BY <1>0, <1>9, OpensOnce DEF ItemAdded
  <2>2. AddsNoCalls /\ UNCHANGED <<bare, callIndexes, frags>>
    BY <1>2, <1>9 DEF ItemAdded
  <2>3. QED
    BY <2>1, <2>2, NoFragment
<1>10. ASSUME NEW c \in Calls, CallAdded(c) PROVE ChunkInv'
  <2>1. /\ Opens(c) /\ callIndexes' = WithCall(callIndexes, c) /\ UNCHANGED <<frags, bare>>
        /\ Yields(<<CallChunk(CallIndex(callIndexes, c), c, <<c, 0>>)>>)
    BY <1>10 DEF CallAdded
  <2>2. /\ \A j : IsOpened(j)' <=> IsOpened(j) \/ j = c
        /\ ~IsOpened(c)
    BY <1>0, <2>1, OpensOnce DEF Opens
  <2>3. /\ callIndexes'[c] = CallIndex(callIndexes, c)
        /\ \A d \in Calls : IsOpened(d) => callIndexes'[d] = callIndexes[d]
    BY <2>1 DEF WithCall, CallIndex, OpenInv
  <2>4. frags[c] = 0 /\ c \notin bare
    BY <2>2 DEF OpenInv
  <2>5. FirstFrag(c)' = 0 /\ \A d \in Calls : FirstFrag(d)' = FirstFrag(d)
    BY <2>1, <2>4 DEF FirstFrag
  <2>6. AddsCall(CallChunk(callIndexes'[c], IF 0 = FirstFrag(c)' THEN c ELSE None, <<c, 0>>))
    <3>1. AddsCall(CallChunk(CallIndex(callIndexes, c), c, <<c, 0>>))
      BY <2>1, YieldsCall
    <3>2. QED
      BY <2>3, <2>5, <3>1
  <2>7. QED
    BY <1>0, <2>1, <2>2, <2>3, <2>4, <2>5, <2>6, NextFragment
<1>11. ASSUME NEW c \in Calls, ArgumentsDelta(c) PROVE ChunkInv'
  <2> DEFINE k == frags[c] + 1
  <2>1. /\ callIndexes' = WithCall(callIndexes, c)
        /\ frags' = [frags EXCEPT ![c] = @ + 1]
        /\ Yields(<<CallChunk(CallIndex(callIndexes, c), IF c \in announcedCalls THEN None ELSE c,
                              <<c, k>>)>>)
    BY <1>11, BookedUnderItself DEF ArgumentsDelta
  <2>2. /\ frags'[c] = k /\ frags[c] \in Nat /\ k \in Nat
        /\ \A d \in Calls : d # c => frags'[d] = frags[d]
    BY <1>0, <2>1
  <2>3. /\ callIndexes'[c] = CallIndex(callIndexes, c)
        /\ \A d \in Calls : IsOpened(d) => callIndexes'[d] = callIndexes[d]
    BY <2>1 DEF WithCall, CallIndex, OpenInv
  <2>4. c \in announcedCalls <=> IsOpened(c)
    BY DEF OpenInv
  <2> DEFINE id == IF c \in announcedCalls THEN None ELSE c
  <2>5. AddsCall(CallChunk(callIndexes'[c], id, <<c, k>>))
    <3>1. AddsCall(CallChunk(CallIndex(callIndexes, c), id, <<c, k>>))
      BY <2>1, YieldsCall
    <3>2. QED
      BY <2>3, <3>1
  <2> HIDE DEF k, id
  <2>6. CASE IsOpen(c) /\ UNCHANGED <<opened, bare>>
    <3>1. \A d : (IsOpened(d)' <=> IsOpened(d)) /\ FirstFrag(d)' = FirstFrag(d)
      BY <2>6 DEF IsOpened, FirstFrag
    <3>2. IsOpened(c) /\ frags[c] >= FirstFrag(c)
      BY <2>2, <2>6 DEF IsOpen, FirstFrag, OpenInv
    <3>3. k # FirstFrag(c)' /\ k = frags[c] + 1
      BY <2>2, <3>1, <3>2 DEF FirstFrag, k
    <3>4. id = IF k = FirstFrag(c)' THEN c ELSE None
      BY <2>4, <3>2, <3>3 DEF id
    <3>5. AddsCall(CallChunk(callIndexes'[c], IF k = FirstFrag(c)' THEN c ELSE None, <<c, k>>))
      BY <2>5, <3>4
    <3>6. QED
      BY <1>0, <2>2, <2>3, <3>1, <3>2, <3>3, <3>5, NextFragment
  <2>7. CASE Opens(c) /\ bare' = bare \cup {c}
    <3>1. /\ \A j : IsOpened(j)' <=> IsOpened(j) \/ j = c
          /\ ~IsOpened(c)
      BY <1>0, <2>7, OpensOnce DEF Opens
    <3>2. \A d \in Calls : d # c => FirstFrag(d)' = FirstFrag(d)
      BY <2>7 DEF FirstFrag
    <3>3. frags[c] = 0 /\ k = 1 /\ FirstFrag(c)' = k
      BY <2>7, <3>1 DEF OpenInv, FirstFrag, k
    <3>4. id = IF k = FirstFrag(c)' THEN c ELSE None
      BY <2>4, <3>1, <3>3 DEF id
    <3>5. AddsCall(CallChunk(callIndexes'[c], IF k = FirstFrag(c)' THEN c ELSE None, <<c, k>>))
      BY <2>5, <3>4
    <3>6. QED
      BY <1>0, <2>2, <2>3, <3>1, <3>2, <3>3, <3>5, NextFragment
  <2>8. QED
    BY <1>11, <2>6, <2>7 DEF ArgumentsDelta
<1>12. QED
  BY <1>3, <1>4, <1>5, <1>6, <1>7, <1>8, <1>9, <1>10, <1>11 DEF Next, Completed, Incomplete

CallsInv == OpenInv /\ ChunkInv

LEMMA CallsInvHolds == Spec => []CallsInv
<1>1. Init => CallsInv
  <2> SUFFICES ASSUME Init PROVE CallsInv
    OBVIOUS
  <2>1. /\ opened = <<>> /\ DOMAIN opened = {} /\ out = <<>> /\ DOMAIN out = {}
        /\ \A i : ~IsOpened(i)
    BY DEF Init, IsOpened
  <2>2. AnswerCalls(opened) = <<>> /\ DOMAIN AnswerCalls(opened) = {} /\ Len(AnswerCalls(opened)) = 0
    BY <2>1, SelectedEmpty DEF AnswerCalls
  <2>3. DOMAIN callIndexes = {} /\ Cardinality(DOMAIN callIndexes) = 0
    BY FS_EmptySet DEF Init
  <2>4. \A c \in Calls : frags[c] = 0
    BY DEF Init, Items
  <2>5. bare = {} /\ announcedCalls = {}
    BY DEF Init
  <2>6. OpenInv
    BY <2>1, <2>2, <2>3, <2>4, <2>5 DEF OpenInv, Once
  <2>7. ChunkInv
    BY <2>1 DEF ChunkInv
  <2>8. QED
    BY <2>6, <2>7 DEF CallsInv
<1>2. Inv /\ IndexInv /\ CallsInv /\ [Next]_vars => CallsInv'
  BY OpenStep, ChunkStep DEF CallsInv, Inv
<1>3. QED
  BY <1>1, <1>2, InvHolds, IndexInvHolds, PTL DEF Spec

LEMMA FewerCalls ==
  ASSUME UpstreamType, OpenInv
  PROVE  /\ AnswerCalls(opened) \in Seq(Items)
         /\ Len(AnswerCalls(opened)) \in Nat /\ Len(opened) \in Nat
         /\ Len(AnswerCalls(opened)) <= Len(opened)
<1>1. opened \in Seq(Items) /\ Once(opened)
  BY DEF UpstreamType, OpenInv
<1>2. /\ AnswerCalls(opened) \in Seq(Items)
      /\ Cardinality(Elements(opened) \cap Calls) = Len(AnswerCalls(opened))
  BY <1>1, SelectedElements DEF AnswerCalls
<1>3. IsFiniteSet(Elements(opened)) /\ Cardinality(Elements(opened)) = Len(opened)
  BY <1>1, OnceCardinality
<1>4. Cardinality(Elements(opened) \cap Calls) <= Cardinality(Elements(opened))
  BY <1>3, FS_Subset
<1>5. QED
  BY <1>1, <1>2, <1>3, <1>4

\* The chunks with the index of call c are those of its fragments.
LEMMA ChunksOfCall ==
  ASSUME IndexInv, CallsInv, NEW c \in Calls, IsOpened(c)
  PROVE  LET n == callIndexes[c]
         IN  /\ \A p \in ChunksOf(n) : \E k \in FirstFrag(c)..frags[c] :
                   /\ out[p].data = <<c, k>>
                   /\ out[p].id = IF k = FirstFrag(c) THEN c ELSE None
             /\ \A k \in FirstFrag(c)..frags[c] : \E p \in ChunksOf(n) : out[p].data = <<c, k>>
             /\ \A p, q \in ChunksOf(n) : p < q => out[p].data[2] < out[q].data[2]
<1> DEFINE n == callIndexes[c]
<1>1. c \in DOMAIN callIndexes
  BY DEF CallsInv, OpenInv
<1>2. ASSUME NEW p \in DOMAIN out, IsCall(out[p])
      PROVE  \E d \in DOMAIN callIndexes, k \in Int :
               /\ k \in FirstFrag(d)..frags[d]
               /\ out[p].index = callIndexes[d]
               /\ out[p].data = <<d, k>>
               /\ out[p].id = IF k = FirstFrag(d) THEN d ELSE None
  <2>1. PICK d \in Calls, k \in Int :
          /\ IsOpened(d) /\ k \in FirstFrag(d)..frags[d]
          /\ out[p] = CallChunk(callIndexes[d], IF k = FirstFrag(d) THEN d ELSE None, <<d, k>>)
    BY <1>2 DEF CallsInv, ChunkInv
  <2>2. d \in DOMAIN callIndexes
    BY <2>1 DEF CallsInv, OpenInv
  <2>3. /\ out[p].index = callIndexes[d] /\ out[p].data = <<d, k>>
        /\ out[p].id = IF k = FirstFrag(d) THEN d ELSE None
    BY <2>1 DEF CallChunk
  <2>4. QED
    BY <2>1, <2>2, <2>3
<1>3. \A d \in DOMAIN callIndexes : callIndexes[d] = n => d = c
  BY <1>1 DEF IndexInv, IndexesDense
<1>4. ASSUME NEW p \in ChunksOf(n)
      PROVE  \E k \in FirstFrag(c)..frags[c] :
               /\ out[p].data = <<c, k>>
               /\ out[p].id = IF k = FirstFrag(c) THEN c ELSE None
  <2>1. p \in DOMAIN out /\ IsCall(out[p]) /\ out[p].index = n
    BY DEF ChunksOf, IsCall
  <2>2. PICK d \in DOMAIN callIndexes, k \in Int :
          /\ k \in FirstFrag(d)..frags[d]
          /\ out[p].index = callIndexes[d]
          /\ out[p].data = <<d, k>>
          /\ out[p].id = IF k = FirstFrag(d) THEN d ELSE None
    BY <1>2, <2>1
  <2>3. d = c
    BY <1>3, <2>1, <2>2
  <2>4. QED
    BY <2>2, <2>3
<1>5. ASSUME NEW k \in FirstFrag(c)..frags[c]
      PROVE  \E p \in ChunksOf(n) : out[p].data = <<c, k>>
  <2>1. PICK p \in DOMAIN out : IsCall(out[p]) /\ out[p].data = <<c, k>>
    BY DEF CallsInv, ChunkInv
  <2>2. out[p].index = n
    BY <1>2, <2>1
  <2>3. QED
    BY <2>1, <2>2 DEF ChunksOf, IsCall
<1>6. ASSUME NEW p \in ChunksOf(n), NEW q \in ChunksOf(n), p < q
      PROVE  out[p].data[2] < out[q].data[2]
  <2>1. out[p].data[1] = c /\ out[q].data[1] = c
    BY <1>4
  <2>2. /\ p \in DOMAIN out /\ IsCall(out[p])
        /\ q \in DOMAIN out /\ IsCall(out[q])
    BY DEF ChunksOf, IsCall
  <2>3. QED
    BY <1>6, <2>1, <2>2 DEF CallsInv, ChunkInv
<1>7. QED
  BY <1>4, <1>5, <1>6

\* For any number of parallel calls, however their deltas interleave and
\* whether or not they are announced, a client that gathers chunks by index
\* rebuilds every call.
THEOREM CallsReassemble == Spec => []ToolCallsReassemble
<1>1. Inv /\ IndexInv /\ CallsInv => ToolCallsReassemble
  <2> SUFFICES ASSUME Inv, IndexInv, CallsInv, NEW c \in Calls, IsOpened(c)
               PROVE  \E n \in 0..Len(opened) - 1 :
                        /\ {out[p].data : p \in ChunksOf(n)} = {<<c, k>> : k \in FirstFrag(c)..frags[c]}
                        /\ \A p, q \in ChunksOf(n) : p < q => out[p].data[2] < out[q].data[2]
                        /\ \A p \in ChunksOf(n) :
                             out[p].id = IF out[p].data = <<c, FirstFrag(c)>> THEN c ELSE None
    BY DEF ToolCallsReassemble
  <2> DEFINE n == callIndexes[c]
  <2>1. c \in DOMAIN callIndexes
    BY DEF CallsInv, OpenInv
  <2>2. n \in Nat /\ n < Len(AnswerCalls(opened))
    <3>1. n \in Nat /\ n < Cardinality(DOMAIN callIndexes)
      BY <2>1 DEF IndexInv, IndexesDense
    <3>2. Len(AnswerCalls(opened)) = Cardinality(DOMAIN callIndexes)
      BY DEF CallsInv, OpenInv
    <3>3. QED
      BY <3>1, <3>2
  <2>3. n \in 0..Len(opened) - 1
    BY <2>2, FewerCalls DEF Inv, CallsInv
  <2>4. /\ \A p \in ChunksOf(n) : \E k \in FirstFrag(c)..frags[c] :
              /\ out[p].data = <<c, k>>
              /\ out[p].id = IF k = FirstFrag(c) THEN c ELSE None
        /\ \A k \in FirstFrag(c)..frags[c] : \E p \in ChunksOf(n) : out[p].data = <<c, k>>
        /\ \A p, q \in ChunksOf(n) : p < q => out[p].data[2] < out[q].data[2]
    BY ChunksOfCall
  <2> HIDE DEF n
  <2>5. {out[p].data : p \in ChunksOf(n)} = {<<c, k>> : k \in FirstFrag(c)..frags[c]}
    BY <2>4
  <2>6. ASSUME NEW p \in ChunksOf(n)
        PROVE  out[p].id = IF out[p].data = <<c, FirstFrag(c)>> THEN c ELSE None
    <3>1. PICK k \in FirstFrag(c)..frags[c] :
            /\ out[p].data = <<c, k>>
            /\ out[p].id = IF k = FirstFrag(c) THEN c ELSE None
      BY <2>4
    <3>2. out[p].data = <<c, FirstFrag(c)>> <=> k = FirstFrag(c)
      BY <3>1
    <3>3. QED
      BY <3>1, <3>2
  <2>7. QED
    BY <2>3, <2>4, <2>5, <2>6
<1>2. QED
  BY <1>1, InvHolds, IndexInvHolds, CallsInvHolds, PTL

-----------------------------------------------------------------------------
(* The final chunk                                                         *)

LEMMA OnceAppend ==
  ASSUME NEW S, NEW s \in Seq(S), Once(s), NEW e \in S, e \notin Elements(s)
  PROVE  Once(Append(s, e)) /\ Elements(Append(s, e)) = Elements(s) \cup {e}
<1> DEFINE L == Len(s)
           t == Append(s, e)
<1>1. /\ L \in Nat /\ DOMAIN s = 1..L /\ DOMAIN t = 1..L + 1
      /\ \A n \in 1..L : t[n] = s[n]
      /\ t[L + 1] = e
  OBVIOUS
<1> HIDE DEF L, t
<1>2. \A n : n \in 1..L + 1 <=> n \in 1..L \/ n = L + 1
  BY <1>1
<1>3. \A n \in 1..L : s[n] # e
  BY <1>1 DEF Elements
<1>4. Once(t)
  BY <1>1, <1>2, <1>3 DEF Once
<1>5. Elements(t) = Elements(s) \cup {e}
  BY <1>1, <1>2 DEF Elements
<1>6. QED
  BY <1>4, <1>5 DEF t

LEMMA DoneStep ==
  UpstreamType /\ MapperType /\ OpenInv /\ DoneInv /\ [Next]_vars => DoneInv'
<1> SUFFICES ASSUME UpstreamType, MapperType, OpenInv, DoneInv, [Next]_vars PROVE DoneInv'
  OBVIOUS
<1>0. /\ opened \in Seq(Items) /\ completedItems \in Seq(Items) /\ Once(opened)
      /\ Calls \subseteq Items
  BY DEF UpstreamType, MapperType, OpenInv, Items
<1>1. ASSUME UNCHANGED finished, up = up' => UNCHANGED completedItems, up' = up \/ up' # "open",
             \A j : IsOpened(j) => IsOpened(j)'
      PROVE  DoneInv'
  BY <1>1 DEF DoneInv
<1>2. UNCHANGED opened => \A j : IsOpened(j) => IsOpened(j)'
  BY DEF IsOpened
<1>3. CASE Ignored \/ Failed \/ Ends \/ Over \/ UNCHANGED vars
  BY <1>1, <1>2, <1>3 DEF Ignored, Failed, Ends, Over, vars, upstreamVars, mapperVars
<1>4. ASSUME NEW i \in Messages, ContentDelta(i) PROVE DoneInv'
  BY <1>1, <1>2, <1>4 DEF ContentDelta
<1>5. ASSUME NEW reason, NEW output, Terminal(reason, output), up = "open", up' # "open"
      PROVE  DoneInv'
  BY <1>1, <1>2, <1>5 DEF Terminal
<1>6. ASSUME NEW i \in Items, Opens(i) PROVE \A j : IsOpened(j) => IsOpened(j)'
  BY <1>0, <1>6, OpensOnce
<1>7. ASSUME NEW i \in Items, ItemAdded(i) PROVE DoneInv'
  BY <1>1, <1>6, <1>7 DEF ItemAdded
<1>8. ASSUME NEW c \in Calls, CallAdded(c) PROVE DoneInv'
  BY <1>0, <1>1, <1>6, <1>8 DEF CallAdded
<1>9. ASSUME NEW c \in Calls, ArgumentsDelta(c) PROVE DoneInv'
  BY <1>0, <1>1, <1>2, <1>6, <1>9 DEF ArgumentsDelta
<1>10. ASSUME NEW i \in Items, ItemDone(i) PROVE DoneInv'
  <2>1. /\ up = "open" /\ IsOpened(i) /\ i \notin finished
        /\ finished' = finished \cup {i} /\ completedItems' = Append(completedItems, i)
        /\ UNCHANGED <<opened, up>>
    BY <1>10 DEF ItemDone, IsOpen
  <2>2. Once(completedItems) /\ Elements(completedItems) = finished
    BY <2>1 DEF DoneInv
  <2>3. Once(Append(completedItems, i)) /\ Elements(Append(completedItems, i)) = finished \cup {i}
    BY <1>0, <2>1, <2>2, OnceAppend
  <2>4. Once(completedItems') /\ Elements(completedItems') = finished'
    BY <2>1, <2>3
  <2>5. \A j \in finished' : IsOpened(j)'
    BY <2>1 DEF DoneInv, IsOpened
  <2>6. QED
    BY <2>4, <2>5 DEF DoneInv
<1>11. ASSUME NEW output, Completed(output) PROVE DoneInv'
  BY <1>5, <1>11 DEF Completed
<1>12. ASSUME NEW reason \in {"max_output_tokens", "content_filter"}, NEW output,
              Incomplete(reason, output)
       PROVE  DoneInv'
  BY <1>5, <1>12 DEF Incomplete
<1>13. QED
  BY <1>3, <1>4, <1>7, <1>8, <1>9, <1>10, <1>11, <1>12 DEF Next

\* FinalOf finds the final chunk, with and without the usage chunk behind it.
LEMMA FinalAfter ==
  ASSUME FrameInv, includeUsage \in BOOLEAN, NEW reason, NEW output, Terminal(reason, output)
  PROVE  LET items == IF output # <<>> THEN output ELSE completedItems
         IN  FinalOf' = FinalChunk(StreamFinishReason(items, reason), items, completedItems)
<1> DEFINE items == IF output # <<>> THEN output ELSE completedItems
           final == FinalChunk(StreamFinishReason(items, reason), items, completedItems)
           chunks == <<final>> \o (IF includeUsage THEN <<Plain("usage")>> ELSE <<>>)
                               \o <<Plain("done")>>
           h == IF sentRole THEN 0 ELSE 1
<1>1. Yields(chunks) /\ UNCHANGED includeUsage
  BY DEF Terminal
<1>2. PICK S : out \in Seq(S)
  BY DEF FrameInv
<1> HIDE DEF final
<1>3. /\ chunks \in Seq({final, Plain("usage"), Plain("done")})
      /\ Len(chunks) = IF includeUsage THEN 3 ELSE 2
      /\ chunks[1] = final
  BY LastChunks
<1> HIDE DEF chunks
<1>4. /\ Len(out') = Len(out) + h + Len(chunks)
      /\ \A n \in 1..Len(chunks) : out'[Len(out) + h + n] = chunks[n]
  BY <1>1, <1>2, <1>3, YieldsAppends
<1>5. Len(out) \in Nat /\ Len(chunks) \in {2, 3} /\ 1 \in 1..Len(chunks)
  BY <1>2, <1>3
<1>6. out'[Len(out) + h + 1] = final
  BY <1>3, <1>4, <1>5
<1>7. Len(out) + h + 1 = IF includeUsage' THEN Len(out') - 2 ELSE Len(out') - 1
  BY <1>1, <1>3, <1>4, <1>5
<1>8. QED
  BY <1>6, <1>7 DEF FinalOf, final

\* Two lists of the same items, each once, say the same of them.
LEMMA SameAnswer ==
  ASSUME NEW s \in Seq(Items), Once(s), NEW t \in Seq(Items), Once(t), Elements(s) = Elements(t)
  PROVE  /\ SameItems(s, t)
         /\ \A kinds : SameItems(Selected(s, kinds), Selected(t, kinds))
         /\ StreamFinishReason(s, "none") = AnswerFinishReason(t, "none")
<1>1. Len(s) = Len(t)
  BY OnceCardinality
<1>2. SameItems(s, t)
  BY <1>1 DEF SameItems, Elements
<1>3. ASSUME NEW kinds PROVE SameItems(Selected(s, kinds), Selected(t, kinds))
  <2> DEFINE a == Selected(s, kinds)
             b == Selected(t, kinds)
  <2>1. /\ Elements(a) = Elements(s) \cap kinds
        /\ Cardinality(Elements(s) \cap kinds) = Len(a)
    BY SelectedElements
  <2>2. /\ Elements(b) = Elements(t) \cap kinds
        /\ Cardinality(Elements(t) \cap kinds) = Len(b)
    BY SelectedElements
  <2> HIDE DEF a, b
  <2>3. Len(a) = Len(b) /\ Elements(a) = Elements(b)
    BY <2>1, <2>2
  <2>4. SameItems(a, b)
    BY <2>3 DEF SameItems, Elements
  <2>5. QED
    BY <2>4 DEF a, b
<1>4. StreamFinishReason(s, "none") = AnswerFinishReason(t, "none")
  <2> DEFINE calls == AnswerCalls(t)
  <2>1. calls \in Seq(Items) /\ Elements(calls) = Elements(s) \cap Calls
    <3>1. /\ Selected(t, Calls) \in Seq(Items)
          /\ Elements(Selected(t, Calls)) = Elements(t) \cap Calls
      BY SelectedElements
    <3>2. QED
      BY <3>1 DEF AnswerCalls
  <2> HIDE DEF calls
  <2>2. calls # <<>> <=> DOMAIN calls # {}
    <3>1. DOMAIN calls = 1..Len(calls) /\ Len(calls) \in Nat
      BY <2>1
    <3>2. calls = <<>> <=> Len(calls) = 0
      BY <2>1, EmptySeq
    <3>3. (Len(calls) # 0 => 1 \in 1..Len(calls)) /\ 1..0 = {}
      BY <3>1
    <3>4. QED
      BY <3>1, <3>2, <3>3
  <2>3. DOMAIN calls # {} <=> Elements(calls) # {}
    BY DEF Elements
  <2>4. Elements(s) \cap Calls # {} <=> \E n \in DOMAIN s : s[n] \in Calls
    BY DEF Elements
  <2>5. calls # <<>> <=> \E n \in DOMAIN s : s[n] \in Calls
    BY <2>1, <2>2, <2>3, <2>4
  <2>6. QED
    BY <2>5 DEF StreamFinishReason, AnswerFinishReason, calls
<1>5. QED
  BY <1>2, <1>3, <1>4

LEMMA FinalStep ==
  /\ UpstreamType /\ MapperType /\ FrameInv /\ OpenInv /\ DoneInv /\ FinalInv /\ [Next]_vars
  => FinalInv'
<1> SUFFICES ASSUME UpstreamType, MapperType, FrameInv, OpenInv, DoneInv, FinalInv, [Next]_vars
             PROVE  FinalInv'
  OBVIOUS
<1>0. /\ opened \in Seq(Items) /\ completedItems \in Seq(Items) /\ Once(opened)
      /\ includeUsage \in BOOLEAN
  BY DEF UpstreamType, MapperType, OpenInv
<1>1. ASSUME up' \in {"open", "failed", "ended"} PROVE FinalInv'
  BY <1>1 DEF FinalInv
<1>2. CASE Over \/ UNCHANGED vars
  BY <1>2 DEF Over, vars, upstreamVars, mapperVars, FinalInv, FinalOf
<1>3. CASE Ignored \/ Failed \/ Ends
  BY <1>1, <1>3 DEF Ignored, Failed, Ends, upstreamVars
<1>4. ASSUME NEW i, ItemAdded(i) \/ ContentDelta(i) \/ ItemDone(i) PROVE FinalInv'
  BY <1>1, <1>4 DEF ItemAdded, ContentDelta, ItemDone, Opens
<1>5. ASSUME NEW c, CallAdded(c) \/ ArgumentsDelta(c) PROVE FinalInv'
  BY <1>1, <1>5 DEF CallAdded, ArgumentsDelta, Opens
<1>6. ASSUME up = "open", NEW reason, NEW output \in {<<>>, opened}, Terminal(reason, output)
      PROVE  LET items == IF output # <<>> THEN output ELSE completedItems
             IN  /\ FinalOf.items' = items /\ items \in Seq(Items) /\ Once(items)
                 /\ FinalOf.legacy' = LegacySteps(items)
                 /\ FinalOf.finish' = StreamFinishReason(items, reason)
                 /\ FinalOf.events' = EventsOf(completedItems)
                 /\ FinalOf.citations' = CitationsOf(completedItems)
                 /\ UNCHANGED opened
                 /\ Once(completedItems) /\ Elements(completedItems) = finished
  <2> DEFINE items == IF output # <<>> THEN output ELSE completedItems
  <2>1. FinalOf' = FinalChunk(StreamFinishReason(items, reason), items, completedItems)
    BY <1>0, <1>6, FinalAfter
  <2>2. Once(completedItems) /\ Elements(completedItems) = finished
    BY <1>6 DEF DoneInv
  <2>3. items \in Seq(Items) /\ Once(items)
    BY <1>0, <2>2
  <2> HIDE DEF items
  <2>4. UNCHANGED opened
    BY <1>6 DEF Terminal
  <2>5. QED
    BY <2>1, <2>2, <2>3, <2>4 DEF FinalChunk, items
<1>7. ASSUME NEW reason \in {"max_output_tokens", "content_filter"}, NEW output \in {<<>>, opened},
             Incomplete(reason, output)
      PROVE  FinalInv'
  <2>1. up = "open" /\ up' = reason /\ Terminal(reason, output)
    BY <1>7 DEF Incomplete
  <2>2. /\ FinalOf.items' \in Seq(Items) /\ Once(FinalOf.items')
        /\ FinalOf.legacy' = LegacySteps(FinalOf.items')
    BY <1>6, <2>1
  <2>3. QED
    BY <2>1, <2>2 DEF FinalInv, Once
<1>8. ASSUME NEW output \in {<<>>, opened}, Completed(output) PROVE FinalInv'
  <2> DEFINE items == IF output # <<>> THEN output ELSE completedItems
  <2>1. up = "open" /\ up' = "completed" /\ Terminal("none", output)
    BY <1>8 DEF Completed
  <2>2. /\ FinalOf.items' = items /\ items \in Seq(Items) /\ Once(items)
        /\ FinalOf.legacy' = LegacySteps(items)
        /\ FinalOf.finish' = StreamFinishReason(items, "none")
        /\ FinalOf.events' = EventsOf(completedItems)
        /\ FinalOf.citations' = CitationsOf(completedItems)
        /\ UNCHANGED opened
        /\ Once(completedItems) /\ Elements(completedItems) = finished
    BY <1>6, <2>1
  <2>3. Elements(completedItems) = Elements(opened)
    <3>1. \A n \in DOMAIN opened : opened[n] \in finished
      BY <1>8 DEF Completed
    <3>2. \A i \in finished : \E n \in DOMAIN opened : opened[n] = i
      BY DEF DoneInv, IsOpened
    <3>3. Elements(opened) = finished
      BY <3>1, <3>2 DEF Elements
    <3>4. QED
      BY <2>2, <3>3
  <2>4. Elements(items) = Elements(opened)
    BY <2>3
  <2> HIDE DEF items
  <2>5. /\ SameItems(items, opened)
        /\ StreamFinishReason(items, "none") = AnswerFinishReason(opened, "none")
    BY <1>0, <2>2, <2>4, SameAnswer
  <2>6. /\ SameItems(EventsOf(completedItems), EventsOf(opened))
        /\ SameItems(CitationsOf(completedItems), CitationsOf(opened))
    BY <1>0, <2>2, <2>3, SameAnswer DEF EventsOf, CitationsOf
  <2> DEFINE final == FinalOf'
  <2>7. /\ final.items = items /\ final.legacy = LegacySteps(items)
        /\ final.finish = AnswerFinishReason(opened, "none")
        /\ SameItems(final.events, EventsOf(opened))
        /\ SameItems(final.citations, CitationsOf(opened))
    BY <2>2, <2>5, <2>6
  <2>8. opened' = opened
    BY <2>2
  <2> HIDE DEF final
  <2>9. /\ final.items \in Seq(Items) /\ Once(final.items)
        /\ final.legacy = LegacySteps(final.items)
        /\ final.finish = AnswerFinishReason(opened', "none")
        /\ SameItems(final.items, opened')
        /\ SameItems(final.events, EventsOf(opened'))
        /\ SameItems(final.citations, CitationsOf(opened'))
    BY <2>2, <2>5, <2>7, <2>8
  <2>10. FinalInv'
    BY <2>1, <2>9 DEF FinalInv, final
  <2>11. QED
    BY <2>10
<1>9. QED
  BY <1>2, <1>3, <1>4, <1>5, <1>7, <1>8 DEF Next

AnswerInv == DoneInv /\ FinalInv

LEMMA AnswerInvHolds == Spec => []AnswerInv
<1>1. Init => AnswerInv
  <2> SUFFICES ASSUME Init PROVE AnswerInv
    OBVIOUS
  <2>1. completedItems = <<>> /\ DOMAIN <<>> = {} /\ finished = {} /\ up = "open"
    BY DEF Init
  <2>2. Once(<<>>) /\ Elements(<<>>) = {}
    BY <2>1 DEF Once, Elements
  <2>3. QED
    BY <2>1, <2>2 DEF AnswerInv, DoneInv, FinalInv
<1>2. Inv /\ CallsInv /\ AnswerInv /\ [Next]_vars => AnswerInv'
  BY DoneStep, FinalStep DEF AnswerInv, CallsInv, Inv
<1>3. QED
  BY <1>1, <1>2, InvHolds, CallsInvHolds, PTL DEF Spec

\* What a client aggregates from a completed stream, however long, is what it
\* would have got without streaming.
THEOREM StreamAgrees == Spec => []StreamAgreesWithAnswer
<1>1. Inv /\ IndexInv /\ CallsInv /\ AnswerInv => StreamAgreesWithAnswer
  <2> SUFFICES ASSUME Inv, IndexInv, CallsInv, AnswerInv, up = "completed"
               PROVE  LET calls == AnswerCalls(opened)
                      IN  /\ \A n \in DOMAIN calls :
                               \E p \in ChunksOf(n - 1) : /\ out[p].id = calls[n]
                                                         /\ \A q \in ChunksOf(n - 1) : p <= q
                          /\ ChunksOf(Len(calls)) = {}
    BY DEF StreamAgreesWithAnswer, AnswerInv, FinalInv
  <2> DEFINE calls == AnswerCalls(opened)
  <2>1. ASSUME NEW n \in DOMAIN calls
        PROVE  \E p \in ChunksOf(n - 1) : /\ out[p].id = calls[n]
                                          /\ \A q \in ChunksOf(n - 1) : p <= q
    <3>1. PICK c : c = calls[n]
      OBVIOUS
    <3>2. c \in DOMAIN callIndexes /\ callIndexes[c] = n - 1
      BY <3>1 DEF CallsInv, OpenInv
    <3>3. c \in Calls /\ IsOpened(c)
      BY <3>2 DEF CallsInv, OpenInv
    <3> DEFINE first == FirstFrag(c)
    <3>4. first \in {0, 1} /\ first \in first..frags[c]
      <4>1. frags[c] \in Nat
        BY <3>3 DEF Inv, UpstreamType, Items
      <4>2. c \in bare => frags[c] >= 1
        BY DEF CallsInv, OpenInv
      <4>3. QED
        BY <4>1, <4>2 DEF FirstFrag
    <3>5. /\ \A p \in ChunksOf(callIndexes[c]) : \E k \in FirstFrag(c)..frags[c] :
                /\ out[p].data = <<c, k>>
                /\ out[p].id = IF k = FirstFrag(c) THEN c ELSE None
          /\ \A k \in FirstFrag(c)..frags[c] :
                \E p \in ChunksOf(callIndexes[c]) : out[p].data = <<c, k>>
          /\ \A p, q \in ChunksOf(callIndexes[c]) : p < q => out[p].data[2] < out[q].data[2]
      BY <3>3, ChunksOfCall
    <3> DEFINE chunks == ChunksOf(n - 1)
    <3>6. chunks = ChunksOf(callIndexes[c])
      BY <3>2
    <3> HIDE DEF chunks, first
    <3>7. PICK p \in chunks : out[p].data = <<c, first>>
      BY <3>4, <3>5, <3>6 DEF first
    <3>8. out[p].id = c
      BY <3>5, <3>6, <3>7 DEF first
    <3>9. ASSUME NEW q \in chunks PROVE p <= q
      <4>1. p \in Nat /\ q \in Nat
        <5>1. PICK S : out \in Seq(S)
          BY DEF Inv, FrameInv
        <5>2. p \in DOMAIN out /\ q \in DOMAIN out
          BY DEF chunks, ChunksOf
        <5>3. QED
          BY <5>1, <5>2
      <4>2. PICK k \in first..frags[c] : out[q].data = <<c, k>>
        BY <3>5, <3>6 DEF first
      <4>3. q < p => k < first
        BY <3>5, <3>6, <3>7, <4>2
      <4>4. QED
        BY <3>4, <4>1, <4>2, <4>3
    <3>10. QED
      BY <3>1, <3>7, <3>8, <3>9 DEF chunks
  <2>2. ChunksOf(Len(calls)) = {}
    <3>1. SUFFICES ASSUME NEW p \in ChunksOf(Len(calls)) PROVE FALSE
      OBVIOUS
    <3>2. p \in DOMAIN out /\ IsCall(out[p]) /\ out[p].index = Len(calls)
      BY DEF ChunksOf, IsCall
    <3>3. PICK d \in Calls : IsOpened(d) /\ out[p].index = callIndexes[d]
      BY <3>2 DEF CallsInv, ChunkInv, CallChunk
    <3>4. d \in DOMAIN callIndexes
      BY <3>3 DEF CallsInv, OpenInv
    <3>5. callIndexes[d] \in Nat /\ callIndexes[d] < Cardinality(DOMAIN callIndexes)
      BY <3>4 DEF IndexInv, IndexesDense
    <3>6. Len(calls) = Cardinality(DOMAIN callIndexes)
      BY DEF CallsInv, OpenInv
    <3> HIDE DEF calls
    <3>7. PICK index : index = callIndexes[d]
      OBVIOUS
    <3>8. index \in Nat /\ index < index
      BY <3>2, <3>3, <3>5, <3>6, <3>7
    <3>9. QED
      BY <3>8
  <2>3. QED
    BY <2>1, <2>2
<1>2. QED
  BY <1>1, InvHolds, IndexInvHolds, CallsInvHolds, AnswerInvHolds, PTL

\* Whatever a final chunk has for display steps, of an answer cut off or not,
\* shows the answer's items: StepsShowItems, for the items of the chunk.
THEOREM FinalStepsShowAnswer == Spec => []LegacyStepsShowAnswer
<1>1. AnswerInv => LegacyStepsShowAnswer
  <2> SUFFICES ASSUME AnswerInv, up \in {"completed", "max_output_tokens", "content_filter"}
               PROVE  ShownIn(FinalOf.legacy, FinalOf.items)
    BY DEF LegacyStepsShowAnswer
  <2> DEFINE items == FinalOf.items
  <2>1. items \in Seq(Items) /\ Once(items) /\ FinalOf.legacy = LegacySteps(items)
    BY DEF AnswerInv, FinalInv
  <2> HIDE DEF items
  <2>2. ShownIn(LegacySteps(items), items)
    BY <2>1, StepsShowItems
  <2>3. QED
    BY <2>1, <2>2 DEF items
<1>2. QED
  BY <1>1, AnswerInvHolds, PTL
=============================================================================
