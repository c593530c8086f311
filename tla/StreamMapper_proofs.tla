------------------------ MODULE StreamMapper_proofs ------------------------
(***************************************************************************)
(* Proofs about StreamMapper: however many calls run in parallel and       *)
(* however long the stream is, the indexes it hands out are dense,         *)
(* distinct and stable.                                                    *)
(***************************************************************************)
EXTENDS StreamMapper, FiniteSetTheorems, SequenceTheorems, TLAPS

\* Which keys have an index: finitely many, and each index is below their
\* number.  IndexesDense is not inductive without the finiteness.
IndexInv ==
  /\ IsFiniteSet(DOMAIN callIndexes)
  /\ callIndexes \in [DOMAIN callIndexes -> Nat]
  /\ IndexesDense

\* The whole effect of the stream on the indexes: none, or call_index.
IndexStep == \/ callIndexes' = callIndexes
             \/ \E key : callIndexes' = WithCall(callIndexes, key)

\* Every event leaves the indexes alone or looks up one call.
LEMMA NextIndexStep == [Next]_vars => IndexStep
<1> SUFFICES ASSUME [Next]_vars PROVE IndexStep
  OBVIOUS
<1>1. ASSUME NEW c \in Calls, CallAdded(c) \/ ArgumentsDelta(c) PROVE IndexStep
  BY <1>1 DEF CallAdded, ArgumentsDelta, IndexStep
<1>2. ASSUME NEW reason, NEW output, Terminal(reason, output) PROVE IndexStep
  BY <1>2 DEF Terminal, IndexStep
<1>3. CASE \/ Ignored \/ Failed \/ Ends \/ Over \/ UNCHANGED vars
           \/ \E i \in Items \ Calls : ItemAdded(i)
           \/ \E i \in Messages : ContentDelta(i)
           \/ \E i \in Items : ItemDone(i)
  BY <1>3 DEF Ignored, Failed, Ends, Over, ItemAdded, ContentDelta, ItemDone,
              vars, mapperVars, IndexStep
<1>4. QED
  BY <1>1, <1>2, <1>3 DEF Next, Completed, Incomplete

\* Looking up a call keeps every index there was and gives a new call the
\* next one.
LEMMA WithCallIndexes ==
  ASSUME IndexInv, NEW key, callIndexes' = WithCall(callIndexes, key)
  PROVE  /\ IndexInv'
         /\ \A k \in DOMAIN callIndexes :
              k \in DOMAIN callIndexes' /\ callIndexes'[k] = callIndexes[k]
<1> DEFINE D == DOMAIN callIndexes
           n == Cardinality(D)
<1>1. n \in Nat
  BY FS_CardinalityType DEF IndexInv
<1>2. DOMAIN callIndexes' = D \cup {key}
  BY DEF WithCall
<1>3. \A k \in D : callIndexes'[k] = callIndexes[k]
  BY DEF WithCall, CallIndex
<1>4. CASE key \in D
  <2>1. callIndexes' = callIndexes
    BY <1>2, <1>3, <1>4 DEF IndexInv, WithCall
  <2>2. QED
    BY <2>1 DEF IndexInv, IndexesDense
<1>5. CASE key \notin D
  <2>1. callIndexes'[key] = n
    BY <1>5 DEF WithCall, CallIndex
  <2>2. IsFiniteSet(D \cup {key}) /\ Cardinality(D \cup {key}) = n + 1
    BY <1>5, FS_AddElement DEF IndexInv
  <2>3. \A k \in D : callIndexes[k] \in Nat /\ callIndexes[k] < n
    BY DEF IndexInv, IndexesDense
  <2>4. callIndexes' \in [DOMAIN callIndexes' -> Nat]
    BY <1>1, <1>2, <1>3, <2>1, <2>3 DEF WithCall
  <2>5. \A k, l \in D \cup {key} : callIndexes'[k] = callIndexes'[l] => k = l
    BY <1>1, <1>3, <2>1, <2>3 DEF IndexInv, IndexesDense
  <2>6. \A k \in D \cup {key} : callIndexes'[k] < n + 1
    BY <1>1, <1>3, <2>1, <2>3
  <2>7. IndexInv'
    BY <1>2, <2>2, <2>4, <2>5, <2>6 DEF IndexInv, IndexesDense
  <2>8. QED
    BY <1>2, <1>3, <2>7
<1>6. QED
  BY <1>4, <1>5

LEMMA IndexInvHolds == Spec => []IndexInv
<1>1. Init => IndexInv
  BY FS_EmptySet DEF Init, IndexInv, IndexesDense
<1>2. IndexInv /\ [Next]_vars => IndexInv'
  BY NextIndexStep, WithCallIndexes DEF IndexStep, IndexInv, IndexesDense
<1>3. QED
  BY <1>1, <1>2, PTL DEF Spec

\* The positions of the tool calls in the client's message are 0, 1, 2...
\* with one call each, for any number of parallel calls.
THEOREM DenseIndexes == Spec => []IndexesDense
<1>1. IndexInv => IndexesDense
  BY DEF IndexInv
<1>2. QED
  BY <1>1, IndexInvHolds, PTL

-----------------------------------------------------------------------------
(* The order of the chunks                                                 *)

Shown == {"content", "call"}
Closers == {"final", "usage", "error", "done"}

\* While the upstream is open a client has had the role and then only content
\* and calls; FrameOrder alone does not say what an open stream has sent.
FrameInv ==
  /\ \E S : out \in Seq(S)
  /\ sentRole \in BOOLEAN /\ (sentRole <=> out # <<>>)
  /\ \A n \in DOMAIN out : (out[n].kind = "role") = (n = 1)
  /\ up \in {"open", "ended"} => \A n \in DOMAIN out : out[n].kind \in Shown \cup {"role"}
  /\ \A n \in DOMAIN out : out[n].kind \in Shown \cup Closers \cup {"role"}
  /\ FrameOrder

\* What the client has after an event: what it had, the role if that was
\* missing, and the event's chunks.
LEMMA YieldsAppends ==
  ASSUME NEW S, out \in Seq(S), NEW T, NEW chunks \in Seq(T), Yields(chunks)
  PROVE  LET h == IF sentRole THEN 0 ELSE 1
         IN  /\ out' \in Seq(S \cup T \cup {Plain("role")})
             /\ Len(out') = Len(out) + h + Len(chunks)
             /\ \A n \in 1..Len(out) : out'[n] = out[n]
             /\ ~sentRole => out'[Len(out) + 1] = Plain("role")
             /\ \A n \in 1..Len(chunks) : out'[Len(out) + h + n] = chunks[n]
<1> DEFINE U == S \cup T \cup {Plain("role")}
           head == IF sentRole THEN <<>> ELSE <<Plain("role")>>
<1>1. out \in Seq(U) /\ chunks \in Seq(U)
  BY SeqMonotonic
<1>2. out' = (out \o head) \o chunks
  BY DEF Yields
<1>3. CASE sentRole
  <2>1. head = <<>> /\ out' = out \o chunks
    BY <1>1, <1>2, <1>3, ConcatEmptySeq
  <2>2. QED
    BY <1>1, <1>3, <2>1, ConcatProperties
<1>4. CASE ~sentRole
  <2>1. head = <<Plain("role")>> /\ head \in Seq(U) /\ Len(head) = 1
    BY <1>4
  <2>2. /\ out \o head \in Seq(U) /\ Len(out \o head) = Len(out) + 1
        /\ \A n \in 1..Len(out) : (out \o head)[n] = out[n]
        /\ (out \o head)[Len(out) + 1] = Plain("role")
    BY <1>1, <2>1, ConcatProperties
  <2> DEFINE s == out \o head
  <2> HIDE DEF head, s
  <2>3. /\ s \o chunks \in Seq(U) /\ Len(s \o chunks) = Len(s) + Len(chunks)
        /\ \A n \in 1..Len(s) + Len(chunks) :
             (s \o chunks)[n] = IF n <= Len(s) THEN s[n] ELSE chunks[n - Len(s)]
    BY <1>1, <2>2, ConcatProperties DEF s
  <2>4. Len(out) \in Nat /\ Len(chunks) \in Nat /\ Len(s) = Len(out) + 1
    BY <1>1, <2>2 DEF s
  <2>5. \A n \in 1..Len(chunks) : (s \o chunks)[Len(out) + 1 + n] = chunks[n]
    BY <2>3, <2>4
  <2>6. QED
    BY <1>2, <1>4, <2>2, <2>3, <2>4, <2>5 DEF s
<1>5. QED
  BY <1>3, <1>4

\* An event that is not the last yields content or calls, if anything.
LEMMA ContentFrames ==
  ASSUME FrameInv, up = "open", up' = up,
         NEW T, NEW chunks \in Seq(T), Yields(chunks),
         \A n \in DOMAIN chunks : chunks[n].kind \in Shown
  PROVE  FrameInv'
<1>1. PICK S : out \in Seq(S)
  BY DEF FrameInv
<1> DEFINE h == IF sentRole THEN 0 ELSE 1
<1>2. /\ out' \in Seq(S \cup T \cup {Plain("role")})
      /\ Len(out') = Len(out) + h + Len(chunks)
      /\ \A n \in 1..Len(out) : out'[n] = out[n]
      /\ ~sentRole => out'[Len(out) + 1] = Plain("role")
      /\ \A n \in 1..Len(chunks) : out'[Len(out) + h + n] = chunks[n]
  BY <1>1, YieldsAppends
<1>3. /\ Len(out) \in Nat /\ Len(chunks) \in Nat /\ DOMAIN out = 1..Len(out)
      /\ DOMAIN chunks = 1..Len(chunks) /\ DOMAIN out' = 1..Len(out')
  BY <1>1, <1>2
<1>4. (sentRole => Len(out) >= 1) /\ (~sentRole => Len(out) = 0)
  BY <1>1, <1>3, EmptySeq DEF FrameInv
<1>5. Plain("role").kind = "role"
  BY DEF Plain
<1>6. \A n \in DOMAIN out' :
        /\ (out'[n].kind = "role") = (n = 1)
        /\ out'[n].kind \in Shown \cup {"role"}
  <2> SUFFICES ASSUME NEW n \in 1..Len(out')
               PROVE  /\ (out'[n].kind = "role") = (n = 1)
                      /\ out'[n].kind \in Shown \cup {"role"}
    BY <1>3
  <2>1. CASE n \in 1..Len(out)
    BY <1>2, <1>3, <2>1 DEF FrameInv
  <2>2. CASE ~sentRole /\ n = 1
    BY <1>2, <1>4, <1>5, <2>2
  <2>3. CASE n > Len(out) + h
    <3> DEFINE j == n - (Len(out) + h)
    <3>1. j \in 1..Len(chunks) /\ n = Len(out) + h + j
      BY <1>2, <1>3, <2>3
    <3>2. n # 1
      BY <1>3, <1>4, <2>3
    <3> HIDE DEF j, h
    <3>3. out'[n] = chunks[j]
      BY <1>2, <3>1
    <3>4. QED
      BY <1>3, <3>1, <3>2, <3>3 DEF Shown
  <2>4. QED
    BY <1>2, <1>3, <1>4, <2>1, <2>2, <2>3
<1>7. sentRole' = TRUE /\ out' # <<>>
  BY <1>2, <1>3, <1>4, EmptySeq DEF Yields
<1>8. FrameOrder'
  BY <1>6 DEF FrameOrder, Shown
<1>9. QED
  BY <1>2, <1>6, <1>7, <1>8 DEF FrameInv

\* The chunks of the last event, with and without usage.
LEMMA ThreeChunks ==
  ASSUME NEW a, NEW b, NEW c
  PROVE  LET s == <<a>> \o <<b>> \o <<c>>
         IN  s \in Seq({a, b, c}) /\ Len(s) = 3 /\ s[1] = a /\ s[2] = b /\ s[3] = c
<1> DEFINE S == {a, b, c}
           t == <<a>> \o <<b>>
<1>1. <<a>> \in Seq(S) /\ <<b>> \in Seq(S) /\ <<c>> \in Seq(S)
  OBVIOUS
<1>2. t \in Seq(S) /\ Len(t) = 2 /\ t[1] = a /\ t[2] = b
  BY <1>1, ConcatProperties
<1> HIDE DEF S, t
<1>3. /\ t \o <<c>> \in Seq(S) /\ Len(t \o <<c>>) = 3
      /\ (t \o <<c>>)[1] = t[1] /\ (t \o <<c>>)[2] = t[2] /\ (t \o <<c>>)[3] = c
  BY <1>1, <1>2, ConcatProperties
<1>4. QED
  BY <1>2, <1>3 DEF S, t

LEMMA TwoChunks ==
  ASSUME NEW a, NEW c
  PROVE  LET s == <<a>> \o <<>> \o <<c>>
         IN  s \in Seq({a, c}) /\ Len(s) = 2 /\ s[1] = a /\ s[2] = c
<1> DEFINE S == {a, c}
<1>1. <<a>> \in Seq(S) /\ <<c>> \in Seq(S)
  OBVIOUS
<1>2. <<a>> \o <<>> = <<a>>
  BY <1>1, ConcatEmptySeq
<1>3. QED
  BY <1>1, <1>2, ConcatProperties

LEMMA LastChunks ==
  ASSUME includeUsage \in BOOLEAN, NEW final
  PROVE  LET chunks == <<final>> \o (IF includeUsage THEN <<Plain("usage")>> ELSE <<>>)
                                 \o <<Plain("done")>>
         IN  /\ chunks \in Seq({final, Plain("usage"), Plain("done")})
             /\ Len(chunks) = IF includeUsage THEN 3 ELSE 2
             /\ chunks[1] = final
             /\ includeUsage => chunks[2] = Plain("usage")
             /\ chunks[Len(chunks)] = Plain("done")
<1> DEFINE chunks == <<final>> \o (IF includeUsage THEN <<Plain("usage")>> ELSE <<>>)
                               \o <<Plain("done")>>
<1>1. CASE includeUsage
  <2>1. chunks = <<final>> \o <<Plain("usage")>> \o <<Plain("done")>>
    BY <1>1
  <2> HIDE DEF chunks
  <2>2. /\ chunks \in Seq({final, Plain("usage"), Plain("done")}) /\ Len(chunks) = 3
        /\ chunks[1] = final /\ chunks[2] = Plain("usage") /\ chunks[3] = Plain("done")
    BY <2>1, ThreeChunks
  <2>3. QED
    BY <1>1, <2>2 DEF chunks
<1>2. CASE ~includeUsage
  <2>1. chunks = <<final>> \o <<>> \o <<Plain("done")>>
    BY <1>2
  <2> HIDE DEF chunks
  <2>2. /\ chunks \in Seq({final, Plain("done")}) /\ Len(chunks) = 2
        /\ chunks[1] = final /\ chunks[2] = Plain("done")
    BY <2>1, TwoChunks
  <2>3. chunks \in Seq({final, Plain("usage"), Plain("done")})
    BY <2>2, SeqMonotonic
  <2>4. QED
    BY <1>2, <2>2, <2>3 DEF chunks
<1>3. QED
  BY <1>1, <1>2

\* The last event ends the chunks with a final or an error chunk and [DONE].
LEMMA LastFrames ==
  ASSUME FrameInv, up = "open", includeUsage \in BOOLEAN, UNCHANGED includeUsage,
         NEW T, NEW chunks \in Seq(T), Yields(chunks),
         \/ /\ up' \in {"completed", "max_output_tokens", "content_filter"}
            /\ Len(chunks) = IF includeUsage THEN 3 ELSE 2
            /\ chunks[1].kind = "final"
            /\ includeUsage => chunks[2].kind = "usage"
         \/ /\ up' = "failed"
            /\ Len(chunks) = 2
            /\ chunks[1].kind = "error",
         chunks[Len(chunks)].kind = "done"
  PROVE  FrameInv'
<1>1. PICK S : out \in Seq(S)
  BY DEF FrameInv
<1> DEFINE h == IF sentRole THEN 0 ELSE 1
           k == Len(out) + h
<1>2. /\ out' \in Seq(S \cup T \cup {Plain("role")})
      /\ Len(out') = k + Len(chunks)
      /\ \A n \in 1..Len(out) : out'[n] = out[n]
      /\ ~sentRole => out'[Len(out) + 1] = Plain("role")
      /\ \A n \in 1..Len(chunks) : out'[k + n] = chunks[n]
  BY <1>1, YieldsAppends
<1>3. /\ Len(out) \in Nat /\ Len(chunks) \in {2, 3} /\ DOMAIN out = 1..Len(out)
      /\ DOMAIN out' = 1..Len(out')
  BY <1>1, <1>2
<1>4. (sentRole => Len(out) >= 1) /\ (~sentRole => Len(out) = 0)
  BY <1>1, <1>3, EmptySeq DEF FrameInv
<1>5. k \in Nat /\ k >= 1
  BY <1>3, <1>4
<1>6. \A n \in 1..k : /\ (out'[n].kind = "role") = (n = 1)
                      /\ out'[n].kind \in Shown \cup {"role"}
  <2>1. \A n \in 1..Len(out) : /\ (out'[n].kind = "role") = (n = 1)
                               /\ out'[n].kind \in Shown \cup {"role"}
    <3>1. \A n \in 1..Len(out) : /\ (out[n].kind = "role") = (n = 1)
                                 /\ out[n].kind \in Shown \cup {"role"}
      BY <1>3 DEF FrameInv
    <3>2. \A n \in 1..Len(out) : out'[n] = out[n]
      BY <1>2
    <3>3. QED
      BY <3>1, <3>2
  <2>2. ~sentRole => k = 1 /\ out'[1].kind = "role"
    <3>1. ~sentRole => Len(out) = 0 /\ k = 1
      BY <1>4
    <3>2. Plain("role").kind = "role"
      BY DEF Plain
    <3> HIDE DEF h, k
    <3>3. QED
      BY <1>2, <3>1, <3>2
  <2>3. sentRole => k = Len(out)
    BY <1>3
  <2>4. QED
    BY <2>1, <2>2, <2>3
<1> HIDE DEF h, k
<1>7. /\ out'[k + 1].kind = chunks[1].kind
      /\ out'[k + 2].kind = chunks[2].kind
      /\ Len(chunks) = 3 => out'[k + 3].kind = chunks[3].kind
  BY <1>2, <1>3
<1>8. /\ Len(out') = k + Len(chunks) /\ k + 1 # 1 /\ k + 2 # 1 /\ k + 3 # 1
      /\ DOMAIN out' = 1..(k + Len(chunks))
  BY <1>2, <1>3, <1>5
<1>9. \A n \in DOMAIN out' : n \in 1..k \/ n = k + 1 \/ n = k + 2 \/ (n = k + 3 /\ Len(chunks) = 3)
  BY <1>3, <1>5, <1>8
<1>10. \A n \in DOMAIN out' : (out'[n].kind = "role") = (n = 1)
  BY <1>3, <1>5, <1>6, <1>7, <1>8, <1>9
<1>11. \A n \in DOMAIN out' : out'[n].kind \in Shown \cup Closers \cup {"role"}
  BY <1>3, <1>5, <1>6, <1>7, <1>8, <1>9 DEF Closers
<1>12. FrameOrder'
  <2>1. \A n \in DOMAIN out' : out'[n].kind = "done" => n = Len(out')
    BY <1>3, <1>5, <1>6, <1>7, <1>8, <1>9 DEF Shown
  <2>2. \A n \in DOMAIN out' : out'[n].kind \in {"final", "error"} =>
          \A m \in n+1..Len(out') : out'[m].kind \in {"usage", "done"}
    <3>1. \A n \in DOMAIN out' : out'[n].kind \in {"final", "error"} => n = k + 1
      BY <1>3, <1>5, <1>6, <1>7, <1>8, <1>9 DEF Shown
    <3>2. \A m \in k+2..Len(out') : out'[m].kind \in {"usage", "done"}
      <4>1. \A m \in k+2..Len(out') : m = k + 2 \/ (m = k + 3 /\ Len(chunks) = 3)
        BY <1>3, <1>5, <1>8
      <4>2. QED
        BY <1>3, <1>7, <4>1
    <3>3. QED
      BY <1>5, <1>8, <3>1, <3>2
  <2>3. up' \in {"completed", "max_output_tokens", "content_filter"} =>
          /\ out'[Len(out')].kind = "done"
          /\ out'[Len(out') - 1].kind = IF includeUsage' THEN "usage" ELSE "final"
    <3>1. CASE Len(chunks) = 3
      BY <1>5, <1>7, <1>8, <3>1
    <3>2. CASE Len(chunks) = 2
      BY <1>5, <1>7, <1>8, <3>2
    <3>3. QED
      BY <1>3, <3>1, <3>2
  <2>4. up' = "failed" => out'[Len(out')].kind = "done" /\ out'[Len(out') - 1].kind = "error"
    <3>1. SUFFICES ASSUME up' = "failed"
                   PROVE  out'[Len(out')].kind = "done" /\ out'[Len(out') - 1].kind = "error"
      OBVIOUS
    <3>2. Len(chunks) = 2 /\ chunks[1].kind = "error"
      BY <3>1
    <3>3. Len(out') = k + 2 /\ Len(out') - 1 = k + 1
      BY <1>5, <1>8, <3>2
    <3>4. QED
      BY <1>7, <3>2, <3>3
  <2>5. QED
    BY <1>10, <2>1, <2>2, <2>3, <2>4 DEF FrameOrder
<1>13. sentRole' = TRUE /\ out' # <<>>
  BY <1>2, <1>3, <1>5, EmptySeq DEF Yields
<1>14. QED
  BY <1>2, <1>10, <1>11, <1>12, <1>13 DEF FrameInv

LEMMA FrameStep == FrameInv /\ includeUsage \in BOOLEAN /\ [Next]_vars => FrameInv'
<1> SUFFICES ASSUME FrameInv, includeUsage \in BOOLEAN, [Next]_vars PROVE FrameInv'
  OBVIOUS
<1>1. ASSUME UNCHANGED <<out, sentRole, includeUsage>>,
             up' = up \/ (up = "open" /\ up' = "ended")
      PROVE  FrameInv'
  BY <1>1 DEF FrameInv, FrameOrder
<1>2. CASE Ends \/ Over \/ UNCHANGED vars
  BY <1>1, <1>2 DEF Ends, Over, vars, upstreamVars, mapperVars
<1>3. ASSUME up = "open", up' = up, Yields(<<>>) PROVE FrameInv'
  <2>1. <<>> \in Seq({}) /\ DOMAIN <<>> = {}
    OBVIOUS
  <2>2. QED
    BY <1>3, <2>1, ContentFrames
<1>4. CASE Ignored
  BY <1>3, <1>4 DEF Ignored, upstreamVars
<1>5. ASSUME NEW i, ItemAdded(i) \/ ItemDone(i) PROVE FrameInv'
  BY <1>3, <1>5 DEF ItemAdded, ItemDone, Opens
<1>6. ASSUME NEW chunk, chunk.kind \in Shown, up = "open", up' = up, Yields(<<chunk>>)
      PROVE  FrameInv'
  <2>1. <<chunk>> \in Seq({chunk}) /\ \A n \in DOMAIN <<chunk>> : <<chunk>>[n].kind \in Shown
    BY <1>6
  <2>2. QED
    BY <1>6, <2>1, ContentFrames
<1>7. ASSUME NEW i, ContentDelta(i) PROVE FrameInv'
  <2>1. ContentChunk(i).kind \in Shown
    BY DEF ContentChunk, Shown
  <2>2. QED
    BY <1>6, <1>7, <2>1 DEF ContentDelta
<1>8. \A index, id, data : CallChunk(index, id, data).kind \in Shown
  BY DEF CallChunk, Shown
<1>9. ASSUME NEW c, CallAdded(c) PROVE FrameInv'
  BY <1>6, <1>8, <1>9 DEF CallAdded, Opens
<1>10. ASSUME NEW c, ArgumentsDelta(c) PROVE FrameInv'
  BY <1>6, <1>8, <1>10 DEF ArgumentsDelta, Opens
<1>11. CASE Failed
  <2> DEFINE chunks == <<Plain("error"), Plain("done")>>
  <2>1. /\ chunks \in Seq({Plain("error"), Plain("done")}) /\ Len(chunks) = 2
        /\ chunks[1].kind = "error" /\ chunks[2].kind = "done"
    BY DEF Plain
  <2>2. Yields(chunks) /\ up = "open" /\ up' = "failed" /\ UNCHANGED includeUsage
    BY <1>11 DEF Failed
  <2> HIDE DEF chunks
  <2>3. QED
    BY <2>1, <2>2, LastFrames
<1>12. ASSUME NEW reason, NEW output, Terminal(reason, output), up = "open",
              up' \in {"completed", "max_output_tokens", "content_filter"}
       PROVE  FrameInv'
  <2>1. PICK final : /\ final.kind = "final"
                     /\ Yields(<<final>> \o (IF includeUsage THEN <<Plain("usage")>> ELSE <<>>)
                                         \o <<Plain("done")>>)
    BY <1>12 DEF Terminal, FinalChunk
  <2>2. UNCHANGED includeUsage
    BY <1>12 DEF Terminal
  <2> DEFINE chunks == <<final>> \o (IF includeUsage THEN <<Plain("usage")>> ELSE <<>>)
                                 \o <<Plain("done")>>
  <2>3. /\ chunks \in Seq({final, Plain("usage"), Plain("done")})
        /\ Len(chunks) = IF includeUsage THEN 3 ELSE 2
        /\ chunks[1] = final
        /\ includeUsage => chunks[2] = Plain("usage")
        /\ chunks[Len(chunks)] = Plain("done")
    BY <1>12, LastChunks
  <2>4. Plain("usage").kind = "usage" /\ Plain("done").kind = "done"
    BY DEF Plain
  <2> HIDE DEF chunks
  <2>5. Yields(chunks)
    BY <2>1 DEF chunks
  <2>6. QED
    BY <1>12, <2>1, <2>2, <2>3, <2>4, <2>5, LastFrames
<1>13. QED
  BY <1>2, <1>4, <1>5, <1>7, <1>9, <1>10, <1>11, <1>12 DEF Next, Completed, Incomplete

-----------------------------------------------------------------------------
(* Type correctness, with the indexes and the chunks known to be in order  *)

UpstreamType ==
  /\ opened \in Seq(Items)
  /\ frags \in [Items -> Nat]
  /\ \A c \in Calls : frags[c] <= MaxFrags
  /\ \A m \in Messages : frags[m] <= MaxContent
  /\ finished \subseteq Items
  /\ bare \subseteq Calls
  /\ up \in {"open", "completed", "max_output_tokens", "content_filter", "failed", "ended"}
  /\ includeUsage \in BOOLEAN

MapperType ==
  /\ sentRole \in BOOLEAN
  /\ DOMAIN callIndexes \subseteq Keys
  /\ announcedCalls \subseteq Keys
  /\ DOMAIN functionItems \subseteq Keys
  /\ functionItems \in [DOMAIN functionItems -> Calls]
  /\ completedItems \in Seq(Items)

LEMMA UpstreamTypeStep == UpstreamType /\ [Next]_vars => UpstreamType'
<1> SUFFICES ASSUME UpstreamType, [Next]_vars PROVE UpstreamType'
  OBVIOUS
<1> USE DEF UpstreamType
<1>1. CASE Ignored \/ Failed \/ Ends \/ Over \/ UNCHANGED vars
  BY <1>1 DEF Ignored, Failed, Ends, Over, vars, upstreamVars
<1>2. ASSUME NEW i \in Items, opened' = Append(opened, i) PROVE opened' \in Seq(Items)
  BY <1>2
<1>3. ASSUME NEW i \in Items, ItemAdded(i) PROVE UpstreamType'
  BY <1>2, <1>3 DEF ItemAdded, Opens
<1>4. ASSUME NEW c \in Calls, CallAdded(c) PROVE UpstreamType'
  BY <1>2, <1>4 DEF CallAdded, Opens, Items
<1>5. ASSUME NEW i \in Messages, ContentDelta(i) PROVE UpstreamType'
  <2>1. i \in Items /\ i \notin Calls /\ frags[i] \in Nat
    BY KindsAssumption DEF Items
  <2>2. frags' \in [Items -> Nat] /\ frags'[i] = frags[i] + 1
        /\ \A j \in Items : j # i => frags'[j] = frags[j]
    BY <1>5, <2>1 DEF ContentDelta
  <2>3. frags'[i] <= MaxContent
    BY <1>5, <2>1, <2>2, FragsAssumption DEF ContentDelta
  <2>4. QED
    BY <1>5, <2>1, <2>2, <2>3 DEF ContentDelta, Items
<1>6. ASSUME NEW c \in Calls, ArgumentsDelta(c) PROVE UpstreamType'
  <2>1. c \in Items /\ c \notin Messages /\ frags[c] \in Nat
    BY KindsAssumption DEF Items
  <2>2. frags' \in [Items -> Nat] /\ frags'[c] = frags[c] + 1
        /\ \A j \in Items : j # c => frags'[j] = frags[j]
    BY <1>6, <2>1 DEF ArgumentsDelta
  <2>3. frags'[c] <= MaxFrags
    BY <1>6, <2>1, <2>2, FragsAssumption DEF ArgumentsDelta
  <2>4. opened' \in Seq(Items) /\ bare' \subseteq Calls
    BY <1>2, <1>6, <2>1 DEF ArgumentsDelta, Opens
  <2>5. QED
    BY <1>6, <2>1, <2>2, <2>3, <2>4 DEF ArgumentsDelta, Opens, Items
<1>7. ASSUME NEW i \in Items, ItemDone(i) PROVE UpstreamType'
  BY <1>7 DEF ItemDone
<1>8. ASSUME NEW output, Completed(output) PROVE UpstreamType'
  BY <1>8 DEF Completed, Terminal
<1>9. ASSUME NEW reason \in {"max_output_tokens", "content_filter"}, NEW output,
             Incomplete(reason, output)
      PROVE  UpstreamType'
  BY <1>9 DEF Incomplete, Terminal
<1>10. QED
  BY <1>1, <1>3, <1>4, <1>5, <1>6, <1>7, <1>8, <1>9 DEF Next

\* A call is booked under its call id or its item id.
LEMMA MapperTypeStep ==
  UpstreamType /\ MapperType /\ [Next]_vars => MapperType'
<1> SUFFICES ASSUME UpstreamType, MapperType, [Next]_vars PROVE MapperType'
  OBVIOUS
<1> USE DEF MapperType
<1>0. ASSUME NEW chunks, Yields(chunks) PROVE sentRole' \in BOOLEAN
  BY <1>0 DEF Yields
<1>1. CASE Ignored \/ Failed \/ Ends \/ Over \/ UNCHANGED vars
  BY <1>0, <1>1 DEF Ignored, Failed, Ends, Over, vars, mapperVars
<1>2. ASSUME NEW i \in Items, ItemAdded(i) PROVE MapperType'
  BY <1>0, <1>2 DEF ItemAdded
<1>3. ASSUME NEW i \in Messages, ContentDelta(i) PROVE MapperType'
  BY <1>0, <1>3 DEF ContentDelta
<1>4. ASSUME NEW i \in Items, ItemDone(i) PROVE MapperType'
  <2>1. completedItems' \in Seq(Items)
    BY <1>4 DEF ItemDone
  <2>2. QED
    BY <1>0, <1>4, <2>1 DEF ItemDone
<1>5. ASSUME NEW c \in Calls, CallAdded(c) PROVE MapperType'
  <2>1. ItemId(c) \in Keys /\ c \in Keys
    BY DEF Keys
  <2>2. /\ DOMAIN functionItems' = DOMAIN functionItems \cup {ItemId(c)}
        /\ functionItems' \in [DOMAIN functionItems' -> Calls]
    BY <1>5 DEF CallAdded
  <2>3. DOMAIN callIndexes' = DOMAIN callIndexes \cup {c}
    BY <1>5 DEF CallAdded, WithCall
  <2>4. sentRole' \in BOOLEAN
    BY <1>0, <1>5 DEF CallAdded
  <2>5. QED
    BY <1>5, <2>1, <2>2, <2>3, <2>4 DEF CallAdded
<1>6. ASSUME NEW c \in Calls, ArgumentsDelta(c) PROVE MapperType'
  <2>1. PICK id : /\ id = BookedUnder(c)
                  /\ callIndexes' = WithCall(callIndexes, id)
                  /\ announcedCalls' = announcedCalls \cup {id}
    BY <1>6 DEF ArgumentsDelta
  <2>2. id \in Keys
    BY <2>1 DEF BookedUnder, Keys
  <2>3. DOMAIN callIndexes' = DOMAIN callIndexes \cup {id}
    BY <2>1 DEF WithCall
  <2>4. sentRole' \in BOOLEAN
    BY <1>0, <1>6 DEF ArgumentsDelta
  <2>5. QED
    BY <1>6, <2>1, <2>2, <2>3, <2>4 DEF ArgumentsDelta
<1>7. ASSUME NEW reason, NEW output \in {<<>>, opened}, Terminal(reason, output)
      PROVE  MapperType'
  <2>1. completedItems' \in Seq(Items)
    BY <1>7 DEF Terminal, UpstreamType
  <2>2. sentRole' \in BOOLEAN
    BY <1>0, <1>7 DEF Terminal
  <2>3. QED
    BY <1>7, <2>1, <2>2 DEF Terminal
<1>8. QED
  BY <1>1, <1>2, <1>3, <1>4, <1>5, <1>6, <1>7 DEF Next, Completed, Incomplete

Inv == UpstreamType /\ MapperType /\ FrameInv

LEMMA InvHolds == Spec => []Inv
<1>1. Init => Inv
  <2> SUFFICES ASSUME Init PROVE Inv
    OBVIOUS
  <2>1. UpstreamType
    BY FragsAssumption DEF Init, UpstreamType, Items
  <2>2. MapperType
    <3>1. DOMAIN callIndexes = {} /\ DOMAIN functionItems = {}
      BY DEF Init
    <3>2. functionItems \in [DOMAIN functionItems -> Calls]
      BY DEF Init
    <3>3. <<>> \in Seq(Items)
      OBVIOUS
    <3>4. QED
      BY <3>1, <3>2, <3>3 DEF Init, MapperType
  <2>3. out = <<>> /\ out \in Seq({}) /\ DOMAIN out = {} /\ up = "open" /\ sentRole = FALSE
    BY DEF Init
  <2>4. FrameInv
    BY <2>3 DEF FrameInv, FrameOrder
  <2>5. QED
    BY <2>1, <2>2, <2>4 DEF Inv
<1>2. Inv /\ [Next]_vars => Inv'
  BY UpstreamTypeStep, MapperTypeStep, FrameStep DEF Inv, UpstreamType
<1>3. QED
  BY <1>1, <1>2, PTL DEF Spec

\* Every variable has its type: in particular whatever call an argument delta
\* is booked under is a call the client can be told of.
THEOREM TypeCorrect == Spec => []TypeOK
<1>1. Inv /\ IndexInv => TypeOK
  BY DEF Inv, IndexInv, UpstreamType, MapperType, FrameInv, TypeOK, Shown, Closers
<1>2. QED
  BY <1>1, InvHolds, IndexInvHolds, PTL

\* However long a stream is and wherever it breaks off, its chunks come in the
\* order a Chat Completions client expects.
THEOREM FramesInOrder == Spec => []FrameOrder
<1>1. Inv => FrameOrder
  BY DEF Inv, FrameInv
<1>2. QED
  BY <1>1, InvHolds, PTL
=============================================================================
