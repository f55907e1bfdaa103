------------------------- MODULE AudioBufferProofs -------------------------
(***************************************************************************)
(* What the jitter buffer guarantees for every capacity, chunk size, wrap  *)
(* width and number of tasks: every slot of the pool is in one place, the  *)
(* index is in playing order across the wrap of the timestamps, and the    *)
(* buffer implements the bounded queue of FrameQueue.                      *)
(***************************************************************************)
EXTENDS AudioBuffer, SequenceTheorems, TLAPS

----------------------------------------------------------------------------
(* What the operations on the index and on the free stack do to the set of *)
(* their elements.                                                         *)

\* A function on 1 .. n is a sequence of length n.
LEMMA FunctionIsSeq ==
  ASSUME NEW S, NEW n \in Nat, NEW g \in [1 .. n -> S]
  PROVE  g \in Seq(S) /\ Len(g) = n
  BY SeqDef

\* Pushing a slot that is not on the stack keeps its elements distinct.
LEMMA AppendFacts ==
  ASSUME NEW S, NEW q \in Seq(S), NEW x \in S
  PROVE  /\ Append(q, x) \in Seq(S)
         /\ Range(Append(q, x)) = Range(q) \cup {x}
         /\ IsInjective(q) /\ x \notin Range(q) => IsInjective(Append(q, x))
<1>1. /\ Append(q, x) \in Seq(S)
      /\ DOMAIN Append(q, x) = 1 .. Len(q) + 1
      /\ \A i \in 1 .. Len(q) : Append(q, x)[i] = q[i]
      /\ Append(q, x)[Len(q) + 1] = x
      /\ DOMAIN q = 1 .. Len(q) /\ Len(q) \in Nat
  OBVIOUS
<1>2. Range(Append(q, x)) = Range(q) \cup {x}
  BY <1>1 DEF Range
<1>3. ASSUME IsInjective(q), x \notin Range(q)
      PROVE  IsInjective(Append(q, x))
  BY <1>1, <1>3 DEF IsInjective, Range
<1> QED
  BY <1>1, <1>2, <1>3

\* Removing the oldest entry of the index.
LEMMA TailFacts ==
  ASSUME NEW S, NEW q \in Seq(S), q # <<>>
  PROVE  /\ Head(q) \in S /\ Tail(q) \in Seq(S)
         /\ Len(q) > 0 /\ Len(Tail(q)) = Len(q) - 1
         /\ \A i \in 1 .. Len(q) - 1 : Tail(q)[i] = q[i + 1]
         /\ Head(q) = q[1]
         /\ Range(q) = Range(Tail(q)) \cup {Head(q)}
         /\ IsInjective(q) => IsInjective(Tail(q)) /\ Head(q) \notin Range(Tail(q))
<1>1. /\ Head(q) \in S /\ Tail(q) \in Seq(S)
      /\ Len(q) \in Nat /\ Len(q) > 0 /\ Len(Tail(q)) = Len(q) - 1
      /\ Head(q) = q[1]
  BY EmptySeq, HeadTailProperties
<1>2. /\ DOMAIN q = 1 .. Len(q)
      /\ DOMAIN Tail(q) = 1 .. Len(q) - 1
      /\ \A i \in 1 .. Len(q) - 1 : Tail(q)[i] = q[i + 1]
  BY <1>1, HeadTailProperties
<1>3. Range(q) = Range(Tail(q)) \cup {Head(q)}
  <2>1. ASSUME NEW i \in 1 .. Len(q)
        PROVE  q[i] \in Range(Tail(q)) \cup {Head(q)}
    <3>1. CASE i = 1
      BY <1>1, <3>1
    <3>2. CASE i # 1
      <4>1. i - 1 \in 1 .. Len(q) - 1 /\ Tail(q)[i - 1] = q[i]
        BY <1>1, <1>2, <3>2
      <4> QED
        BY <1>2, <4>1 DEF Range
    <3> QED
      BY <3>1, <3>2
  <2>2. ASSUME NEW i \in 1 .. Len(q) - 1
        PROVE  Tail(q)[i] \in Range(q)
    <3>1. i + 1 \in 1 .. Len(q)
      BY <1>1
    <3> QED
      BY <1>2, <3>1 DEF Range
  <2> QED
    BY <1>1, <1>2, <2>1, <2>2 DEF Range
<1>4. ASSUME IsInjective(q)
      PROVE  IsInjective(Tail(q)) /\ Head(q) \notin Range(Tail(q))
  <2>1. IsInjective(Tail(q))
    BY <1>1, <1>2, <1>4 DEF IsInjective
  <2>2. ASSUME NEW i \in 1 .. Len(q) - 1
        PROVE  Tail(q)[i] # Head(q)
    BY <1>1, <1>2, <1>4 DEF IsInjective
  <2> QED
    BY <1>2, <2>1, <2>2 DEF Range
<1> QED
  BY <1>1, <1>2, <1>3, <1>4

\* Popping the free stack.
LEMMA FrontFacts ==
  ASSUME NEW S, NEW q \in Seq(S), q # <<>>
  PROVE  /\ Last(q) \in S /\ Front(q) \in Seq(S)
         /\ Range(q) = Range(Front(q)) \cup {Last(q)}
         /\ IsInjective(q) => IsInjective(Front(q)) /\ Last(q) \notin Range(Front(q))
<1>1. Len(q) \in Nat /\ Len(q) > 0 /\ DOMAIN q = 1 .. Len(q)
      /\ \A i \in 1 .. Len(q) : q[i] \in S
  BY EmptySeq, LenProperties, ElementOfSeq
<1>2. /\ Front(q) \in Seq(S) /\ Len(Front(q)) = Len(q) - 1
      /\ \A i \in 1 .. Len(q) - 1 : Front(q)[i] = q[i]
  BY <1>1 DEF Front
<1>3. DOMAIN Front(q) = 1 .. Len(q) - 1 /\ Last(q) = q[Len(q)]
  BY <1>1, <1>2 DEF Last
<1>4. Range(q) = Range(Front(q)) \cup {Last(q)}
  BY <1>1, <1>2, <1>3 DEF Range
<1>5. ASSUME IsInjective(q)
      PROVE  IsInjective(Front(q)) /\ Last(q) \notin Range(Front(q))
  BY <1>1, <1>2, <1>3, <1>5 DEF Range, IsInjective
<1> QED
  BY <1>1, <1>2, <1>3, <1>4, <1>5

\* A flush pushes the whole index onto the free stack.
LEMMA ConcatFacts ==
  ASSUME NEW S, NEW q \in Seq(S), NEW r \in Seq(S)
  PROVE  /\ q \o r \in Seq(S)
         /\ Range(q \o r) = Range(q) \cup Range(r)
         /\ IsInjective(q) /\ IsInjective(r) /\ Range(q) \cap Range(r) = {}
              => IsInjective(q \o r)
<1>1. /\ q \o r \in Seq(S) /\ Len(q) \in Nat /\ Len(r) \in Nat
      /\ DOMAIN q = 1 .. Len(q) /\ DOMAIN r = 1 .. Len(r)
      /\ DOMAIN (q \o r) = 1 .. Len(q) + Len(r)
      /\ \A i \in 1 .. Len(q) + Len(r) :
           (q \o r)[i] = IF i =< Len(q) THEN q[i] ELSE r[i - Len(q)]
  BY ConcatProperties, LenProperties
<1>2. \A i \in 1 .. Len(r) : (q \o r)[i + Len(q)] = r[i]
  BY <1>1
<1>3. Range(q \o r) = Range(q) \cup Range(r)
  <2>1. ASSUME NEW i \in 1 .. Len(q) + Len(r)
        PROVE  (q \o r)[i] \in Range(q) \cup Range(r)
    BY <1>1 DEF Range
  <2>2. ASSUME NEW i \in 1 .. Len(q)
        PROVE  q[i] \in Range(q \o r)
    BY <1>1 DEF Range
  <2>3. ASSUME NEW i \in 1 .. Len(r)
        PROVE  r[i] \in Range(q \o r)
    <3>1. i + Len(q) \in 1 .. Len(q) + Len(r)
      BY <1>1
    <3> QED
      BY <1>1, <1>2, <3>1 DEF Range
  <2> QED
    BY <1>1, <2>1, <2>2, <2>3 DEF Range
<1>4. ASSUME IsInjective(q), IsInjective(r), Range(q) \cap Range(r) = {},
             NEW i \in 1 .. Len(q) + Len(r), NEW j \in 1 .. Len(q) + Len(r),
             (q \o r)[i] = (q \o r)[j]
      PROVE  i = j
  <2>1. \A k \in 1 .. Len(q), l \in 1 .. Len(r) : q[k] # r[l]
    BY <1>1, <1>4 DEF Range
  <2> QED
    BY <1>1, <1>4, <2>1, SMTT(30) DEF IsInjective
<1> QED
  BY <1>1, <1>3, <1>4 DEF IsInjective

\* Inserting a slot that is not in the index.
LEMMA InsertFacts ==
  ASSUME NEW S, NEW q \in Seq(S), NEW x \in S, NEW pos \in 1 .. Len(q) + 1
  PROVE  /\ Insert(q, pos, x) \in Seq(S)
         /\ Len(Insert(q, pos, x)) = Len(q) + 1
         /\ Range(Insert(q, pos, x)) = Range(q) \cup {x}
         /\ IsInjective(q) /\ x \notin Range(q) => IsInjective(Insert(q, pos, x))
<1> DEFINE r == Insert(q, pos, x)
<1>1. /\ Len(q) \in Nat /\ DOMAIN q = 1 .. Len(q)
      /\ \A i \in 1 .. Len(q) : q[i] \in S
  BY LenProperties, ElementOfSeq
<1>2. /\ DOMAIN r = 1 .. Len(q) + 1
      /\ \A i \in 1 .. Len(q) + 1 :
           r[i] = IF i < pos THEN q[i] ELSE IF i = pos THEN x ELSE q[i - 1]
  BY <1>1 DEF Insert
<1>3. \A i \in 1 .. Len(q) + 1 : r[i] \in S
  BY <1>1, <1>2
<1>4. r \in Seq(S) /\ Len(r) = Len(q) + 1
  <2>1. r \in [1 .. Len(q) + 1 -> S]
    BY <1>2, <1>3 DEF Insert
  <2> QED
    BY <1>1, <2>1, FunctionIsSeq
<1>5. Range(r) = Range(q) \cup {x}
  <2>1. ASSUME NEW i \in 1 .. Len(q) + 1
        PROVE  r[i] \in Range(q) \cup {x}
    <3>1. CASE i < pos
      BY <1>1, <1>2, <3>1 DEF Range
    <3>2. CASE i = pos
      BY <1>1, <1>2, <3>2
    <3>3. CASE i > pos
      <4>1. i - 1 \in 1 .. Len(q) /\ r[i] = q[i - 1]
        BY <1>1, <1>2, <3>3
      <4> QED
        BY <1>1, <4>1 DEF Range
    <3> QED
      BY <1>1, <3>1, <3>2, <3>3
  <2>2. ASSUME NEW i \in 1 .. Len(q)
        PROVE  q[i] \in Range(r)
    <3>1. CASE i < pos
      BY <1>1, <1>2, <3>1 DEF Range
    <3>2. CASE i >= pos
      <4>1. i + 1 \in 1 .. Len(q) + 1 /\ r[i + 1] = q[i]
        BY <1>1, <1>2, <3>2
      <4> QED
        BY <1>2, <4>1 DEF Range
    <3> QED
      BY <1>1, <3>1, <3>2
  <2>3. x \in Range(r)
    BY <1>2 DEF Range
  <2> QED
    BY <1>1, <1>2, <2>1, <2>2, <2>3 DEF Range
<1>6. ASSUME IsInjective(q), x \notin Range(q),
             NEW i \in 1 .. Len(q) + 1, NEW j \in 1 .. Len(q) + 1, r[i] = r[j]
      PROVE  i = j
  <2>1. \A k \in 1 .. Len(q) : q[k] # x
    BY <1>1, <1>6 DEF Range
  <2> DEFINE back(k) == IF k < pos THEN k ELSE k - 1
  <2>2. \A k \in 1 .. Len(q) + 1 :
          k # pos => back(k) \in 1 .. Len(q) /\ r[k] = q[back(k)]
    BY <1>1, <1>2
  <2>3. r[pos] = x
    BY <1>1, <1>2
  <2>4. CASE i = pos \/ j = pos
    BY <1>6, <2>1, <2>2, <2>3, <2>4
  <2>5. CASE i # pos /\ j # pos
    <3>1. back(i) = back(j)
      BY <1>1, <1>6, <2>2, <2>5 DEF IsInjective
    <3> QED
      BY <1>1, <2>5, <3>1
  <2> QED
    BY <2>4, <2>5
<1> QED
  BY <1>2, <1>4, <1>5, <1>6 DEF IsInjective

----------------------------------------------------------------------------
(* Timestamps.                                                             *)

\* The signed comparison orders two timestamps of one stream correctly, also
\* when the counter wraps between them.
LEMMA TsCmpOrders ==
  ASSUME NEW a \in Stamps, NEW b \in Stamps, At(a) =< Span, At(b) =< Span
  PROVE  ts_cmp(a, b) = At(a) - At(b)
  BY TimeAssumption DEF Stamps, At, ts_cmp

\* The timestamp n samples later, as long as the stream has not ended.
LEMMA AdvanceStamp ==
  ASSUME NEW t \in Stamps, NEW n \in Nat, At(t) + n =< Span
  PROVE  Wrap(t + n) \in Stamps /\ At(Wrap(t + n)) = At(t) + n
  BY TimeAssumption DEF Stamps, At, Wrap

\* The first timestamp of the stream is position 0.
LEMMA OriginStamp == Origin \in Stamps /\ At(Origin) = 0
  BY TimeAssumption DEF Stamps, At

----------------------------------------------------------------------------
(* The invariant, for an index q, a free stack f and headers h.            *)

Partition(q, f) ==
  /\ q \in Seq(Slots) /\ f \in Seq(Slots)
  /\ IsInjective(q) /\ IsInjective(f)
  /\ Range(q) \cap Range(f) = {}
  /\ held \cap (Range(q) \cup Range(f)) = {}
  /\ Range(q) \cup Range(f) \cup held = Slots

Ordered(q, h) ==
  \A i, j \in DOMAIN q : i < j => At(h[q[i]].ts) =< At(h[q[j]].ts)

InSpan(q, h) ==
  \A i \in DOMAIN q : At(h[q[i]].ts) =< Span /\ h[q[i]].samples > 0

\* Making room in a full buffer moves the oldest slot to the free stack and
\* disturbs nothing else.
LEMMA EvictionKeeps ==
  ASSUME IndInv
  PROVE  /\ Partition(EvictedIndex, EvictedFree)
         /\ Ordered(EvictedIndex, hdr)
         /\ InSpan(EvictedIndex, hdr)
         /\ MustEvict => sorted # <<>> /\ EvictedFree # <<>>
         /\ EvictedTokens \in 0 .. Capacity
         /\ EvictedSamples \in Nat
<1> USE DEF IndInv, TypeOK, SlotsPartitioned, StampsInSpan, PlaysInOrder
<1>1. CASE ~MustEvict
  BY <1>1 DEF EvictedIndex, EvictedFree, EvictedTokens, EvictedSamples,
              Partition, Ordered, InSpan
<1>2. CASE MustEvict
  <2>1. sorted \in Seq(Slots) /\ free_stack \in Seq(Slots) /\ sorted # <<>>
    BY <1>2, CapacityAssumption DEF MustEvict
  <2>2. /\ EvictedIndex = Tail(sorted)
        /\ EvictedFree = Append(free_stack, Head(sorted))
    BY <1>2 DEF EvictedIndex, EvictedFree
  <2>3. Head(sorted) \notin Range(free_stack) /\ Head(sorted) \in Range(sorted)
    BY <2>1, TailFacts
  <2>4. Partition(EvictedIndex, EvictedFree)
    BY <2>1, <2>2, <2>3, TailFacts, AppendFacts DEF Partition
  <2>5. /\ DOMAIN sorted = 1 .. Len(sorted) /\ Len(sorted) \in Nat
        /\ DOMAIN EvictedIndex = 1 .. Len(sorted) - 1
        /\ \A i \in 1 .. Len(sorted) - 1 : EvictedIndex[i] = sorted[i + 1]
    BY <2>1, <2>2, TailFacts, LenProperties
  <2>6. Ordered(EvictedIndex, hdr) /\ InSpan(EvictedIndex, hdr)
    <3>1. \A i \in 1 .. Len(sorted) - 1 : i + 1 \in DOMAIN sorted
      BY <2>5
    <3>2. ASSUME NEW i \in 1 .. Len(sorted) - 1, NEW j \in 1 .. Len(sorted) - 1,
                 i < j
          PROVE  At(hdr[sorted[i + 1]].ts) =< At(hdr[sorted[j + 1]].ts)
      <4>1. i + 1 < j + 1
        BY <3>2
      <4> QED
        BY <3>1, <4>1
    <3>3. ASSUME NEW i \in 1 .. Len(sorted) - 1
          PROVE  At(hdr[sorted[i + 1]].ts) =< Span /\ hdr[sorted[i + 1]].samples > 0
      BY <3>1
    <3> HIDE DEF IndInv
    <3> QED
      BY <2>5, <3>2, <3>3, SMTT(30) DEF Ordered, InSpan
  <2>7. EvictedFree # <<>>
    BY <2>1, <2>2, TailFacts
  <2>8. EvictedTokens \in 0 .. Capacity
    BY CapacityAssumption DEF EvictedTokens, TokenTaken
  <2>9. EvictedSamples \in Nat
    <3>1. hdr[Head(sorted)].samples \in Nat
      BY <2>1, TailFacts, ChunkAssumption DEF Headers
    <3> QED
      BY <3>1 DEF EvictedSamples, Less
  <2> QED
    BY <2>1, <2>4, <2>6, <2>7, <2>8, <2>9
<1> QED
  BY <1>1, <1>2

\* The index after a chunk was stored in a free slot: the slot is used once,
\* the order is kept, and no other frame's header changed.
LEMMA StoreKeeps ==
  ASSUME NEW q, NEW f, Partition(q, f), Ordered(q, hdr), InSpan(q, hdr),
         hdr \in [Slots -> Headers], f # <<>>,
         NEW t \in Stamps, At(t) =< Span, NEW n \in 1 .. ChunkMax,
         NEW pos \in sorted_insert_pos(q, t), NEW h,
         h = [hdr EXCEPT ![Last(f)] = [ts |-> t, samples |-> n]]
  PROVE  LET r == Insert(q, pos, Last(f))
         IN  /\ Partition(r, Front(f))
             /\ Ordered(r, h)
             /\ InSpan(r, h)
             /\ h \in [Slots -> Headers]
             /\ \A i \in DOMAIN q : h[q[i]] = hdr[q[i]]
<1> DEFINE r == Insert(q, pos, Last(f))
<1>1. /\ q \in Seq(Slots) /\ f \in Seq(Slots) /\ Last(f) \in Slots
      /\ Last(f) \in Range(f) /\ Last(f) \notin Range(q)
  BY FrontFacts DEF Partition
<1>2. /\ Len(q) \in Nat /\ DOMAIN q = 1 .. Len(q) /\ pos \in 1 .. Len(q) + 1
      /\ \A i \in 1 .. Len(q) : q[i] \in Slots /\ q[i] # Last(f)
  BY <1>1, LenProperties, ElementOfSeq DEF sorted_insert_pos, Range
<1>3. h \in [Slots -> Headers]
  BY <1>1, ChunkAssumption DEF Headers
<1>4. /\ \A i \in 1 .. Len(q) : h[q[i]] = hdr[q[i]] /\ hdr[q[i]].ts \in Stamps
      /\ h[Last(f)] = [ts |-> t, samples |-> n]
  BY <1>1, <1>2 DEF Headers
<1>5. Partition(r, Front(f))
  BY <1>1, <1>2, InsertFacts, FrontFacts DEF Partition
<1>6. /\ DOMAIN r = 1 .. Len(q) + 1
      /\ \A i \in 1 .. Len(q) + 1 :
           r[i] = IF i < pos THEN q[i] ELSE IF i = pos THEN Last(f) ELSE q[i - 1]
  BY <1>2 DEF Insert
<1> DEFINE at(i) == At(hdr[q[i]].ts)
<1>7. /\ \A i, j \in 1 .. Len(q) : i < j => at(i) =< at(j)
      /\ \A i \in 1 .. Len(q) : at(i) =< Span /\ hdr[q[i]].samples > 0
      /\ \A i \in 1 .. Len(q) : at(i) \in Int
  <2>1. \A u \in Stamps : At(u) \in Int
    BY TimeAssumption DEF At, Stamps
  <2> QED
    BY <1>2, <1>4, <2>1 DEF Ordered, InSpan
<1>8. At(t) \in Int
  BY TimeAssumption DEF At, Stamps
<1>9. /\ pos > 1 => at(pos - 1) < At(t)
      /\ pos < Len(q) + 1 => at(pos) >= At(t)
  <2>1. /\ pos > 1 => ts_cmp(hdr[q[pos - 1]].ts, t) < 0
        /\ pos < Len(q) + 1 => ts_cmp(hdr[q[pos]].ts, t) >= 0
    BY DEF sorted_insert_pos
  <2>2. ASSUME NEW i \in 1 .. Len(q)
        PROVE  ts_cmp(hdr[q[i]].ts, t) = at(i) - At(t)
    BY <1>4, <1>7, TsCmpOrders
  <2>3. CASE pos > 1
    <3>1. pos - 1 \in 1 .. Len(q)
      BY <1>2, <2>3
    <3>2. at(pos - 1) < At(t)
      BY <2>1, <2>2, <2>3, <3>1, <1>7, <1>8
    <3>3. CASE pos < Len(q) + 1
      <4>1. pos \in 1 .. Len(q)
        BY <1>2, <3>3
      <4> QED
        BY <2>1, <2>2, <3>2, <3>3, <4>1, <1>7, <1>8
    <3> QED
      BY <3>2, <3>3
  <2>4. CASE pos = 1
    <3>1. CASE pos < Len(q) + 1
      <4>1. pos \in 1 .. Len(q)
        BY <1>2, <3>1
      <4> QED
        BY <2>1, <2>2, <2>4, <3>1, <4>1, <1>7, <1>8
    <3> QED
      BY <2>4, <3>1
  <2> QED
    BY <1>2, <2>3, <2>4
<1> DEFINE back(i) == IF i < pos THEN i ELSE i - 1
<1>10. \A i \in 1 .. Len(q) + 1 :
         IF i = pos THEN h[r[i]] = [ts |-> t, samples |-> n]
                    ELSE back(i) \in 1 .. Len(q) /\ h[r[i]] = hdr[q[back(i)]]
  BY <1>2, <1>4, <1>6
<1>11. /\ \A i \in 1 .. Len(q) : i < pos => at(i) =< At(t)
       /\ \A i \in 1 .. Len(q) : i >= pos => at(i) >= At(t)
  <2>1. ASSUME NEW i \in 1 .. Len(q), i < pos
        PROVE  at(i) =< At(t)
    <3>1. pos > 1 /\ pos - 1 \in 1 .. Len(q) /\ (i = pos - 1 \/ i < pos - 1)
      BY <1>2, <2>1
    <3>2. at(i) =< at(pos - 1)
      BY <1>7, <3>1
    <3> QED
      BY <1>7, <1>8, <1>9, <3>1, <3>2
  <2>2. ASSUME NEW i \in 1 .. Len(q), i >= pos
        PROVE  at(i) >= At(t)
    <3>1. pos < Len(q) + 1 /\ pos \in 1 .. Len(q) /\ (i = pos \/ pos < i)
      BY <1>2, <2>2
    <3>2. at(pos) =< at(i)
      BY <1>7, <3>1
    <3> QED
      BY <1>7, <1>8, <1>9, <3>1, <3>2
  <2> QED
    BY <2>1, <2>2
<1>12. Ordered(r, h)
  <2> SUFFICES ASSUME NEW i \in 1 .. Len(q) + 1, NEW j \in 1 .. Len(q) + 1, i < j
               PROVE  At(h[r[i]].ts) =< At(h[r[j]].ts)
    BY <1>6 DEF Ordered
  <2>1. CASE i = pos
    <3>1. j # pos /\ back(j) \in 1 .. Len(q) /\ back(j) >= pos
      BY <1>2, <1>10, <2>1
    <3>2. At(h[r[i]].ts) = At(t) /\ At(h[r[j]].ts) = at(back(j))
      BY <1>10, <2>1, <3>1
    <3> QED
      BY <1>11, <3>1, <3>2
  <2>2. CASE j = pos
    <3>1. i # pos /\ back(i) \in 1 .. Len(q) /\ back(i) < pos
      BY <1>2, <1>10, <2>2
    <3>2. At(h[r[j]].ts) = At(t) /\ At(h[r[i]].ts) = at(back(i))
      BY <1>10, <2>2, <3>1
    <3> QED
      BY <1>11, <3>1, <3>2
  <2>3. CASE i # pos /\ j # pos
    <3>1. back(i) \in 1 .. Len(q) /\ back(j) \in 1 .. Len(q) /\ back(i) < back(j)
      BY <1>2, <1>10, <2>3
    <3>2. At(h[r[i]].ts) = at(back(i)) /\ At(h[r[j]].ts) = at(back(j))
      BY <1>10, <2>3
    <3> QED
      BY <1>7, <3>1, <3>2
  <2> QED
    BY <2>1, <2>2, <2>3
<1>13. InSpan(r, h)
  <2> SUFFICES ASSUME NEW i \in 1 .. Len(q) + 1
               PROVE  At(h[r[i]].ts) =< Span /\ h[r[i]].samples > 0
    BY <1>6 DEF InSpan
  <2>1. CASE i = pos
    BY <1>10, <2>1
  <2>2. CASE i # pos
    BY <1>7, <1>10, <2>2
  <2> QED
    BY <2>1, <2>2
<1> QED
  BY <1>2, <1>3, <1>4, <1>5, <1>12, <1>13

----------------------------------------------------------------------------
(* The inductive invariant.                                                *)

\* The empty buffer: the free stack holds every slot once.
LEMMA InitIndInv == Init => IndInv
<1> SUFFICES ASSUME Init PROVE IndInv
  OBVIOUS
<1>1. free_stack \in Seq(Slots) /\ DOMAIN free_stack = 1 .. Capacity
  <2>1. free_stack \in [1 .. Capacity -> Slots]
    BY CapacityAssumption DEF Init, Slots
  <2> QED
    BY <2>1, FunctionIsSeq, CapacityAssumption
<1>2. TypeOK
  <2>1. hdr \in [Slots -> Headers]
    BY ChunkAssumption, TimeAssumption DEF Init, Headers, Stamps
  <2>2. job \in [Producers -> [ts : Stamps, left : 0 .. MaxSamples, give : BOOLEAN]]
    BY ChunkAssumption, TimeAssumption DEF Init, Idle, Stamps
  <2>3. sorted \in Seq(Slots) /\ data_ready \in 0 .. Capacity
    BY CapacityAssumption DEF Init
  <2> QED
    BY <1>1, <2>1, <2>2, <2>3 DEF Init, TypeOK
<1>3. SlotsPartitioned
  <2>1. Range(free_stack) = Slots
    <3>1. \A s \in Slots : s + 1 \in 1 .. Capacity /\ free_stack[s + 1] = s
      BY CapacityAssumption DEF Init, Slots
    <3>2. \A i \in 1 .. Capacity : free_stack[i] \in Slots
      BY CapacityAssumption DEF Init, Slots
    <3> QED
      BY <1>1, <3>1, <3>2 DEF Range
  <2>2. IsInjective(free_stack)
    BY CapacityAssumption DEF Init, IsInjective
  <2> QED
    BY <2>1, <2>2 DEF Init, SlotsPartitioned, Range, IsInjective
<1>4. StampsInSpan /\ PlaysInOrder
  BY DEF Init, StampsInSpan, PlaysInOrder, Idle
<1> QED
  BY <1>2, <1>3, <1>4 DEF IndInv, Init

\* What a producer is about to store is a timestamp of the stream and a
\* number of samples that fits a slot.
LEMMA ChunkInSpan ==
  ASSUME IndInv, NEW p \in Producers, job[p].left > 0
  PROVE  /\ job[p].ts \in Stamps /\ At(job[p].ts) =< Span
         /\ ChunkSamples(p) \in 1 .. ChunkMax
         /\ job[p].left \in 1 .. MaxSamples
         /\ ChunkSamples(p) =< job[p].left
         /\ At(job[p].ts) + job[p].left =< Span + 1
         /\ At(job[p].ts) \in Nat
<1>1. /\ job[p] \in [ts : Stamps, left : 0 .. MaxSamples, give : BOOLEAN]
      /\ At(job[p].ts) + job[p].left =< Span + 1
  BY DEF IndInv, TypeOK, StampsInSpan
<1>2. job[p].ts \in Stamps /\ job[p].left \in 1 .. MaxSamples
  BY <1>1, ChunkAssumption
<1>3. At(job[p].ts) \in Nat
  BY <1>2, TimeAssumption DEF At, Stamps
<1>4. At(job[p].ts) =< Span
  <2> HIDE DEF At
  <2> QED
    BY <1>1, <1>2, <1>3, ChunkAssumption, TimeAssumption
<1>5. ChunkSamples(p) \in 1 .. ChunkMax /\ ChunkSamples(p) =< job[p].left
  BY <1>2, ChunkAssumption DEF ChunkSamples
<1> QED
  BY <1>1, <1>2, <1>3, <1>4, <1>5

\* Queueing a chunk.
LEMMA QueueChunkIndInv ==
  ASSUME IndInv, NEW p \in Producers, QueueChunk(p)
  PROVE  IndInv'
<1> USE DEF QueueChunk
<1>1. /\ job \in [Producers -> [ts : Stamps, left : 0 .. MaxSamples, give : BOOLEAN]]
      /\ hdr \in [Slots -> Headers]
  BY DEF IndInv, TypeOK
<1>2. job[p].left > 0 /\ job[p].left \in 1 .. MaxSamples
  BY ChunkInSpan
<1>3. CASE EvictedFree # <<>> /\ StoreChunk(p, Last(EvictedFree))
           /\ free_stack' = Front(EvictedFree)
           /\ sample_count' = EvictedSamples + ChunkSamples(p)
           /\ job' = [job EXCEPT ![p].give = TRUE]
  <2>1. PICK pos \in sorted_insert_pos(EvictedIndex, job[p].ts) :
               sorted' = Insert(EvictedIndex, pos, Last(EvictedFree))
    BY <1>3 DEF StoreChunk
  <2>2. hdr' = [hdr EXCEPT ![Last(EvictedFree)] =
                  [ts |-> job[p].ts, samples |-> ChunkSamples(p)]]
    BY <1>3 DEF StoreChunk
  <2>3. /\ Partition(sorted', free_stack')
        /\ Ordered(sorted', hdr')
        /\ InSpan(sorted', hdr')
        /\ hdr' \in [Slots -> Headers]
    BY <1>1, <1>2, <1>3, <2>1, <2>2, EvictionKeeps, ChunkInSpan, StoreKeeps
  <2>4. TypeOK'
    <3>1. job' \in [Producers -> [ts : Stamps, left : 0 .. MaxSamples, give : BOOLEAN]]
      BY <1>1, <1>3
    <3>2. data_ready' \in 0 .. Capacity /\ sample_count' \in Nat
      BY <1>2, <1>3, EvictionKeeps, ChunkInSpan
    <3> QED
      BY <2>3, <3>1, <3>2 DEF IndInv, TypeOK, Partition
  <2>5. SlotsPartitioned'
    BY <2>3 DEF IndInv, SlotsPartitioned, Partition
  <2>6. \A o \in Producers : job'[o].ts = job[o].ts /\ job'[o].left = job[o].left
    BY <1>1, <1>3
  <2>7. StampsInSpan' /\ PlaysInOrder'
    BY <2>3, <2>6 DEF IndInv, StampsInSpan, PlaysInOrder, Ordered, InSpan
  <2> QED
    BY <2>4, <2>5, <2>7 DEF IndInv
<1>4. CASE EvictedFree = <<>> /\ sorted' = EvictedIndex
           /\ free_stack' = EvictedFree /\ sample_count' = EvictedSamples
           /\ job' = [job EXCEPT ![p] = Idle] /\ UNCHANGED hdr
  <2>1. Idle \in [ts : Stamps, left : 0 .. MaxSamples, give : BOOLEAN]
    BY ChunkAssumption, TimeAssumption DEF Idle, Stamps
  <2>2. job' \in [Producers -> [ts : Stamps, left : 0 .. MaxSamples, give : BOOLEAN]]
    BY <1>1, <1>4, <2>1
  <2>3. /\ Partition(sorted', free_stack')
        /\ Ordered(sorted', hdr')
        /\ InSpan(sorted', hdr')
        /\ data_ready' \in 0 .. Capacity /\ sample_count' \in Nat
    BY <1>4, EvictionKeeps
  <2>4. TypeOK' /\ SlotsPartitioned'
    BY <1>4, <2>2, <2>3 DEF IndInv, TypeOK, SlotsPartitioned, Partition
  <2>5. \A o \in Producers : job'[o].left > 0 => job'[o] = job[o]
    BY <1>1, <1>4 DEF Idle
  <2>6. StampsInSpan' /\ PlaysInOrder'
    BY <2>3, <2>5 DEF IndInv, StampsInSpan, PlaysInOrder, Ordered, InSpan
  <2> QED
    BY <2>4, <2>6 DEF IndInv
<1> QED
  BY <1>3, <1>4

\* Splitting a decoded frame, one chunk after the other, stays on the
\* stream's timeline.
LEMMA ProducerIndInv ==
  ASSUME IndInv, NEW p \in Producers,
         \/ \E at \in 0 .. Span, n \in 1 .. MaxSamples : QueueDecoded(p, at, n)
         \/ GiveToken(p)
  PROVE  IndInv'
<1> DEFINE Jobs == [ts : Stamps, left : 0 .. MaxSamples, give : BOOLEAN]
<1>1. job \in [Producers -> Jobs]
  BY DEF IndInv, TypeOK
<1>2. ASSUME NEW new \in Jobs, new.left > 0 => At(new.ts) + new.left =< Span + 1,
             job' = [job EXCEPT ![p] = new], data_ready' \in 0 .. Capacity,
             UNCHANGED <<hdr, sorted, free_stack, sample_count, woken, held,
                         draining, flushed>>
      PROVE  IndInv'
  <2>1. job' \in [Producers -> Jobs]
    BY <1>1, <1>2
  <2>2. TypeOK'
    BY <1>2, <2>1 DEF IndInv, TypeOK
  <2>3. SlotsPartitioned' /\ PlaysInOrder'
    BY <1>2 DEF IndInv, SlotsPartitioned, PlaysInOrder
  <2>4. \A o \in Producers : job'[o] = IF o = p THEN new ELSE job[o]
    BY <1>1, <1>2
  <2>5. StampsInSpan'
    BY <1>2, <2>4 DEF IndInv, StampsInSpan
  <2> QED
    BY <1>2, <2>2, <2>3, <2>5 DEF IndInv
<1>3. ASSUME NEW at \in 0 .. Span, NEW n \in 1 .. MaxSamples, QueueDecoded(p, at, n)
      PROVE  IndInv'
  <2> DEFINE new == [ts |-> Wrap(Origin + at), left |-> n, give |-> FALSE]
  <2>1. Wrap(Origin + at) \in Stamps /\ At(Wrap(Origin + at)) = at
    BY OriginStamp, AdvanceStamp, TimeAssumption
  <2>2. new \in Jobs /\ at + n =< Span + 1
    BY <1>3, <2>1, ChunkAssumption DEF QueueDecoded
  <2>3. job' = [job EXCEPT ![p] = new] /\ data_ready' \in 0 .. Capacity
    BY <1>3 DEF QueueDecoded, IndInv, TypeOK
  <2> QED
    BY <1>2, <1>3, <2>1, <2>2, <2>3 DEF QueueDecoded
<1>4. ASSUME GiveToken(p)
      PROVE  IndInv'
  <2> DEFINE left == job[p].left - ChunkSamples(p)
             next == [ts |-> Wrap(job[p].ts + ChunkSamples(p)), left |-> left,
                      give |-> FALSE]
  <2>1. data_ready' \in 0 .. Capacity
    BY <1>4, CapacityAssumption DEF GiveToken, TokenGiven, IndInv, TypeOK
  <2>2. CASE left = 0
    <3>1. Idle \in Jobs /\ Idle.left = 0
      BY ChunkAssumption, TimeAssumption DEF Idle, Stamps
    <3>2. job' = [job EXCEPT ![p] = Idle]
      BY <1>4, <2>2 DEF GiveToken
    <3>3. Idle.left > 0 => At(Idle.ts) + Idle.left =< Span + 1
      BY <3>1
    <3> QED
      BY <1>2, <1>4, <2>1, <3>1, <3>2, <3>3 DEF GiveToken
  <2>3. CASE left # 0
    <3>1. job[p].left \in 0 .. MaxSamples
      BY <1>1
    <3>2. job[p].left > 0
      BY <2>3, <3>1, ChunkAssumption DEF ChunkSamples
    <3>3. ChunkSamples(p) \in Nat /\ left \in 1 .. MaxSamples
      BY <2>3, <3>2, ChunkInSpan, ChunkAssumption
    <3>4. At(job[p].ts) + ChunkSamples(p) =< Span
      BY <2>3, <3>2, <3>3, ChunkInSpan, TimeAssumption, ChunkAssumption
    <3>5. /\ next.ts \in Stamps
          /\ At(next.ts) = At(job[p].ts) + ChunkSamples(p)
      BY <3>2, <3>3, <3>4, ChunkInSpan, AdvanceStamp
    <3>6. next \in Jobs /\ At(next.ts) + next.left =< Span + 1
      BY <3>2, <3>3, <3>5, ChunkInSpan, ChunkAssumption, TimeAssumption
    <3>7. job' = [job EXCEPT ![p] = next]
      BY <1>4, <2>3 DEF GiveToken
    <3> QED
      BY <1>2, <1>4, <2>1, <3>6, <3>7 DEF GiveToken
  <2> QED
    BY <2>2, <2>3
<1> QED
  BY <1>3, <1>4

\* Taking and returning a frame moves one slot, a flush moves all of them.
LEMMA ConsumerIndInv ==
  ASSUME IndInv, TakeSlot \/ ReturnSlot \/ \E f \in Flushers : FlushIndex(f)
  PROVE  IndInv'
<1>1. /\ sorted \in Seq(Slots) /\ free_stack \in Seq(Slots) /\ held \subseteq Slots
      /\ \A s \in Slots : hdr[s].samples \in Nat
      /\ sample_count \in Nat
  BY ChunkAssumption DEF IndInv, TypeOK, Headers
<1>2. CASE TakeSlot /\ sorted = <<>>
  <2>1. /\ woken' = FALSE
        /\ UNCHANGED <<hdr, sorted, free_stack, sample_count, data_ready, job, held,
                       draining, flushed>>
    BY <1>2 DEF TakeSlot
  <2> QED
    BY <2>1 DEF IndInv, TypeOK, SlotsPartitioned, StampsInSpan, PlaysInOrder
<1>3. CASE TakeSlot /\ sorted # <<>>
  <2>1. /\ woken' = FALSE /\ held' = {Head(sorted)} /\ sorted' = Tail(sorted)
        /\ free_stack' = free_stack
        /\ sample_count' = Less(sample_count, hdr[Head(sorted)].samples)
        /\ UNCHANGED <<hdr, data_ready, job, draining, flushed>>
    BY <1>3 DEF TakeSlot, TakenFree
  <2>2. held = {}
    BY <1>3 DEF TakeSlot, IndInv
  <2>3. sample_count' \in Nat
    BY <1>1, <1>3, <2>1, TailFacts DEF Less
  <2>4. TypeOK'
    <3>1. held' \subseteq Slots /\ sorted' \in Seq(Slots)
      BY <1>1, <1>3, <2>1, TailFacts
    <3> QED
      BY <2>1, <2>3, <3>1 DEF IndInv, TypeOK
  <2>5. SlotsPartitioned'
    BY <1>1, <1>3, <2>1, <2>2, TailFacts DEF IndInv, SlotsPartitioned
  <2>6. /\ DOMAIN sorted = 1 .. Len(sorted) /\ Len(sorted) \in Nat
        /\ DOMAIN sorted' = 1 .. Len(sorted) - 1
        /\ \A i \in 1 .. Len(sorted) - 1 : sorted'[i] = sorted[i + 1]
    BY <1>1, <1>3, <2>1, TailFacts, LenProperties
  <2>7. \A i \in 1 .. Len(sorted) - 1 : i + 1 \in DOMAIN sorted
    BY <2>6
  <2>8. PlaysInOrder'
    <3>1. ASSUME NEW i \in 1 .. Len(sorted) - 1, NEW j \in 1 .. Len(sorted) - 1,
                 i < j
          PROVE  At(hdr[sorted[i + 1]].ts) =< At(hdr[sorted[j + 1]].ts)
      <4>1. i + 1 < j + 1
        BY <3>1
      <4> QED
        BY <2>7, <4>1 DEF IndInv, PlaysInOrder
    <3>2. \A i, j \in DOMAIN sorted' :
            i < j => At(hdr[sorted'[i]].ts) =< At(hdr[sorted'[j]].ts)
      <4> SUFFICES ASSUME NEW i \in 1 .. Len(sorted) - 1,
                          NEW j \in 1 .. Len(sorted) - 1, i < j
                   PROVE  At(hdr[sorted'[i]].ts) =< At(hdr[sorted'[j]].ts)
        BY <2>6
      <4>1. sorted'[i] = sorted[i + 1] /\ sorted'[j] = sorted[j + 1]
        BY <2>6
      <4> QED
        BY <3>1, <4>1
    <3> QED
      BY <2>1, <3>2 DEF PlaysInOrder
  <2>9. StampsInSpan'
    <3>1. \A i \in DOMAIN sorted' : /\ At(hdr[sorted'[i]].ts) =< Span
                                    /\ hdr[sorted'[i]].samples > 0
      BY <2>6, <2>7 DEF IndInv, StampsInSpan
    <3> QED
      BY <2>1, <3>1 DEF IndInv, StampsInSpan, At
  <2> QED
    BY <2>1, <2>4, <2>5, <2>8, <2>9 DEF IndInv
<1>4. CASE ReturnSlot
  <2>1. PICK s \in held : free_stack' = Append(free_stack, s)
    BY <1>4 DEF ReturnSlot
  <2>2. /\ held' = {} /\ held = {s}
        /\ UNCHANGED <<hdr, sorted, sample_count, data_ready, job, woken,
                       draining, flushed>>
    BY <1>4 DEF ReturnSlot, IndInv, SlotsPartitioned
  <2>3. TypeOK'
    BY <1>1, <2>1, <2>2, AppendFacts DEF IndInv, TypeOK
  <2>4. SlotsPartitioned'
    BY <1>1, <2>1, <2>2, AppendFacts DEF IndInv, SlotsPartitioned
  <2>5. StampsInSpan' /\ PlaysInOrder'
    BY <2>2 DEF IndInv, StampsInSpan, PlaysInOrder, At
  <2> QED
    BY <2>2, <2>3, <2>4, <2>5 DEF IndInv
<1>5. ASSUME NEW f \in Flushers, FlushIndex(f)
      PROVE  IndInv'
  <2>1. /\ free_stack' = free_stack \o sorted /\ sorted' = <<>> /\ sample_count' = 0
        /\ draining' \subseteq Flushers /\ flushed' = TRUE
        /\ UNCHANGED <<hdr, data_ready, job, woken, held>>
    BY <1>5 DEF FlushIndex, IndInv, TypeOK
  <2>2. TypeOK'
    BY <1>1, <2>1, ConcatFacts DEF IndInv, TypeOK
  <2>3. Range(<<>>) = {} /\ IsInjective(<<>>) /\ DOMAIN <<>> = {}
    BY DEF Range, IsInjective
  <2>4. SlotsPartitioned'
    BY <1>1, <2>1, <2>3, ConcatFacts DEF IndInv, SlotsPartitioned
  <2>5. StampsInSpan' /\ PlaysInOrder'
    BY <2>1, <2>3 DEF IndInv, StampsInSpan, PlaysInOrder, At
  <2> QED
    BY <2>1, <2>2, <2>4, <2>5 DEF IndInv
<1> QED
  BY <1>2, <1>3, <1>4, <1>5

\* Taking or draining a token touches no slot.
LEMMA TokenIndInv ==
  ASSUME IndInv, TakeToken \/ \E f \in Flushers : FlushToken(f)
  PROVE  IndInv'
<1>1. /\ data_ready' \in 0 .. Capacity /\ woken' \in BOOLEAN
      /\ draining' \subseteq Flushers /\ (woken' => held = {})
      /\ UNCHANGED <<hdr, sorted, free_stack, sample_count, job, held, flushed>>
  <2>1. data_ready \in 0 .. Capacity /\ draining \subseteq Flushers /\ woken \in BOOLEAN
    BY DEF IndInv, TypeOK
  <2>2. TokenTaken(data_ready) \in 0 .. Capacity
    BY <2>1, CapacityAssumption DEF TokenTaken
  <2>3. CASE TakeToken
    BY <2>1, <2>2, <2>3 DEF TakeToken
  <2>4. CASE \E f \in Flushers : FlushToken(f)
    BY <2>1, <2>2, <2>4 DEF FlushToken, IndInv
  <2> QED
    BY <2>3, <2>4
<1> QED
  BY <1>1 DEF IndInv, TypeOK, SlotsPartitioned, StampsInSpan, PlaysInOrder, At

\* Every step of every task keeps the invariant.
LEMMA NextIndInv == IndInv /\ [Next]_vars => IndInv'
<1> SUFFICES ASSUME IndInv, [Next]_vars PROVE IndInv'
  OBVIOUS
<1>1. CASE Next
  BY <1>1, ProducerIndInv, QueueChunkIndInv, ConsumerIndInv, TokenIndInv DEF Next
<1>2. CASE UNCHANGED vars
  BY <1>2 DEF vars, IndInv, TypeOK, SlotsPartitioned, StampsInSpan, PlaysInOrder, At
<1> QED
  BY <1>1, <1>2

\* IndInv holds in every reachable state of the buffer.
THEOREM InductiveInvariant == Spec => []IndInv
  BY InitIndInv, NextIndInv, PTL DEF Spec

\* The buffer's variables keep their types, the semaphore its maximum.
THEOREM TypeCorrect == Spec => []TypeOK
<1>1. IndInv => TypeOK
  BY DEF IndInv
<1> QED
  BY <1>1, InductiveInvariant, PTL

\* For every pool size and any number of producers and flushers, no slot is
\* lost, shared or overwritten while the playback task copies from it.
THEOREM SlotsNeverLeak == Spec => []SlotsPartitioned
<1>1. IndInv => SlotsPartitioned
  BY DEF IndInv
<1> QED
  BY <1>1, InductiveInvariant, PTL

\* For every width of the RTP timestamp, the oldest frame is played first,
\* also across the wrap, as long as a stream spans less than half the range.
THEOREM OldestFirst == Spec => []PlaysInOrder
<1>1. IndInv => PlaysInOrder
  BY DEF IndInv
<1> QED
  BY <1>1, InductiveInvariant, PTL

----------------------------------------------------------------------------
(* Refinement.                                                             *)

\* The frames the index q stands for, with headers h.
Frames(q, h) ==
  [i \in 1 .. Len(q) |-> [at |-> At(h[q[i]].ts), samples |-> h[q[i]].samples]]

\* What the abstract queue sees of an index whose headers are of the stream.
LEMMA FramesFacts ==
  ASSUME NEW q \in Seq(Slots), NEW h \in [Slots -> Headers], InSpan(q, h)
  PROVE  /\ Frames(q, h) \in Seq([at : 0 .. Span, samples : 1 .. ChunkMax])
         /\ Len(Frames(q, h)) = Len(q)
         /\ q # <<>> => Frames(Tail(q), h) = Tail(Frames(q, h))
<1> DEFINE Rec == [at : 0 .. Span, samples : 1 .. ChunkMax]
<1>1. /\ Len(q) \in Nat /\ DOMAIN q = 1 .. Len(q)
      /\ \A i \in 1 .. Len(q) : q[i] \in Slots
  BY LenProperties, ElementOfSeq
<1>2. \A u \in Stamps : At(u) \in Nat
  BY TimeAssumption DEF At, Stamps
<1>3. ASSUME NEW i \in 1 .. Len(q)
      PROVE  At(h[q[i]].ts) \in 0 .. Span /\ h[q[i]].samples \in 1 .. ChunkMax
  <2>1. h[q[i]] \in Headers
    BY <1>1
  <2>2. h[q[i]].ts \in Stamps /\ h[q[i]].samples \in 0 .. ChunkMax
    BY <2>1 DEF Headers
  <2>3. At(h[q[i]].ts) =< Span /\ h[q[i]].samples > 0
    BY <1>1 DEF InSpan
  <2> QED
    BY <1>2, <2>2, <2>3, TimeAssumption, ChunkAssumption
<1>4. Frames(q, h) \in [1 .. Len(q) -> Rec]
  BY <1>3 DEF Frames
<1> HIDE DEF Rec
<1>5. Frames(q, h) \in Seq(Rec) /\ Len(Frames(q, h)) = Len(q)
  BY <1>1, <1>4, FunctionIsSeq
<1>6. ASSUME q # <<>>
      PROVE  Frames(Tail(q), h) = Tail(Frames(q, h))
  <2>1. /\ Tail(q) \in Seq(Slots) /\ Len(q) > 0 /\ Len(Tail(q)) = Len(q) - 1
        /\ \A i \in 1 .. Len(q) - 1 : Tail(q)[i] = q[i + 1]
    BY <1>6, TailFacts
  <2>2. Frames(q, h) # <<>>
    BY <1>5, <2>1
  <2>3. /\ Tail(Frames(q, h)) \in Seq(Rec)
        /\ Len(Tail(Frames(q, h))) = Len(q) - 1
        /\ \A i \in 1 .. Len(q) - 1 : Tail(Frames(q, h))[i] = Frames(q, h)[i + 1]
    BY <1>5, <2>2, TailFacts
  <2>4. \A i \in 1 .. Len(q) - 1 : i + 1 \in 1 .. Len(q)
    BY <1>1
  <2>5. Frames(Tail(q), h) \in [1 .. Len(q) - 1 -> Rec]
    BY <1>3, <2>1, <2>4 DEF Frames, Rec
  <2>6. Frames(Tail(q), h) \in Seq(Rec) /\ Len(Frames(Tail(q), h)) = Len(q) - 1
    <3>1. Len(q) - 1 \in Nat
      BY <1>1, <2>1
    <3> QED
      BY <2>5, <3>1, FunctionIsSeq
  <2>7. \A i \in 1 .. Len(q) - 1 : Frames(Tail(q), h)[i] = Tail(Frames(q, h))[i]
    BY <2>1, <2>3, <2>4 DEF Frames
  <2> QED
    BY <2>3, <2>6, <2>7, SeqEqual
<1> QED
  BY <1>5, <1>6 DEF Rec

\* Storing a chunk is an insertion into the abstract queue.
LEMMA StoreInserts ==
  ASSUME NEW q \in Seq(Slots), NEW pos \in 1 .. Len(q) + 1, NEW x \in Slots,
         NEW h, NEW g, \A i \in DOMAIN q : g[q[i]] = h[q[i]]
  PROVE  Frames(Insert(q, pos, x), g) =
           FQ!Inserted(Frames(q, h), pos, [at |-> At(g[x].ts), samples |-> g[x].samples])
<1> DEFINE r == Insert(q, pos, x)
           f == [at |-> At(g[x].ts), samples |-> g[x].samples]
<1>1. Len(q) \in Nat /\ DOMAIN q = 1 .. Len(q) /\ Len(Frames(q, h)) = Len(q)
  BY LenProperties DEF Frames
<1>2. Len(r) = Len(q) + 1
  BY InsertFacts
<1>3. \A i \in 1 .. Len(q) + 1 :
        r[i] = IF i < pos THEN q[i] ELSE IF i = pos THEN x ELSE q[i - 1]
  BY DEF Insert
<1>4. ASSUME NEW i \in 1 .. Len(q) + 1
      PROVE  [at |-> At(g[r[i]].ts), samples |-> g[r[i]].samples]
               = IF i < pos THEN Frames(q, h)[i]
                 ELSE IF i = pos THEN f ELSE Frames(q, h)[i - 1]
  <2>1. CASE i < pos
    BY <1>1, <1>3, <2>1 DEF Frames
  <2>2. CASE i = pos
    BY <1>1, <1>3, <2>2
  <2>3. CASE i > pos
    <3> DEFINE j == i - 1
    <3>1. j \in 1 .. Len(q) /\ r[i] = q[j] /\ ~(i < pos) /\ i # pos
      BY <1>1, <1>3, <2>3
    <3> HIDE DEF j
    <3>2. g[q[j]] = h[q[j]]
      BY <1>1, <3>1
    <3>3. Frames(q, h)[j] = [at |-> At(h[q[j]].ts), samples |-> h[q[j]].samples]
      BY <1>1, <3>1 DEF Frames
    <3> HIDE DEF r, f
    <3>4. [at |-> At(g[r[i]].ts), samples |-> g[r[i]].samples] = Frames(q, h)[j]
      BY <3>1, <3>2, <3>3
    <3> QED
      BY <3>1, <3>4 DEF j
  <2> QED
    BY <1>1, <2>1, <2>2, <2>3
<1> HIDE DEF r, f
<1>5. Frames(r, g) = FQ!Inserted(Frames(q, h), pos, f)
  BY <1>1, <1>2, <1>4 DEF Frames, FQ!Inserted
<1> QED
  BY <1>5 DEF r, f

\* Every step of the buffer is a step of the abstract queue or none.
LEMMA StepRefines == IndInv /\ IndInv' /\ [Next]_vars => [FQ!Next]_(Frames(sorted, hdr))
<1> SUFFICES ASSUME IndInv, IndInv', [Next]_vars
             PROVE  FQ!Next \/ Frames(sorted, hdr)' = Frames(sorted, hdr)
  OBVIOUS
<1>1. /\ sorted \in Seq(Slots) /\ hdr \in [Slots -> Headers]
      /\ sorted' \in Seq(Slots) /\ hdr' \in [Slots -> Headers]
      /\ InSpan(sorted, hdr)
  BY DEF IndInv, TypeOK, StampsInSpan, InSpan
<1>2. ASSUME UNCHANGED <<hdr, sorted>>
      PROVE  Frames(sorted, hdr)' = Frames(sorted, hdr)
  BY <1>2 DEF Frames
<1>3. ASSUME NEW p \in Producers, QueueChunk(p), EvictedFree = <<>>
      PROVE  UNCHANGED <<hdr, sorted>>
  BY <1>3, EvictionKeeps DEF QueueChunk, EvictedIndex
<1>4. ASSUME NEW p \in Producers, QueueChunk(p), EvictedFree # <<>>
      PROVE  FQ!Insert
  <2>1. job[p].left > 0
    BY <1>4 DEF QueueChunk
  <2>2. PICK pos \in sorted_insert_pos(EvictedIndex, job[p].ts) :
               sorted' = Insert(EvictedIndex, pos, Last(EvictedFree))
    BY <1>4 DEF QueueChunk, StoreChunk
  <2>3. hdr' = [hdr EXCEPT ![Last(EvictedFree)] =
                  [ts |-> job[p].ts, samples |-> ChunkSamples(p)]]
    BY <1>4 DEF QueueChunk, StoreChunk
  <2>4. /\ EvictedIndex \in Seq(Slots) /\ EvictedFree \in Seq(Slots)
        /\ Last(EvictedFree) \in Slots
        /\ InSpan(EvictedIndex, hdr)
    BY <1>4, EvictionKeeps, FrontFacts DEF Partition
  <2>5. \A i \in DOMAIN EvictedIndex : hdr'[EvictedIndex[i]] = hdr[EvictedIndex[i]]
    <3>1. Last(EvictedFree) \in Range(EvictedFree)
      BY <1>4, <2>4, FrontFacts
    <3>2. \A i \in DOMAIN EvictedIndex : EvictedIndex[i] \in Range(EvictedIndex)
      BY DEF Range
    <3>3. \A i \in DOMAIN EvictedIndex :
            EvictedIndex[i] # Last(EvictedFree) /\ EvictedIndex[i] \in Slots
      BY <2>4, <3>1, <3>2, EvictionKeeps DEF Partition
    <3> QED
      BY <1>1, <2>3, <2>4, <3>3
  <2> DEFINE f == [at |-> At(job[p].ts), samples |-> ChunkSamples(p)]
             room == Frames(EvictedIndex, hdr)
  <2>6. pos \in 1 .. Len(EvictedIndex) + 1
    BY DEF sorted_insert_pos
  <2>7. hdr'[Last(EvictedFree)] = [ts |-> job[p].ts, samples |-> ChunkSamples(p)]
    BY <1>1, <2>3, <2>4
  <2>8. Frames(sorted, hdr)' = FQ!Inserted(room, pos, f)
    <3>1. Frames(sorted', hdr') = FQ!Inserted(room, pos, f)
      BY <2>2, <2>4, <2>5, <2>6, <2>7, StoreInserts, SMTT(30)
    <3> QED
      BY <3>1 DEF Frames
  <2>9. f \in FQ!Frames
    BY <2>1, ChunkInSpan, TimeAssumption DEF FQ!Frames
  <2>10. room = IF Len(Frames(sorted, hdr)) >= Capacity
                  THEN Tail(Frames(sorted, hdr)) ELSE Frames(sorted, hdr)
    BY <1>1, FramesFacts, EvictionKeeps DEF EvictedIndex, MustEvict
  <2>11. pos \in 1 .. Len(room) + 1
    BY <1>1, <2>4, <2>6, FramesFacts
  <2>12. FQ!InOrder(Frames(sorted, hdr)')
    <3>1. Len(Frames(sorted', hdr')) = Len(sorted') /\ DOMAIN sorted' = 1 .. Len(sorted')
      BY <1>1, LenProperties DEF Frames
    <3>2. \A i, j \in 1 .. Len(sorted') :
            i < j => At(hdr'[sorted'[i]].ts) =< At(hdr'[sorted'[j]].ts)
      BY <3>1 DEF IndInv, PlaysInOrder
    <3>3. FQ!InOrder(Frames(sorted', hdr'))
      BY <3>1, <3>2 DEF Frames, FQ!InOrder
    <3> QED
      BY <3>3 DEF Frames
  <2> HIDE DEF f, room
  <2> QED
    BY <2>8, <2>9, <2>10, <2>11, <2>12 DEF FQ!Insert, Frames
<1>5. ASSUME TakeSlot
      PROVE  FQ!TakeOldest \/ UNCHANGED <<hdr, sorted>>
  <2>1. CASE sorted = <<>>
    BY <1>5, <2>1 DEF TakeSlot
  <2>2. CASE sorted # <<>>
    <3>1. sorted' = Tail(sorted) /\ hdr' = hdr
      BY <1>5, <2>2 DEF TakeSlot
    <3>2. Frames(sorted', hdr') = Tail(Frames(sorted, hdr))
      BY <1>1, <2>2, <3>1, FramesFacts
    <3>3. Frames(sorted, hdr) # <<>>
      BY <1>1, <2>2, FramesFacts, EmptySeq
    <3> QED
      BY <3>2, <3>3 DEF FQ!TakeOldest, Frames
  <2> QED
    BY <2>1, <2>2
<1>6. ASSUME NEW f \in Flushers, FlushIndex(f)
      PROVE  FQ!Flush
  <2>1. sorted' = <<>>
    BY <1>6 DEF FlushIndex
  <2> QED
    BY <2>1 DEF FQ!Flush
<1>7. CASE \/ \E p \in Producers :
                \/ \E at \in 0 .. Span, n \in 1 .. MaxSamples : QueueDecoded(p, at, n)
                \/ GiveToken(p)
           \/ TakeToken \/ ReturnSlot
           \/ \E f \in Flushers : FlushToken(f)
           \/ UNCHANGED vars
  <2>1. UNCHANGED <<hdr, sorted>>
    BY <1>7 DEF QueueDecoded, GiveToken, TakeToken, ReturnSlot, FlushToken, vars
  <2> QED
    BY <1>2, <2>1
<1> QED
  BY <1>2, <1>3, <1>4, <1>5, <1>6, <1>7 DEF Next, FQ!Next

\* The buffer implements the bounded, ordered queue: for every interleaving
\* of producers, playback task and flushers, each critical section of
\* audio_buffer.c is one step of FrameQueue or leaves the queue as it was.
THEOREM BufferImplementsQueue == Spec => ImplementsFrameQueue
<1>1. Init => FQ!Init
  BY DEF Init, FQ!Init
<1>2. IndInv /\ IndInv' /\ [Next]_vars => FQ!Next \/ Frames(sorted, hdr)' = Frames(sorted, hdr)
  BY StepRefines
<1>3. IndInv /\ IndInv' /\ [Next]_vars
        => [FQ!Next]_([i \in 1 .. Len(sorted) |->
                         [at |-> At(hdr[sorted[i]].ts),
                          samples |-> hdr[sorted[i]].samples]])
  BY <1>2 DEF Frames
<1> QED
  BY <1>1, <1>3, InductiveInvariant, PTL DEF Spec, ImplementsFrameQueue, FQ!Spec
=============================================================================
