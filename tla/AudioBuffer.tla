---------------------------- MODULE AudioBuffer ----------------------------
(***************************************************************************)
(* The jitter buffer of main/audio/audio_buffer.c: a pool of fixed slots,  *)
(* an index of the used slots sorted by RTP timestamp, a stack of free     *)
(* slots and a counting semaphore that holds one token per frame.          *)
(*                                                                         *)
(* Three kinds of task share it.  Producers (the RTP receiver task, the    *)
(* TCP stream task) queue decoded frames; the playback task takes the      *)
(* oldest frame, copies it out and returns its slot; RTSP, control and     *)
(* playback tasks flush.  A critical section of the code (portENTER /      *)
(* portEXIT_CRITICAL) is one action, and so is every semaphore call made   *)
(* outside one: the buffer and its semaphore are updated in separate       *)
(* steps, and other tasks run in between.                                  *)
(***************************************************************************)
EXTENDS Integers, Sequences, SequencesExt, Functions

CONSTANTS
  Producers,   \* tasks that call audio_buffer_queue_decoded
  Flushers,    \* tasks that call audio_buffer_flush
  Capacity,    \* MAX_RING_BUFFER_FRAMES
  ChunkMax,    \* AAC_FRAMES_PER_PACKET, the samples one slot can hold
  MaxSamples,  \* bound: longest decoded frame (MAX_SAMPLES_PER_FRAME)
  HalfRange,   \* 2^31: timestamps live in 0 .. 2 * HalfRange - 1
  Origin,      \* timestamp at which the stream starts
  Span         \* bound: timestamps of one stream are Origin .. Origin + Span

ASSUME CapacityAssumption == Capacity \in Nat \ {0}
ASSUME ChunkAssumption == ChunkMax \in Nat \ {0} /\ MaxSamples \in Nat \ {0}
ASSUME TimeAssumption ==
  /\ HalfRange \in Nat \ {0}
  /\ Origin \in 0 .. 2 * HalfRange - 1
  /\ Span \in 0 .. HalfRange - 1

VARIABLES
  hdr,          \* [Slots -> header]: what is stored in the pool
  sorted,       \* used slots, ascending timestamp; count is Len(sorted)
  free_stack,   \* free slots; free_top is Len(free_stack)
  sample_count, \* samples buffered
  data_ready,   \* tokens of the counting semaphore
  job,          \* [Producers -> the decoded frame being split into chunks]
  woken,        \* the playback task holds a token and has not yet taken a slot
  held,         \* the slot the playback task is copying from (at most one)
  draining,     \* flushers that have emptied the index and now drain tokens
  flushed       \* history: some flush has begun

vars == <<hdr, sorted, free_stack, sample_count, data_ready, job, woken, held,
          draining, flushed>>

----------------------------------------------------------------------------
(* Timestamps: unsigned 32-bit, compared by signed difference.             *)

Stamps == 0 .. 2 * HalfRange - 1

Wrap(t) == IF t >= 2 * HalfRange THEN t - 2 * HalfRange ELSE t

\* Position on the stream's timeline of a timestamp, for stating properties.
At(t) == IF t >= Origin THEN t - Origin ELSE t + 2 * HalfRange - Origin

\* Mutant: plain unsigned comparison.
TsCmpUnsigned(a, b) == a - b

ts_cmp(a, b) ==
  LET d == a - b
  IN  IF d >= HalfRange THEN d - 2 * HalfRange
      ELSE IF d < -HalfRange THEN d + 2 * HalfRange
      ELSE d

----------------------------------------------------------------------------
Slots == 0 .. Capacity - 1
Headers == [ts : Stamps, samples : 0 .. ChunkMax]
Idle == [ts |-> 0, left |-> 0, give |-> FALSE]

\* Mutant: after the frames with the same timestamp instead of before them.
InsertPosAfter(q, ts) ==
  {pos \in 1 .. Len(q) + 1 :
     /\ pos > 1 => ts_cmp(hdr[q[pos - 1]].ts, ts) =< 0
     /\ pos < Len(q) + 1 => ts_cmp(hdr[q[pos]].ts, ts) > 0}

\* Where the binary search of sorted_insert_pos may stop: the element before
\* the position compared smaller than ts, the one at it did not.
sorted_insert_pos(q, ts) ==
  {pos \in 1 .. Len(q) + 1 :
     /\ pos > 1 => ts_cmp(hdr[q[pos - 1]].ts, ts) < 0
     /\ pos < Len(q) + 1 => ts_cmp(hdr[q[pos]].ts, ts) >= 0}

Insert(q, pos, slot) ==
  [i \in 1 .. Len(q) + 1 |->
     IF i < pos THEN q[i] ELSE IF i = pos THEN slot ELSE q[i - 1]]

Less(total, n) == IF total >= n THEN total - n ELSE 0

\* xSemaphoreTakeFromISR / xSemaphoreTake(.., 0) on the token counter.
TokenTaken(n) == IF n > 0 THEN n - 1 ELSE 0

\* Mutant: a semaphore without its maximum.
TokenGivenUnbounded(n) == n + 1

\* xSemaphoreGive: refused when the counter is at its maximum.
TokenGiven(n) == IF n < Capacity THEN n + 1 ELSE n

----------------------------------------------------------------------------
Init ==
  /\ hdr = [s \in Slots |-> [ts |-> 0, samples |-> 0]]
  /\ sorted = <<>>
  /\ free_stack = [i \in 1 .. Capacity |-> i - 1]
  /\ sample_count = 0
  /\ data_ready = 0
  /\ job = [p \in Producers |-> Idle]
  /\ woken = FALSE
  /\ held = {}
  /\ draining = {}
  /\ flushed = FALSE

\* audio_buffer_queue_decoded: a decoded frame of n samples starting at
\* position at is going to be queued in chunks.  (Frames with no samples or
\* more channels than a slot holds are rejected and change nothing.)
QueueDecoded(p, at, n) ==
  /\ job[p] = Idle
  /\ at + n =< Span + 1
  /\ job' = [job EXCEPT ![p] = [ts |-> Wrap(Origin + at), left |-> n,
                                give |-> FALSE]]
  /\ UNCHANGED <<hdr, sorted, free_stack, sample_count, data_ready, woken,
                 held, draining, flushed>>

ChunkSamples(p) == IF job[p].left > ChunkMax THEN ChunkMax ELSE job[p].left

\* The state of the index after the oldest frames made way (at most one has
\* to: count never exceeds the capacity).
MustEvict == Len(sorted) >= Capacity

EvictedFree == IF MustEvict THEN Append(free_stack, Head(sorted)) ELSE free_stack
EvictedIndex == IF MustEvict THEN Tail(sorted) ELSE sorted

\* Mutant: the victim's samples stay counted.
EvictedSamplesKept == sample_count

EvictedSamples == IF MustEvict
                    THEN Less(sample_count, hdr[Head(sorted)].samples)
                    ELSE sample_count

\* Mutant: eviction leaves the victim's token.
EvictedTokensKept == data_ready

EvictedTokens == IF MustEvict THEN TokenTaken(data_ready) ELSE data_ready

\* Mutant: append instead of sorted insertion.
StoreChunkAtEnd(p, slot) ==
  /\ hdr' = [hdr EXCEPT ![slot] = [ts |-> job[p].ts, samples |-> ChunkSamples(p)]]
  /\ sorted' = Append(EvictedIndex, slot)

\* The header and the sorted index after the chunk went into slot.
StoreChunk(p, slot) ==
  /\ hdr' = [hdr EXCEPT ![slot] = [ts |-> job[p].ts, samples |-> ChunkSamples(p)]]
  /\ \E pos \in sorted_insert_pos(EvictedIndex, job[p].ts) :
       sorted' = Insert(EvictedIndex, pos, slot)

\* audio_buffer_queue_chunk, its critical section: evict, pop a free slot,
\* fill it, insert it.  With no free slot the frame is dropped, and
\* audio_buffer_queue_decoded gives up on the remaining chunks.
QueueChunk(p) ==
  /\ job[p].left > 0 /\ ~job[p].give
  /\ data_ready' = EvictedTokens
  /\ \/ /\ EvictedFree # <<>>
        /\ StoreChunk(p, Last(EvictedFree))
        /\ free_stack' = Front(EvictedFree)
        /\ sample_count' = EvictedSamples + ChunkSamples(p)
        /\ job' = [job EXCEPT ![p].give = TRUE]
     \/ /\ EvictedFree = <<>>
        /\ sorted' = EvictedIndex
        /\ free_stack' = EvictedFree
        /\ sample_count' = EvictedSamples
        /\ job' = [job EXCEPT ![p] = Idle]
        /\ UNCHANGED hdr
  /\ UNCHANGED <<woken, held, draining, flushed>>

\* xSemaphoreGive after the critical section, then on to the next chunk.
GiveToken(p) ==
  /\ job[p].give
  /\ data_ready' = TokenGiven(data_ready)
  /\ LET left == job[p].left - ChunkSamples(p)
     IN  job' = [job EXCEPT ![p] =
                   IF left = 0 THEN Idle
                   ELSE [ts |-> Wrap(job[p].ts + ChunkSamples(p)),
                         left |-> left, give |-> FALSE]]
  /\ UNCHANGED <<hdr, sorted, free_stack, sample_count, woken, held, draining,
                 flushed>>

\* audio_buffer_take, its semaphore call (no waiting; without a token the
\* call fails and changes nothing).
TakeToken ==
  /\ ~woken /\ held = {}
  /\ data_ready > 0
  /\ data_ready' = TokenTaken(data_ready)
  /\ woken' = TRUE
  /\ UNCHANGED <<hdr, sorted, free_stack, sample_count, job, held, draining,
                 flushed>>

\* Mutant: the slot is freed already when the frame is taken.
TakenFreeEarly == Append(free_stack, Head(sorted))

TakenFree == free_stack

\* audio_buffer_take, its critical section.
TakeSlot ==
  /\ woken
  /\ woken' = FALSE
  /\ \/ /\ sorted = <<>>
        /\ UNCHANGED <<sorted, sample_count, held, free_stack>>
     \/ /\ sorted # <<>>
        /\ held' = {Head(sorted)}
        /\ sorted' = Tail(sorted)
        /\ free_stack' = TakenFree
        /\ sample_count' = Less(sample_count, hdr[Head(sorted)].samples)
  /\ UNCHANGED <<hdr, data_ready, job, draining, flushed>>

\* audio_buffer_return.
ReturnSlot ==
  /\ \E s \in held : free_stack' = Append(free_stack, s)
  /\ held' = {}
  /\ UNCHANGED <<hdr, sorted, sample_count, data_ready, job, woken, draining,
                 flushed>>

\* audio_buffer_flush, its critical section.
FlushIndex(f) ==
  /\ f \notin draining
  /\ free_stack' = free_stack \o sorted
  /\ sorted' = <<>>
  /\ sample_count' = 0
  /\ draining' = draining \cup {f}
  /\ flushed' = TRUE
  /\ UNCHANGED <<hdr, data_ready, job, woken, held>>

\* audio_buffer_flush, one round of the loop that drains the semaphore.
FlushToken(f) ==
  /\ f \in draining
  /\ data_ready' = TokenTaken(data_ready)
  /\ draining' = IF data_ready = 0 THEN draining \ {f} ELSE draining
  /\ UNCHANGED <<hdr, sorted, free_stack, sample_count, job, woken, held,
                 flushed>>

Next ==
  \/ \E p \in Producers : \/ \E at \in 0 .. Span, n \in 1 .. MaxSamples :
                               QueueDecoded(p, at, n)
                          \/ QueueChunk(p)
                          \/ GiveToken(p)
  \/ TakeToken
  \/ TakeSlot
  \/ ReturnSlot
  \/ \E f \in Flushers : FlushIndex(f) \/ FlushToken(f)

Spec == Init /\ [][Next]_vars

----------------------------------------------------------------------------
(* Properties.                                                             *)

\* Every variable has its type; the token counter stays within the semaphore.
TypeOK ==
  /\ hdr \in [Slots -> Headers]
  /\ sorted \in Seq(Slots) /\ free_stack \in Seq(Slots)
  /\ sample_count \in Nat
  /\ data_ready \in 0 .. Capacity
  /\ job \in [Producers -> [ts : Stamps, left : 0 .. MaxSamples,
                            give : BOOLEAN]]
  /\ woken \in BOOLEAN /\ flushed \in BOOLEAN
  /\ held \subseteq Slots
  /\ draining \subseteq Flushers

\* Every slot of the pool is in exactly one place: in the sorted index, on
\* the free stack, or with the playback task.  No slot leaks, none is handed
\* out twice, and no producer overwrites the frame being copied out.
SlotsPartitioned ==
  /\ IsInjective(sorted) /\ IsInjective(free_stack)
  /\ Range(sorted) \cap Range(free_stack) = {}
  /\ held \cap (Range(sorted) \cup Range(free_stack)) = {}
  /\ Range(sorted) \cup Range(free_stack) \cup held = Slots
  /\ \A s, t \in held : s = t

\* The index is in playing order although timestamps wrap around: the frame
\* taken next is the oldest one buffered.
PlaysInOrder ==
  \A i, j \in DOMAIN sorted :
    i < j => At(hdr[sorted[i]].ts) =< At(hdr[sorted[j]].ts)

\* sample_count is exactly what the buffered frames add up to, whatever
\* eviction, take and flush did before (the clamp to zero is never needed).
SampleCountExact ==
  sample_count = FoldLeft(LAMBDA n, s : n + hdr[s].samples, 0, sorted)

\* As long as nobody has flushed, tokens and frames correspond one to one,
\* up to the steps in progress: the playback task is woken once per frame.
TokensMatchFramesUnflushed ==
  ~flushed =>
    data_ready + (IF woken THEN 1 ELSE 0)
      + SumFunction([p \in Producers |-> IF job[p].give THEN 1 ELSE 0])
    = Len(sorted)

\* The two counters kept beside the index, samples and tokens, say what is in
\* it, after any eviction, take and return (audio_buffer.c updates each of the
\* three on its own).
CountersExact == SampleCountExact /\ TokensMatchFramesUnflushed

\* Headers in the index, and chunks still to be queued, lie on the stream's
\* timeline: what ts_cmp needs to order them correctly.
StampsInSpan ==
  /\ \A i \in DOMAIN sorted : /\ At(hdr[sorted[i]].ts) =< Span
                              /\ hdr[sorted[i]].samples > 0
  /\ \A p \in Producers :
       job[p].left > 0 => At(job[p].ts) + job[p].left =< Span + 1

\* The inductive invariant of the proofs.
IndInv ==
  /\ TypeOK /\ SlotsPartitioned /\ StampsInSpan /\ PlaysInOrder
  /\ woken => held = {}

Quiet == ~woken /\ held = {} /\ draining = {} /\ \A p \in Producers : job[p] = Idle

\* The semaphore is in sync whenever no call is in progress, as the comments
\* of audio_buffer_take and of the eviction loop take for granted.
TokensMatchFrames == Quiet => data_ready = Len(sorted)

\* The abstract queue this buffer implements.
FQ == INSTANCE FrameQueue
        WITH Span <- Span, MaxLength <- ChunkMax, Depth <- Capacity,
             queue <- [i \in 1 .. Len(sorted) |->
                         [at |-> At(hdr[sorted[i]].ts),
                          samples |-> hdr[sorted[i]].samples]]

\* Whatever the interleaving of the tasks, the buffer behaves as a bounded
\* queue in playing order: slot reuse never changes a frame that is queued.
ImplementsFrameQueue == FQ!Spec
=============================================================================
