----------------------------- MODULE FrameQueue -----------------------------
(***************************************************************************)
(* What the jitter buffer promises to the rest of the audio pipeline,      *)
(* without slots, free lists, spin locks, semaphores or 32-bit timestamps: *)
(* a bounded queue of decoded frames in the order in which they are to be  *)
(* played.  When the queue is full the oldest frame makes way for a new    *)
(* one; the consumer removes the oldest frame; a flush empties the queue.  *)
(*                                                                         *)
(* AudioBuffer implements this specification (AudioBufferProofs).          *)
(***************************************************************************)
EXTENDS Integers, Sequences

CONSTANTS Span,       \* positions 0 .. Span on the timeline of one stream
          MaxLength,  \* longest frame, in samples
          Depth       \* how many frames the queue can hold

VARIABLE queue        \* the buffered frames, first to be played first

Frames == [at : 0 .. Span, samples : 1 .. MaxLength]

InOrder(q) == \A i, j \in 1 .. Len(q) : i < j => q[i].at =< q[j].at

\* f put into q as its pos-th element.
Inserted(q, pos, f) ==
  [i \in 1 .. Len(q) + 1 |->
     IF i < pos THEN q[i] ELSE IF i = pos THEN f ELSE q[i - 1]]

Init == queue = <<>>

Insert ==
  \E f \in Frames :
    LET room == IF Len(queue) >= Depth THEN Tail(queue) ELSE queue
    IN  \E pos \in 1 .. Len(room) + 1 :
          queue' = Inserted(room, pos, f) /\ InOrder(queue')

TakeOldest == queue # <<>> /\ queue' = Tail(queue)

Flush == queue' = <<>>

Next == Insert \/ TakeOldest \/ Flush

Spec == Init /\ [][Next]_queue
=============================================================================
