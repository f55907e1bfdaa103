--------------------------- MODULE MCAudioBuffer ---------------------------
(* The jitter buffer with one producer, the playback task and one flusher; *)
(* the stream's timestamps straddle the wrap of the counter.               *)
EXTENDS AudioBuffer

(* sorted_insert_pos as written: lo and hi close in on the position.       *)
BinarySearch(q, ts) ==
  LET search[lo \in 0 .. Len(q), hi \in 0 .. Len(q)] ==
        IF lo >= hi THEN lo
        ELSE LET mid == lo + (hi - lo) \div 2
             IN  IF ts_cmp(hdr[q[mid + 1]].ts, ts) < 0
                   THEN search[mid + 1, hi] ELSE search[lo, mid]
  IN  search[0, Len(q)] + 1

\* On every reachable index the binary search stops at a position where the
\* specification inserts, and in an ordered index there is only one.
BinarySearchFindsPosition ==
  \A at \in 0 .. Span :
    sorted_insert_pos(sorted, Wrap(Origin + at)) =
      {BinarySearch(sorted, Wrap(Origin + at))}
=============================================================================
