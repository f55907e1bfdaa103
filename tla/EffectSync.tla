----------------------------- MODULE EffectSync -----------------------------
(* Lights that follow a group leader: main/effect_sync.c, fed by the frame   *)
(* handler of main/pogdev_app.c and sampled by the lamp task of led_argb.c.  *)
(* Frames carry a sequence number that wraps and the moment they are due;    *)
(* they may arrive late, twice or out of order.  n is a frame's true number, *)
(* which the code does not see.                                              *)
EXTENDS Naturals, Sequences, SequencesExt

CONSTANTS SeqWrap,     \* sequence numbers there are (2^32 in the code)
          Capacity,    \* EFFECT_SYNC_CAPACITY
          Timeout,     \* EFFECT_SYNC_TIMEOUT_MS
          Lead,        \* lead_ms at most
          Window,      \* how far frames overtake each other
          MaxFrame,    \* frames sent
          MaxTime      \* moments

VARIABLES
  sync,     \* effect_sync_t: joined, frames, last rendered
  sent,     \* frames the leader has sent
  clock,
  drawn     \* the true number of the last frame drawn, 0 for none

syncVars == <<sync, sent, clock, drawn>>

NotJoined == [joined |-> FALSE, frames |-> << >>, has |-> FALSE, last |-> 0]

Init == sync = NotJoined /\ sent = 0 /\ clock = 0 /\ drawn = 0

\* Mutant: numbers are compared as if they did not wrap
SeqAfterPlain(candidate, reference) == candidate > reference

\* seq_after: the signed difference is positive
SeqAfter(candidate, reference) ==
  ((candidate + SeqWrap) - reference) % SeqWrap \in 1 .. (SeqWrap \div 2 - 1)

\* effect_sync_join starts empty; leave and cancel empty too
Join == ~sync.joined /\ sync' = [NotJoined EXCEPT !.joined = TRUE] /\ drawn' = 0
        /\ UNCHANGED <<sent, clock>>
Leave == sync.joined /\ sync' = NotJoined /\ drawn' = 0 /\ UNCHANGED <<sent, clock>>

\* the leader sends a frame.  Half of all numbers are never sent while a frame
\* waits or since one was drawn: that would take years.
Send ==
  /\ sent < MaxFrame /\ sent' = sent + 1
  /\ \A i \in DOMAIN sync.frames : sent' - sync.frames[i].n < SeqWrap \div 2
  /\ drawn # 0 => sent' - drawn < SeqWrap \div 2
  /\ UNCHANGED <<sync, clock, drawn>>

\* the place of a frame: before the first that it is not after
Place(frames, seq) ==
  LET stop == {i \in DOMAIN frames : ~SeqAfter(seq, frames[i].seq)} IN
  IF stop = {} THEN Len(frames) + 1 ELSE CHOOSE i \in stop : \A j \in stop : i <= j

\* effect_sync_push: not what was drawn already, nor twice; a full queue gives
\* up its oldest frame, unless the new one is older still
Pushed(s, f) ==
  LET at == Place(s.frames, f.seq)
      twice == at <= Len(s.frames) /\ s.frames[at].seq = f.seq
      full == Len(s.frames) = Capacity IN
  IF \/ s.has /\ ~SeqAfter(f.seq, s.last)
     \/ twice
     \/ full /\ at = 1
  THEN s
  ELSE [s EXCEPT !.frames = IF full THEN Tail(InsertAt(@, at, f)) ELSE InsertAt(@, at, f)]

\* on_effect_frame
Receive ==
  /\ sync.joined /\ sent > 0
  /\ \E n \in (IF sent > Window THEN sent - Window ELSE 1) .. sent, lead \in 0 .. Lead :
       sync' = Pushed(sync, [n |-> n, seq |-> n % SeqWrap, received |-> clock,
                             due |-> clock + lead])
  /\ UNCHANGED <<sent, clock, drawn>>

\* effect_sync_sample: the last frame of those due without a gap is drawn, and
\* what is before it goes.  Nothing is drawn when the newest is too old.
Sample ==
  LET fs == sync.frames
      ready == {i \in DOMAIN fs : \A j \in 1 .. i : fs[j].due <= clock}
      before == CHOOSE i \in ready : \A j \in ready : j <= i IN
  /\ sync.joined /\ fs # << >> /\ clock - fs[Len(fs)].received <= Timeout
  /\ ready # {}
  /\ drawn' = fs[before].n
  /\ sync' = [sync EXCEPT !.frames = SubSeq(@, before, Len(@)), !.has = TRUE,
              !.last = fs[before].seq]
  /\ UNCHANGED <<sent, clock>>

Passes == clock < MaxTime /\ clock' = clock + 1 /\ UNCHANGED <<sync, sent, drawn>>

Next == Join \/ Leave \/ Send \/ Receive \/ Sample \/ Passes

\* The lamp never goes back to an earlier moment of the music, whatever the
\* order frames come in and when their numbers wrap (effect_sync_push, sample).
DrawsForward == [][drawn' # 0 => drawn' >= drawn]_syncVars
=============================================================================
