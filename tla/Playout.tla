------------------------------ MODULE Playout ------------------------------
(***************************************************************************)
(* The playout side of main/audio/audio_timing.c: when the playback task   *)
(* hands a buffered frame to the I2S driver (audio_timing_read), while the *)
(* RTSP task pauses, flushes, sets anchors and arms deferred flushes.      *)
(* audio_timing_t has no lock: the RTSP task runs between any two steps of *)
(* audio_timing_read.                                                      *)
(*                                                                         *)
(* A unit of time is also a unit of RTP time, and the early/late threshold *)
(* is less than one unit.  The jitter buffer is the ordered queue that     *)
(* FrameQueue promises; a frame knows the seek (ep) after which it was     *)
(* sent.                                                                   *)
(***************************************************************************)
EXTENDS Integers, FiniteSets

CONSTANTS
  MaxTs,               \* bound: RTP timestamps are 0 .. MaxTs
  MaxRequests,         \* bound: RTSP requests
  Anchors,             \* bound: RTP times an anchor may schedule for now
  Capacity,            \* MAX_RING_BUFFER_FRAMES
  Target,              \* target_buffer_frames
  Fallback,            \* 1 s: how long to wait for an anchor
  MaxPendingEarly      \* MAX_PENDING_EARLY_US

ASSUME CapacityAssumption == Capacity \in Nat /\ Target \in 1 .. Capacity
ASSUME TimeAssumption == MaxTs \in Nat /\ Fallback \in Nat /\ MaxPendingEarly \in Nat

VARIABLES
  buf,      \* frames in the jitter buffer
  shut,     \* discard_all_until_anchor: nothing is queued
  next,     \* the frame the sender sends next
  timing,   \* audio_timing_t; due is the RTP time the anchor schedules for now
            \* (0 without an anchor)
  pending,  \* pending_frame: at most one frame, none when ~pending_valid; with
            \* history: how long it has been held while playing, and whether an
            \* anchor was set meanwhile
  reader,   \* the playback task: next step, frame in hand, and its origin
  ran,      \* audio_timing_read has returned since the last unit of time
  ctl,      \* the RTSP task: the second half of the request it is handling
  requests, \* RTSP requests so far
  leaked,   \* slots taken and never returned
  want,     \* history: flush_until_ts of the deferred flush in force, or None
  last      \* history: the frame played last

vars == <<buf, shut, next, timing, pending, reader, ran, ctl, requests, leaked,
          want, last>>

None == -1
Ts == 0 .. MaxTs
Due == -MaxPendingEarly - 2 .. MaxTs + 1
Frames == [ep : 0 .. MaxRequests, ts : Ts]
NoFrame == [ep |-> 0, ts |-> None]
Before(f, g) == f.ep < g.ep \/ (f.ep = g.ep /\ f.ts < g.ts)
Oldest(q) == CHOOSE f \in q : \A g \in q : f.ts =< g.ts

\* A step of an age: unset stays unset, and past top it no longer matters.
Older(age, top) == IF age = None \/ age = top THEN age ELSE age + 1

Idle == [at |-> "start", item |-> NoFrame, from_pending |-> FALSE]

Init ==
  /\ buf = {} /\ shut = FALSE /\ next = [ep |-> 0, ts |-> 0]
  /\ \E alloc \in BOOLEAN :      \* malloc of pending_frame may have failed
       timing = [playing |-> TRUE, started |-> FALSE, anchor_valid |-> FALSE,
                 due |-> 0, ready |-> None, since |-> None, quick |-> FALSE,
                 deferred |-> FALSE, until |-> 0, alloc |-> alloc]
  /\ pending = {} /\ reader = Idle /\ ran = FALSE
  /\ ctl = "idle" /\ requests = 0 /\ leaked = 0
  /\ want = None /\ last = NoFrame

----------------------------------------------------------------------------
(* Time and the stream.                                                    *)

\* The playback task reads at least once per unit of time.
Tick ==
  /\ ran /\ reader.at = "start"
  /\ ran' = FALSE
  /\ timing' = [timing EXCEPT !.due = IF @ > MaxTs \/ ~timing.anchor_valid
                                        THEN @ ELSE @ + 1,
                              !.ready = Older(@, Fallback),
                              !.since = Older(@, MaxPendingEarly + 1)]
  /\ pending' = {[p EXCEPT !.age = IF timing.playing
                                    THEN Older(@, MaxPendingEarly + 3) ELSE @] :
                   p \in pending}
  /\ UNCHANGED <<buf, shut, next, reader, ctl, requests, leaked, want, last>>

\* Mutant: slots that were never returned are taken for free.
FreeForgetsLeaks == Capacity - Cardinality(buf)

\* Slots on the free stack.
Free == Capacity - Cardinality(buf) - leaked
          - (IF reader.item # NoFrame /\ ~reader.from_pending THEN 1 ELSE 0)

\* The stream task queues the next frame, or discards it.
Arrive ==
  /\ next.ts =< MaxTs
  /\ next' = [next EXCEPT !.ts = @ + 1]
  /\ \/ shut /\ UNCHANGED buf
     \/ ~shut /\ Free > 0 /\ buf' = buf \cup {next}
     \/ ~shut /\ Free = 0 /\ buf # {} /\ buf' = (buf \ {Oldest(buf)}) \cup {next}
     \/ ~shut /\ Free = 0 /\ buf = {} /\ UNCHANGED buf
  /\ UNCHANGED <<shut, timing, pending, reader, ran, ctl, requests, leaked, want, last>>

----------------------------------------------------------------------------
(* The playback task: audio_timing_read.                                   *)

\* Mutant: the wait for an anchor starts again with every call.
ReadyNowAgain == 0

\* ready_time_us once frames wait for an anchor.
ReadyNow == IF timing.ready = None THEN 0 ELSE timing.ready

Return == reader' = Idle /\ ran' = TRUE

\* The startup conditions: enough frames, and an anchor or a second's wait.
ReadStart ==
  /\ reader.at = "start" /\ ~ran
  /\ LET starting == ~timing.started /\ pending = {}
         enough == Cardinality(buf) >= (IF timing.quick THEN 1 ELSE Target)
         waiting == ~timing.anchor_valid
     IN  /\ timing' = IF timing.playing /\ starting /\ enough /\ waiting
                        THEN [timing EXCEPT !.ready = ReadyNow] ELSE timing
         /\ IF timing.playing
               /\ (starting => enough /\ (waiting => ReadyNow >= Fallback))
              THEN reader' = [Idle EXCEPT !.at = "fetch"] /\ UNCHANGED ran
              ELSE Return
  /\ UNCHANGED <<buf, shut, next, pending, ctl, requests, leaked, want, last>>

Held == (CHOOSE p \in pending : TRUE).frame

\* Mutant: the buffer comes before the pending frame.
FetchBufferFirst ==
  IF buf # {} THEN [at |-> "frame", item |-> Oldest(buf), from_pending |-> FALSE]
  ELSE IF pending # {}
    THEN [at |-> "frame", item |-> Held, from_pending |-> TRUE]
    ELSE Idle

\* The pending frame, or else the oldest one in the buffer.
Fetch ==
  IF pending # {}
    THEN [at |-> "frame", item |-> Held, from_pending |-> TRUE]
  ELSE IF buf # {}
    THEN [at |-> "frame", item |-> Oldest(buf), from_pending |-> FALSE]
    ELSE Idle

ReadFetch ==
  /\ reader.at = "fetch"
  /\ reader' = Fetch
  /\ ran' = (Fetch = Idle)
  /\ buf' = IF Fetch # Idle /\ ~Fetch.from_pending THEN buf \ {Fetch.item} ELSE buf
  /\ UNCHANGED <<shut, next, timing, pending, ctl, requests, leaked, want, last>>

Early == reader.item.ts - timing.due
DeferredNow == timing.deferred /\ reader.item.ts >= timing.until
IsEarly == timing.anchor_valid /\ Early > 0
IsLate == timing.anchor_valid /\ Early < 0

\* Mutant: the guard is not there.
StuckNever == FALSE

\* The guard against an anchor that stays ahead for too long.
Stuck == timing.since # None /\ timing.since > MaxPendingEarly

\* The pending frame is used up.
Consume == pending' = IF reader.from_pending THEN {} ELSE pending

\* The deferred flush: the frame goes back, the buffer is flushed ...
ReadDeferredFlush ==
  /\ reader.at = "frame" /\ DeferredNow
  /\ Consume
  /\ buf' = {}
  /\ reader' = [Idle EXCEPT !.at = "restart"]
  /\ UNCHANGED <<shut, next, timing, ran, ctl, requests, leaked, want, last>>

\* ... and playout starts over.
ReadRestart ==
  /\ reader.at = "restart"
  /\ timing' = [timing EXCEPT !.deferred = FALSE, !.started = FALSE,
                              !.ready = None, !.since = None, !.quick = TRUE]
  /\ want' = IF ctl = "arm" THEN want ELSE None
  /\ Return
  /\ UNCHANGED <<buf, shut, next, pending, ctl, requests, leaked, last>>

\* An early frame waits; silence is played.  Without a pending buffer the slot
\* of a frame from the jitter buffer is not returned.
ReadEarly ==
  /\ reader.at = "frame" /\ ~DeferredNow /\ IsEarly /\ ~Stuck
  /\ timing' = [timing EXCEPT !.since = IF @ = None THEN 0 ELSE @]
  /\ IF ~reader.from_pending /\ timing.alloc
       THEN reader' = [reader EXCEPT !.at = "hold"] /\ UNCHANGED <<ran, leaked>>
       ELSE Return /\ leaked' = IF reader.from_pending THEN leaked ELSE leaked + 1
  /\ UNCHANGED <<buf, shut, next, pending, ctl, requests, want,
                 last>>

ReadHold ==
  /\ reader.at = "hold"
  /\ pending' = {[frame |-> reader.item, age |-> 0, anchored |-> FALSE]}
  /\ timing' = [timing EXCEPT !.since = 0]
  /\ Return
  /\ UNCHANGED <<buf, shut, next, ctl, requests, leaked, want, last>>

\* Mutant: the slot of a late frame is not returned.
LateSlotLost == IF reader.from_pending THEN leaked ELSE leaked + 1

LateSlot == leaked

\* A late frame is dropped, and the next one is fetched at once.
ReadLate ==
  /\ reader.at = "frame" /\ ~DeferredNow /\ IsLate
  /\ Consume
  /\ leaked' = LateSlot
  /\ timing' = [timing EXCEPT !.since = None]
  /\ reader' = [Idle EXCEPT !.at = "fetch"]
  /\ UNCHANGED <<buf, shut, next, ran, ctl, requests, want, last>>

\* The frame is played; after the guard has tripped, without the anchor.
ReadPlay ==
  /\ reader.at = "frame" /\ ~DeferredNow /\ ~IsLate /\ (IsEarly => Stuck)
  /\ Consume
  /\ timing' = [timing EXCEPT !.since = None, !.started = TRUE,
                              !.quick = @ /\ timing.started,
                              !.anchor_valid = @ /\ ~IsEarly,
                              !.due = IF IsEarly THEN 0 ELSE @]
  /\ last' = reader.item
  /\ Return
  /\ UNCHANGED <<buf, shut, next, ctl, requests, leaked, want>>

Read ==
  \/ ReadStart \/ ReadFetch \/ ReadDeferredFlush \/ ReadRestart
  \/ ReadEarly \/ ReadHold \/ ReadLate \/ ReadPlay

----------------------------------------------------------------------------
(* The RTSP task.  The sender makes MaxRequests requests.                  *)

Request == ctl = "idle" /\ requests < MaxRequests /\ requests' = requests + 1

\* audio_receiver_pause.
Pause ==
  /\ Request /\ timing.playing
  /\ timing' = [timing EXCEPT !.playing = FALSE, !.since = None]
  /\ pending' = {}
  /\ UNCHANGED <<buf, shut, next, reader, ran, ctl, leaked, want, last>>

NewStream == next' = [ep |-> next.ep + 1, ts |-> 0]

\* audio_receiver_seek_flush: audio_buffer_flush ...
SeekFlush ==
  /\ Request
  /\ buf' = {} /\ NewStream
  /\ ctl' = "reset"
  /\ UNCHANGED <<shut, timing, pending, reader, ran, leaked, want, last>>

\* ... then audio_timing_reset, quick_start and the blanket gate.
SeekReset ==
  /\ ctl = "reset" /\ ctl' = "idle"
  /\ timing' = [timing EXCEPT !.started = FALSE, !.anchor_valid = FALSE, !.due = 0,
                              !.ready = None, !.since = None, !.quick = TRUE,
                              !.deferred = FALSE, !.until = 0]
  /\ pending' = {} /\ shut' = TRUE /\ want' = None
  /\ UNCHANGED <<buf, next, reader, ran, requests, leaked, last>>

Anchored(t, due) ==
  [t EXCEPT !.anchor_valid = TRUE, !.due = due, !.since = None, !.playing = TRUE]

\* SETRATEANCHORTIME, no jump detected: audio_timing_set_anchor, and playing.
Anchor(due) ==
  /\ Request
  /\ timing' = Anchored(timing, due)
  /\ shut' = FALSE
  /\ pending' = {[p EXCEPT !.anchored = TRUE] : p \in pending}
  /\ UNCHANGED <<buf, next, reader, ran, ctl, leaked, want, last>>

\* SETRATEANCHORTIME, a jump detected: audio_buffer_flush ...
AnchorJump ==
  /\ Request
  /\ buf' = {} /\ NewStream
  /\ ctl' = "jump"
  /\ UNCHANGED <<shut, timing, pending, reader, ran, leaked, want, last>>

\* ... playout starts over, and the anchor.
AnchorRestart(due) ==
  /\ ctl = "jump" /\ ctl' = "idle"
  /\ timing' = [Anchored(timing, due) EXCEPT
                   !.started = FALSE, !.ready = None, !.deferred = FALSE,
                   !.quick = TRUE]
  /\ pending' = {} /\ shut' = FALSE /\ want' = None
  /\ UNCHANGED <<buf, next, reader, ran, requests, leaked, last>>

\* Mutant: armed before flush_until_ts is written.
ArmedBeforeUntil(t, until) == [t EXCEPT !.deferred = TRUE]

UntilWritten(t, until) == [t EXCEPT !.until = until]

\* audio_receiver_set_deferred_flush: first flush_until_ts ...
DeferFlush(until) ==
  /\ Request
  /\ timing' = UntilWritten(timing, until)
  /\ want' = until
  /\ ctl' = "arm"
  /\ UNCHANGED <<buf, shut, next, pending, reader, ran, leaked, last>>

\* ... then deferred_flush_pending.
ArmDeferred ==
  /\ ctl = "arm" /\ ctl' = "idle"
  /\ timing' = [timing EXCEPT !.deferred = TRUE]
  /\ UNCHANGED <<buf, shut, next, pending, reader, ran, requests, leaked, want,
                 last>>

Control ==
  \/ Pause \/ SeekFlush \/ AnchorJump
  \/ \E due \in Anchors : Anchor(due) \/ AnchorRestart(due)
  \/ \E until \in 1 .. MaxTs : DeferFlush(until)
  \/ SeekReset \/ ArmDeferred

Next == Tick \/ Arrive \/ Read \/ Control

\* The playback task keeps running, time passes, and the RTSP task finishes
\* the request it has begun.
Fairness ==
  /\ WF_vars(Read) /\ WF_vars(Tick)
  /\ WF_vars(SeekReset \/ ArmDeferred \/ \E due \in Anchors : AnchorRestart(due))

Spec == Init /\ [][Next]_vars /\ Fairness

----------------------------------------------------------------------------
(* Properties.                                                             *)

\* Every variable has its type.
TypeOK ==
  /\ buf \subseteq Frames /\ shut \in BOOLEAN
  /\ Cardinality(buf) + leaked =< Capacity
  /\ next \in [ep : 0 .. MaxRequests, ts : 0 .. MaxTs + 1]
  /\ timing \in [playing : BOOLEAN, started : BOOLEAN, anchor_valid : BOOLEAN,
                 due : Due, ready : None .. Fallback,
                 since : None .. MaxPendingEarly + 1, quick : BOOLEAN,
                 deferred : BOOLEAN, until : Ts, alloc : BOOLEAN]
  /\ pending \subseteq [frame : Frames, age : 0 .. MaxPendingEarly + 3,
                        anchored : BOOLEAN]
  /\ Cardinality(pending) =< 1
  /\ reader \in [at : {"start", "fetch", "frame", "restart", "hold"},
                 item : Frames \cup {NoFrame}, from_pending : BOOLEAN]
  /\ ran \in BOOLEAN
  /\ ctl \in {"idle", "reset", "jump", "arm"} /\ requests \in 0 .. MaxRequests
  /\ leaked \in 0 .. Capacity
  /\ want \in Ts \cup {None} /\ last \in Frames \cup {NoFrame}

\* A frame is held back for at most MAX_PENDING_EARLY_US (and the call that
\* notices), however wrong the anchor is, unless a new anchor restarts the
\* measurement of pending_since_us.
HeldFrameReleased ==
  \A p \in pending : ~p.anchored => p.age =< MaxPendingEarly + 1

\* The same without the exception: the guard must eventually trip.
StuckAnchorTrips ==
  \A p \in pending : p.age =< MaxPendingEarly + 1

\* A deferred flush happens only at a frame that has reached the
\* flush_until_ts of the request in force, although timestamp and flag are
\* written in two steps, and only when there is such a request.
DeferredFlushInTime ==
  [][reader'.at = "restart" /\ reader.at # "restart"
       => want # None /\ reader.item.ts >= want]_vars

\* Playback never goes back: whatever is flushed, paused, held or dropped in
\* whatever order, a frame is never played after a later one of its stream, or
\* after one of a later stream.
PlaysForward == [][last' # last => Before(last, last')]_vars

\* No slot is lost as long as the pending buffer could be allocated.
SlotsReturned == timing.alloc => leaked = 0

\* A frame the playback task has taken comes back, in time and with its slot,
\* whatever anchors, pauses and flushes come in between (audio_timing_read).
TakenFramesComeBack == HeldFrameReleased /\ SlotsReturned

\* What is heard moves forward, and a boundary is applied where it was asked
\* for (audio_timing_read against audio_receiver_flush and its deferred form).
HeardInOrder == PlaysForward /\ DeferredFlushInTime

Waiting ==
  /\ timing.playing /\ ~timing.started /\ Cardinality(buf) >= Target

\* Playout starts: enough frames for the start never wait forever, anchor or
\* not (they are played, dropped as late, flushed, or playback is paused).
PlayoutStarts == Waiting ~> ~Waiting
=============================================================================
