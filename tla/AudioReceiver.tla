--------------------------- MODULE AudioReceiver ---------------------------
(***************************************************************************)
(* Seeking, pausing and resuming a buffered AirPlay 2 stream: the control  *)
(* side of main/audio/audio_receiver.c (called by the RTSP task), the      *)
(* gates of main/audio/audio_stream.c (run by the TCP task for every       *)
(* frame).  What the playback task does with the frames it takes is in     *)
(* Playout; here it only empties the buffer.                               *)
(*                                                                         *)
(* None of the fields they share is protected by a lock.  A step here is a *)
(* call that takes a lock of its own (audio_buffer_flush) or a run of      *)
(* assignments; the other tasks run between any two steps.                 *)
(*                                                                         *)
(* Time and RTP time have the same unit (5 s of audio in the code's terms  *)
(* when SeekThreshold is 1).  The jitter buffer is the ordered queue that  *)
(* FrameQueue promises; timestamps do not wrap here (AudioBuffer covers    *)
(* the wrap).                                                              *)
(***************************************************************************)
EXTENDS Integers, Sequences, FiniteSets

CONSTANTS
  MaxRtp,        \* bound: RTP positions are 0 .. MaxRtp
  Targets,       \* bound: where the sender starts and jumps to
  MaxSeeks,      \* bound: how often the sender jumps
  MaxSock,       \* bound: frames in the TCP socket
  Capacity,      \* MAX_RING_BUFFER_FRAMES
  MaxExpected,   \* bound: the position playback is expected to have reached
  MaxLead,       \* how far the sender sends ahead of its play position
  SeekThreshold, \* seek_threshold
  gate_window    \* gate_window

VARIABLES
  sender,   \* the phone: epoch (number of jumps), next frame to send, play
            \* position, whether it plays, requests it still owes
  sock,     \* frames in the TCP socket, oldest first
  feed,     \* the TCP task: the frame in its hands and how far it got
  buf,      \* timestamps of the frames in the jitter buffer
  gates,    \* discard_all_until_anchor, discard_before/above_rtp, arm_gate...;
            \* history: closed is the epoch the blanket gate last closed for
            \* (0 once a later flush has opened every gate again), armed the
            \* epoch the window was last armed for
  timing,   \* audio_timing_t: playing, anchor_valid, and in expected the sum of
            \* anchor_rtp_time and the time since anchor_local_time_ns (0 when
            \* there is no anchor; the code caps the time at 600 s)
  ctl,      \* the RTSP task: the request in progress and its next step
  excuse    \* history: what has made the gates unreliable since the blanket
            \* gate closed (see Excuses)

vars == <<sender, sock, feed, buf, gates, timing, ctl, excuse>>

Rtp == 0 .. MaxRtp
Frames == [ep : 0 .. MaxSeeks, ts : Rtp]
Requests == {"none", "seek", "change", "resume"}
Steps == {"idle",
          "f_buffer", "f_reset", "f_close",                  \* seek_flush
          "a_gates", "b_buffer", "b_gates",                  \* set_anchor_time
          "a_open", "p_peek", "p_buffer", "p_gates", "a_anchor"}

Dist(a, b) == IF a >= b THEN a - b ELSE b - a
Oldest(q) == CHOOSE ts \in q : \A other \in q : ts =< other
InWindow(ts, rtp) == rtp =< ts /\ ts =< rtp + gate_window

\* Mutant: the upper bound is the anchor itself.
UpperGateAtAnchor(rtp) == rtp

\* discard_above_rtp for an anchor at rtp.
UpperGate(rtp) == rtp + gate_window

\* The RTSP task waits for a request.
NoRequest == [req |-> "none", step |-> "idle", rtp |-> 0, armed |-> FALSE]

\* The TCP task waits for a frame.
NoFrame == [at |-> "recv", frame |-> [ep |-> 0, ts |-> 0], closed |-> 0]

Init ==
  /\ \E pos \in Targets :
       /\ sender = [ep |-> 0, next |-> pos, pos |-> pos, playing |-> TRUE,
                    owes |-> "none"]
       /\ timing = [playing |-> TRUE, anchor_valid |-> TRUE, expected |-> pos]
  /\ sock = <<>>
  /\ feed = NoFrame
  /\ buf = {}
  /\ gates = [all |-> FALSE, before |-> 0, before_valid |-> FALSE,
              above_valid |-> FALSE, arm |-> FALSE,
              closed |-> 0, armed |-> 0]
  /\ ctl = NoRequest
  /\ excuse = {}

----------------------------------------------------------------------------
(* The sender (external): one RTSP request at a time; a jump is a flush    *)
(* followed by an anchor, or, for a track change, just a new anchor.       *)

Send ==
  /\ Len(sock) < MaxSock
  /\ sender.next =< MaxRtp /\ sender.next - sender.pos < MaxLead
  /\ sock' = Append(sock, [ep |-> sender.ep, ts |-> sender.next])
  /\ sender' = [sender EXCEPT !.next = @ + 1]
  /\ UNCHANGED <<feed, buf, gates, timing, ctl, excuse>>

\* One unit of time passes; a request takes less than that to handle, and a
\* playing sender has sent what is due.
Tick ==
  /\ ctl.step = "idle"
  /\ sender.playing => sender.pos < sender.next /\ sender.pos < MaxRtp
  /\ timing.expected < MaxExpected
  /\ timing' = [timing EXCEPT !.expected = IF timing.anchor_valid THEN @ + 1 ELSE @]
  /\ sender' = [sender EXCEPT !.pos = IF sender.playing THEN @ + 1 ELSE @]
  /\ UNCHANGED <<sock, feed, buf, gates, ctl, excuse>>

Request(req, step, rtp) ==
  /\ ctl.step = "idle"
  /\ ctl' = [req |-> req, step |-> step, rtp |-> rtp, armed |-> FALSE]

\* FLUSHBUFFERED without a range, or FLUSH; the anchor follows, perhaps after
\* another seek.
Seek(pos) ==
  /\ sender.ep < MaxSeeks
  /\ Request("seek", "f_buffer", pos)
  /\ sender' = [sender EXCEPT !.ep = @ + 1, !.next = pos, !.pos = pos,
                              !.playing = FALSE, !.owes = "seek"]
  /\ UNCHANGED <<sock, feed, buf, gates, timing, excuse>>

\* A track change without FLUSHBUFFERED, from the paused state.
ChangeTrack(pos) ==
  /\ sender.owes = "none" /\ ~sender.playing /\ sender.ep < MaxSeeks
  /\ Request("change", "a_gates", pos)
  /\ sender' = [sender EXCEPT !.ep = @ + 1, !.next = pos, !.pos = pos,
                              !.playing = TRUE]
  /\ UNCHANGED <<sock, feed, buf, gates, timing, excuse>>

\* SETRATEANCHORTIME with rate 1: after a seek, or to resume where it paused.
SendAnchor ==
  /\ ~sender.playing
  /\ Request(IF sender.owes = "seek" THEN "seek" ELSE "resume", "a_gates",
             sender.pos)
  /\ sender' = [sender EXCEPT !.playing = TRUE, !.owes = "none"]
  /\ UNCHANGED <<sock, feed, buf, gates, timing, excuse>>

\* PAUSE, or SETRATEANCHORTIME with rate 0: audio_receiver_pause.
Pause ==
  /\ sender.playing /\ ctl.step = "idle"
  /\ sender' = [sender EXCEPT !.playing = FALSE]
  /\ timing' = [timing EXCEPT !.playing = FALSE]
  /\ UNCHANGED <<sock, feed, buf, gates, ctl, excuse>>

----------------------------------------------------------------------------
(* The RTSP task.                                                          *)

Goto(step) == ctl' = [ctl EXCEPT !.step = step]
Done == ctl' = NoRequest

\* Frames sent before the latest jump that have not yet met the gates.
Stale == {sock[i].ts : i \in {j \in DOMAIN sock : sock[j].ep < sender.ep}}

\* Why the window about to be armed at rtp may fail: stale frames lie inside
\* it, or on both sides of it, or the TCP task is between the blanket gate and
\* its last write to the gates.
Excuses(rtp) ==
  {e \in {"inside", "both", "race"} :
     CASE e = "inside" -> \E ts \in Stale : InWindow(ts, rtp)
       [] e = "both" -> /\ \E ts \in Stale : ts < rtp
                        /\ \E ts \in Stale : ts > UpperGate(rtp)
       [] e = "race" -> feed.at \notin {"recv", "queue"}}

\* discard_before_rtp = rtp_time and discard_above_rtp = UpperGate(rtp_time).
GatesAt(g, rtp) ==
  [g EXCEPT !.before = rtp, !.before_valid = TRUE, !.above_valid = TRUE,
            !.arm = FALSE, !.armed = sender.ep]

\* audio_receiver_seek_flush: audio_buffer_flush ...
FlushBuffer ==
  /\ ctl.step = "f_buffer"
  /\ buf' = {} /\ Goto("f_reset")
  /\ UNCHANGED <<sender, sock, feed, gates, timing, excuse>>

\* ... audio_timing_reset, and every gate open ...
FlushReset ==
  /\ ctl.step = "f_reset"
  /\ timing' = [timing EXCEPT !.anchor_valid = FALSE, !.expected = 0]
  /\ gates' = [gates EXCEPT !.before_valid = FALSE, !.above_valid = FALSE,
                            !.arm = FALSE, !.all = FALSE, !.closed = 0]
  /\ Goto("f_close")
  /\ UNCHANGED <<sender, sock, feed, buf, excuse>>

\* Mutant: the blanket gate is not closed after the flush.
BlanketClosedNot(g) == [g EXCEPT !.arm = TRUE, !.closed = sender.ep]

BlanketClosed(g) == [g EXCEPT !.arm = TRUE, !.all = TRUE, !.closed = sender.ep]

\* ... and the blanket gate shut until the anchor.
FlushClose ==
  /\ ctl.step = "f_close"
  /\ gates' = BlanketClosed(gates)
  /\ excuse' = {}
  /\ Done
  /\ UNCHANGED <<sender, sock, feed, buf, timing>>

\* Path B.  No caller ever records the pause position (it is only set by
\* audio_receiver_set_playing(false), which nobody calls), so the estimate from
\* the time elapsed is all there is.
AnchorJumped ==
  timing.anchor_valid /\ Dist(ctl.rtp, timing.expected) > SeekThreshold

\* audio_receiver_set_anchor_time, phase 1: path A after a seek, path B when
\* the anchor is not where playback is expected to be.
AnchorGates ==
  /\ ctl.step = "a_gates"
  /\ \/ /\ gates.arm
        /\ gates' = GatesAt(gates, ctl.rtp)
        /\ ctl' = [ctl EXCEPT !.step = "a_open", !.armed = TRUE]
        /\ excuse' = excuse \cup Excuses(ctl.rtp)
     \/ /\ ~gates.arm
        /\ Goto(IF AnchorJumped THEN "b_buffer" ELSE "a_open")
        /\ UNCHANGED <<gates, excuse>>
  /\ UNCHANGED <<sender, sock, feed, buf, timing>>

JumpFlush ==
  /\ ctl.step = "b_buffer"
  /\ buf' = {} /\ Goto("b_gates")
  /\ UNCHANGED <<sender, sock, feed, gates, timing, excuse>>

JumpArm ==
  /\ ctl.step = "b_gates"
  /\ gates' = GatesAt(gates, ctl.rtp)
  /\ ctl' = [ctl EXCEPT !.step = "a_open", !.armed = TRUE]
  /\ excuse' = excuse \cup Excuses(ctl.rtp)
  /\ UNCHANGED <<sender, sock, feed, buf, timing>>

\* The blanket gate opens.
AnchorOpen ==
  /\ ctl.step = "a_open"
  /\ gates' = [gates EXCEPT !.all = FALSE]
  /\ Goto("p_peek")
  /\ UNCHANGED <<sender, sock, feed, buf, timing, excuse>>

\* Phase 2: is the oldest buffered frame far from the anchor?
AnchorPeek ==
  /\ ctl.step = "p_peek"
  /\ Goto(IF buf # {} /\ Dist(Oldest(buf), ctl.rtp) > SeekThreshold
            THEN "p_buffer" ELSE "a_anchor")
  /\ UNCHANGED <<sender, sock, feed, buf, gates, timing, excuse>>

PurgeFlush ==
  /\ ctl.step = "p_buffer"
  /\ buf' = {} /\ Goto("p_gates")
  /\ UNCHANGED <<sender, sock, feed, gates, timing, excuse>>

PurgeArm ==
  /\ ctl.step = "p_gates"
  /\ IF ctl.armed THEN UNCHANGED <<gates, excuse>>
     ELSE /\ gates' = GatesAt(gates, ctl.rtp)
          /\ excuse' = excuse \cup Excuses(ctl.rtp)
  /\ Goto("a_anchor")
  /\ UNCHANGED <<sender, sock, feed, buf, timing>>

\* audio_timing_set_anchor, then audio_receiver_set_playing(true).
AnchorSet ==
  /\ ctl.step = "a_anchor"
  /\ timing' = [playing |-> TRUE, anchor_valid |-> TRUE, expected |-> ctl.rtp]
  /\ Done
  /\ UNCHANGED <<sender, sock, feed, buf, gates, excuse>>

Control ==
  \/ FlushBuffer \/ FlushReset \/ FlushClose
  \/ AnchorGates \/ JumpFlush \/ JumpArm \/ AnchorOpen
  \/ AnchorPeek \/ PurgeFlush \/ PurgeArm \/ AnchorSet

----------------------------------------------------------------------------
(* The TCP task: audio_stream_process_frame.                               *)

\* A frame from the socket, and the blanket gate.
FeedRecv ==
  /\ feed.at = "recv" /\ sock # <<>>
  /\ feed' = IF gates.all THEN NoFrame
             ELSE [at |-> "lower", frame |-> Head(sock),
                   closed |-> IF Head(sock).ep < gates.closed
                                THEN gates.closed ELSE 0]
  /\ sock' = Tail(sock)
  /\ UNCHANGED <<sender, buf, gates, timing, ctl, excuse>>

BelowGate == gates.before_valid /\ feed.frame.ts < gates.before
AboveGate == gates.above_valid /\ feed.frame.ts > UpperGate(gates.before)

FeedTo(at) == feed' = [feed EXCEPT !.at = at]

\* Each RTP gate disarms itself on the first frame that passes it: a test,
\* and later a write.
FeedLower ==
  /\ feed.at = "lower"
  /\ IF BelowGate THEN feed' = NoFrame
     ELSE FeedTo(IF gates.before_valid THEN "disarm_lower" ELSE "upper")
  /\ UNCHANGED <<sender, sock, buf, gates, timing, ctl, excuse>>

FeedDisarmLower ==
  /\ feed.at = "disarm_lower"
  /\ gates' = [gates EXCEPT !.before_valid = FALSE]
  /\ FeedTo("upper")
  /\ UNCHANGED <<sender, sock, buf, timing, ctl, excuse>>

FeedUpper ==
  /\ feed.at = "upper"
  /\ IF AboveGate THEN feed' = NoFrame
     ELSE FeedTo(IF gates.above_valid THEN "disarm_upper" ELSE "queue")
  /\ UNCHANGED <<sender, sock, buf, gates, timing, ctl, excuse>>

FeedDisarmUpper ==
  /\ feed.at = "disarm_upper"
  /\ gates' = [gates EXCEPT !.above_valid = FALSE]
  /\ FeedTo("queue")
  /\ UNCHANGED <<sender, sock, buf, timing, ctl, excuse>>

\* Mutant: eviction one frame too late.
QueuedLate(ts) ==
  (IF Cardinality(buf) > Capacity THEN buf \ {Oldest(buf)} ELSE buf) \cup {ts}

\* The buffer after a frame was queued (the oldest frame makes way).
Queued(ts) ==
  (IF Cardinality(buf) >= Capacity THEN buf \ {Oldest(buf)} ELSE buf) \cup {ts}

\* Decoding and audio_buffer_queue_decoded.
FeedQueue ==
  /\ feed.at = "queue"
  /\ buf' = Queued(feed.frame.ts)
  /\ feed' = NoFrame
  /\ UNCHANGED <<sender, sock, gates, timing, ctl, excuse>>

----------------------------------------------------------------------------
(* The playback task: audio_timing_read.                                   *)

\* audio_buffer_take while playing.
Read ==
  /\ timing.playing /\ buf # {}
  /\ buf' = buf \ {Oldest(buf)}
  /\ UNCHANGED <<sender, sock, feed, gates, timing, ctl, excuse>>

Environment ==
  \/ Send \/ Tick
  \/ \E pos \in Targets : Seek(pos) \/ ChangeTrack(pos)
  \/ SendAnchor \/ Pause

Feed ==
  FeedRecv \/ FeedLower \/ FeedDisarmLower \/ FeedUpper \/ FeedDisarmUpper \/ FeedQueue

Next == Environment \/ Control \/ Feed \/ Read

Spec == Init /\ [][Next]_vars

----------------------------------------------------------------------------
(* Properties.                                                             *)

\* Every variable has its type.
TypeOK ==
  /\ sender \in [ep : 0 .. MaxSeeks, next : 0 .. MaxRtp + 1, pos : Rtp, playing : BOOLEAN,
                 owes : {"none", "seek"}]
  /\ sock \in Seq(Frames) /\ Len(sock) =< MaxSock
  /\ feed \in [at : {"recv", "lower", "disarm_lower", "upper",
                     "disarm_upper", "queue"}, frame : Frames,
               closed : 0 .. MaxSeeks]
  /\ buf \subseteq Rtp /\ Cardinality(buf) =< Capacity
  /\ gates \in [all : BOOLEAN, before : Rtp, before_valid : BOOLEAN,
                above_valid : BOOLEAN,
                arm : BOOLEAN, closed : 0 .. MaxSeeks, armed : 0 .. MaxSeeks]
  /\ timing \in [playing : BOOLEAN, anchor_valid : BOOLEAN, expected : 0 .. MaxExpected]
  /\ ctl \in [req : Requests, step : Steps, rtp : Rtp, armed : BOOLEAN]
  /\ excuse \subseteq {"inside", "both", "race"}

\* The TCP task is about to queue a frame from before the seek that lies
\* outside the window of the new anchor, although it looked at the gates only
\* after the seek had closed the blanket gate.
StaleAdmitted ==
  /\ feed.at = "queue"
  /\ feed.closed = gates.closed /\ feed.frame.ep < gates.closed
  /\ gates.all \/ ~InWindow(feed.frame.ts, gates.before)

\* A seek is clean: when what is left in the socket from before it lies on one
\* side of the window of the anchor that follows, and the TCP task is not just
\* then at work on the gates, no such frame gets past them once the blanket
\* gate has closed, in whatever order the RTSP task arms and opens the gates
\* and the TCP task looks at them.
FarSeekAdmitsNothingStale == excuse = {} => ~StaleAdmitted

\* The gates never lock the new stream out: as long as the upper gate that
\* was armed for it is armed, some frame it lets through is still to come.
\* (The sender must not run further ahead than the window, MaxLead =<
\* gate_window: what it sends before its anchor is handled is discarded.)
GatesLetStreamIn ==
  /\ ctl.step = "idle" /\ ~gates.all
  /\ gates.above_valid /\ gates.armed = sender.ep
  =>
    \/ sender.next =< UpperGate(gates.before)
    \/ \E i \in DOMAIN sock :
         sock[i].ep = sender.ep /\ sock[i].ts =< UpperGate(gates.before)
    \/ /\ feed.at \notin {"recv", "queue"} /\ feed.frame.ep = sender.ep
       /\ feed.frame.ts =< UpperGate(gates.before)

\* The gates are exact: the old stream is kept out and the new one let in,
\* whatever the RTSP task arms and opens while the TCP task looks
\* (audio_receiver_set_anchor_time, audio_stream_process_frame).
GatesExact == FarSeekAdmitsNothingStale /\ GatesLetStreamIn

\* The two gates together handle both seek directions: stale frames outside
\* the window are stopped whichever side they lie on.
GatesHandleBothDirections == excuse \subseteq {"both"} => ~StaleAdmitted

\* Resuming where playback paused does not flush the frames buffered
\* meanwhile, however long the pause was.
ResumeKeepsBuffer ==
  ctl.req = "resume" => ctl.step \notin {"b_gates", "p_gates"}
=============================================================================
