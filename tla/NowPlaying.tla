----------------------------- MODULE NowPlaying -----------------------------
(* The now-playing page (main/network/web_server.c): the position shown is   *)
(* counted from the sender's last word, which comes rarely, with the local   *)
(* clock.  The RTSP tasks emit the events; the sender's own clock is here to *)
(* compare with.                                                             *)
EXTENDS Naturals

CONSTANTS MaxClock,   \* ticks
          Duration    \* length of the track

VARIABLES
  clock,   \* esp_timer_get_time, in the unit of the position; never zero
  shown,   \* s_nowplaying: playing, position, duration; s_position_anchor_us
  sender,  \* what the sender does: connected, playing, its position
  npHist   \* metadata came while the sender was paused; a client was replaced

npVars == <<clock, shown, sender, npHist>>

Cleared == [playing |-> FALSE, position |-> 0, duration |-> 0, anchor |-> 0]

Init ==
  /\ clock = 1
  /\ shown = Cleared
  /\ sender = [here |-> FALSE, playing |-> FALSE, position |-> 0, told |-> FALSE]
  /\ npHist = [metaPaused |-> FALSE, replaced |-> FALSE]

Lesser(a, b) == IF a < b THEN a ELSE b

\* nowplaying_position_now: never past the end of the track
PositionNow ==
  IF ~shown.playing \/ shown.anchor = 0 \/ shown.duration = 0 THEN shown.position
  ELSE Lesser(shown.position + (clock - shown.anchor), shown.duration)

\* ---- on_rtsp_event_nowplaying ----------------------------------------------
\* Mutant: the anchor is set again although the track plays already
ResumedReanchors ==
  [shown EXCEPT !.playing = TRUE,
     !.anchor = IF shown.duration > 0 THEN clock ELSE @]

\* CLIENT_CONNECTED, PLAYING: a resumption counts from now
Resumed ==
  [shown EXCEPT !.playing = TRUE,
     !.anchor = IF ~shown.playing /\ shown.duration > 0 THEN clock ELSE @]

\* PAUSED: the position is read while it still counts
Paused == [shown EXCEPT !.position = PositionNow, !.anchor = 0, !.playing = FALSE]

\* METADATA with a progress, or without one
Progress(p) == [playing |-> TRUE, position |-> p, duration |-> Duration, anchor |-> clock]
Titles == [shown EXCEPT !.playing = TRUE]

ClientConnects ==
  /\ ~sender.here
  /\ sender' = [here |-> TRUE, playing |-> FALSE, position |-> 0, told |-> FALSE]
  /\ shown' = Resumed
  /\ npHist' = [metaPaused |-> FALSE, replaced |-> FALSE]
  /\ UNCHANGED clock

SenderPlays ==
  /\ sender.here
  /\ sender' = [sender EXCEPT !.playing = TRUE]
  /\ shown' = Resumed
  /\ UNCHANGED <<clock, npHist>>

SenderPauses ==
  /\ sender.here
  /\ sender' = [sender EXCEPT !.playing = FALSE]
  /\ shown' = Paused
  /\ UNCHANGED <<clock, npHist>>

\* SET_PARAMETER progress, after a seek too
SenderReports ==
  /\ sender.here
  /\ \E p \in 0 .. Duration :
       /\ sender' = [sender EXCEPT !.position = p, !.told = TRUE]
       /\ shown' = Progress(p)
  /\ npHist' = [npHist EXCEPT !.metaPaused = ~sender.playing]
  /\ UNCHANGED clock

\* SET_PARAMETER with a title only
SenderNames ==
  /\ sender.here
  /\ shown' = Titles
  /\ npHist' = [npHist EXCEPT !.metaPaused = @ \/ ~sender.playing]
  /\ UNCHANGED <<clock, sender>>

ClientLeaves ==
  /\ sender.here
  /\ sender' = [sender EXCEPT !.here = FALSE, !.playing = FALSE]
  /\ shown' = Cleared
  /\ UNCHANGED <<clock, npHist>>

\* the cleanup of a client that was replaced emits DISCONNECTED as well
ReplacedClientEnds ==
  /\ sender.here
  /\ shown' = Cleared
  /\ npHist' = [npHist EXCEPT !.replaced = TRUE]
  /\ UNCHANGED <<clock, sender>>

Tick ==
  /\ clock < MaxClock
  /\ clock' = clock + 1
  /\ sender' = [sender EXCEPT !.position =
                  IF sender.playing THEN Lesser(@ + 1, Duration) ELSE @]
  /\ UNCHANGED <<shown, npHist>>

Next ==
  \/ ClientConnects \/ SenderPlays \/ SenderPauses \/ SenderReports \/ SenderNames
  \/ ClientLeaves \/ ReplacedClientEnds \/ Tick

Spec == Init /\ [][Next]_npVars

TypeOK ==
  /\ clock \in 1 .. MaxClock
  /\ shown \in [playing : BOOLEAN, position : 0 .. Duration, duration : {0, Duration},
                anchor : 0 .. MaxClock]

\* The page shows where the sender is, without waiting for it to say so: from
\* its first report on, through pauses, resumptions, repeated PLAYING events
\* and seeks, the position shown is the sender's own, and it stops at the end
\* of the track (nowplaying_position_now, on_rtsp_event_nowplaying).
\* Excluded: metadata that arrives while the sender is paused, which is taken
\* for playing; and the DISCONNECTED of a client that was replaced, which
\* clears its successor's track.
PositionHonest ==
  sender.here /\ sender.told /\ ~npHist.metaPaused /\ ~npHist.replaced
    => PositionNow = sender.position
=============================================================================
