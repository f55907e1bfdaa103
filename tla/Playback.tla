------------------------------ MODULE Playback ------------------------------
(* The buttons and what they do to the sound (main/buttons.c,               *)
(* main/playback_control.c, the volume in main/settings.c and               *)
(* main/rtsp/rtsp_conn.c).  Edges reach an interrupt handler, which restarts *)
(* a debounce timer; the timer task queues actions; the button task runs     *)
(* them; the RTSP task sets the volume at the same time.  Levels stand for   *)
(* decibels, 0 is VOLUME_MIN_DB.  The model is of a build with Bluetooth.    *)
EXTENDS Naturals, Sequences

CONSTANTS MaxLevel,   \* VOLUME_MAX_DB, in steps
          QueueLen,   \* ACTION_QUEUE_LEN
          MaxEdges,   \* edges of the buttons
          MaxEvents   \* changes made by the sources

VARIABLES
  button,   \* for each: the level of its pin, pressed, its two timers
  actions,  \* s_action_queue
  doing,    \* the steps the button task still has to run, and its local level
  play,     \* s_source, s_muted, s_pre_mute_db; a client; a DACP session
  volume,   \* g_volume_db and the level of the DAC
  pbHist    \* edges and events so far; a source has set the level; what the
            \* property leaves out

pbVars == <<button, actions, doing, play, volume, pbHist>>

Buttons == {"play", "up", "down"}
Repeatable == {"up", "down"}
Levels == 0 .. MaxLevel

Init ==
  /\ button = [b \in Buttons |-> [down |-> FALSE, pressed |-> FALSE,
                                  timer |-> FALSE, repeat |-> FALSE]]
  /\ actions = << >>
  /\ doing = [steps |-> << >>, new |-> 0]
  /\ play = [source |-> "NONE", muted |-> FALSE, pre |-> MaxLevel,
             client |-> FALSE, dacp |-> FALSE]
  /\ \E v \in Levels : volume = [set |-> v, dac |-> v]
  /\ pbHist = [edges |-> 0, events |-> 0, recorded |-> FALSE, muted |-> FALSE,
               raced |-> FALSE, lost |-> FALSE]

\* ---- buttons.c -------------------------------------------------------------
\* post_button_action: dropped when the queue is full
Post(b) == actions' = IF Len(actions) = QueueLen THEN actions ELSE Append(actions, b)

\* gpio_isr_handler: every edge restarts the debounce timer; the reset itself
\* is lost when the timer task's own queue is full
Edge(b) ==
  /\ pbHist.edges < MaxEdges
  /\ \E lost \in BOOLEAN :
       /\ button' = [button EXCEPT ![b].down = ~@, ![b].timer = @ \/ ~lost]
       /\ pbHist' = [pbHist EXCEPT !.edges = @ + 1, !.lost = @ \/ lost]
  /\ UNCHANGED <<actions, doing, play, volume>>

\* debounce_timer_cb
Debounced(b) ==
  LET now == button[b].down IN
  /\ button[b].timer
  /\ button' = [button EXCEPT ![b].timer = FALSE, ![b].pressed = now,
        ![b].repeat = IF now = button[b].pressed THEN @ ELSE now /\ b \in Repeatable]
  /\ IF now /\ ~button[b].pressed THEN Post(b) ELSE UNCHANGED actions
  /\ UNCHANGED <<doing, play, volume, pbHist>>

\* repeat_timer_cb: again after REPEAT_INTERVAL_MS while the button is pressed
Repeats(b) ==
  /\ button[b].repeat
  /\ IF button[b].pressed THEN Post(b) /\ UNCHANGED button
     ELSE button' = [button EXCEPT ![b].repeat = FALSE] /\ UNCHANGED actions
  /\ UNCHANGED <<doing, play, volume, pbHist>>

\* ---- playback_control.c ----------------------------------------------------
\* playback_control_play_pause: the sender decides when it can be told to,
\* otherwise the DAC is muted here
PlayPauseSteps ==
  IF play.source # "AIRPLAY" \/ play.dacp THEN << >>
  ELSE IF play.muted THEN <<"restore", "unmuted">> ELSE <<"keep", "silence", "muted">>

\* airplay_adjust_volume; DACP is told too, by the worker of Dacp
AdjustSteps(b) == IF play.source = "AIRPLAY" THEN <<b, "client", "dac">> ELSE << >>

\* button_action_task
TakeAction ==
  /\ doing.steps = << >> /\ actions # << >>
  /\ actions' = Tail(actions)
  /\ doing' = [doing EXCEPT !.steps =
        IF Head(actions) = "play" THEN PlayPauseSteps ELSE AdjustSteps(Head(actions))]
  /\ UNCHANGED <<button, play, volume, pbHist>>

At(step) == doing.steps # << >> /\ Head(doing.steps) = step
Advance == doing' = [doing EXCEPT !.steps = Tail(@)]

\* settings_get_volume, one step up or down, clamped
ReadVolume ==
  /\ \/ /\ At("up")
        /\ doing' = [steps |-> Tail(doing.steps),
                     new |-> IF volume.set = MaxLevel THEN MaxLevel ELSE volume.set + 1]
     \/ /\ At("down")
        /\ doing' = [steps |-> Tail(doing.steps),
                     new |-> IF volume.set = 0 THEN 0 ELSE volume.set - 1]
  /\ UNCHANGED <<button, actions, play, volume, pbHist>>

\* settings_set_volume: an unchanged level is not sent to the DAC
SetVolume(v) == volume' = IF v = volume.set THEN volume ELSE [set |-> v, dac |-> v]

\* airplay_set_volume: only with a client
AdjustClient ==
  /\ At("client") /\ Advance
  /\ IF play.client THEN SetVolume(doing.new) ELSE UNCHANGED volume
  /\ pbHist' = [pbHist EXCEPT !.muted = @ \/ play.muted]
  /\ UNCHANGED <<button, actions, play>>

\* ... and the DAC, or the level to return to
AdjustDac ==
  /\ At("dac") /\ Advance
  /\ IF play.muted
       THEN play' = [play EXCEPT !.pre = doing.new] /\ UNCHANGED <<volume, pbHist>>
       ELSE /\ volume' = [volume EXCEPT !.dac = doing.new]
            /\ pbHist' = [pbHist EXCEPT !.recorded = @ /\ play.client]
            /\ UNCHANGED play
  /\ UNCHANGED <<button, actions>>

\* Mutant: muting does not remember the level
KeepForgets == At("keep") /\ UNCHANGED play

Keep == At("keep") /\ play' = [play EXCEPT !.pre = volume.set]

\* mute and unmute, the DAC first and then the flag
Mute ==
  /\ \/ Keep /\ UNCHANGED volume
     \/ At("silence") /\ volume' = [volume EXCEPT !.dac = 0] /\ UNCHANGED play
     \/ At("muted") /\ play' = [play EXCEPT !.muted = TRUE] /\ UNCHANGED volume
     \/ At("restore") /\ volume' = [volume EXCEPT !.dac = play.pre] /\ UNCHANGED play
     \/ At("unmuted") /\ play' = [play EXCEPT !.muted = FALSE] /\ UNCHANGED volume
  /\ Advance
  /\ UNCHANGED <<button, actions, pbHist>>

\* ---- the sources -----------------------------------------------------------
Event(hist) ==
  /\ pbHist.events < MaxEvents
  /\ pbHist' = [hist EXCEPT !.events = @ + 1]
  /\ UNCHANGED <<button, actions, doing>>

Busy == doing.steps # << >>

\* SET_PARAMETER volume: rtsp_conn_set_volume
ClientVolume ==
  /\ play.client
  /\ \E v \in Levels : SetVolume(v)
  /\ Event([pbHist EXCEPT !.muted = @ \/ play.muted, !.raced = @ \/ Busy])
  /\ UNCHANGED play

\* a client connects and RECORDs: its level goes to the DAC
ClientRecords ==
  /\ play.source = "AIRPLAY"
  /\ play' = [play EXCEPT !.client = TRUE]
  /\ volume' = [volume EXCEPT !.dac = volume.set]
  /\ Event([pbHist EXCEPT !.recorded = TRUE, !.muted = play.muted, !.raced = Busy])

ClientLeaves ==
  /\ play.client
  /\ play' = [play EXCEPT !.client = FALSE]
  /\ Event([pbHist EXCEPT !.recorded = FALSE])
  /\ UNCHANGED volume

\* dacp_set_session, dacp_clear_session
DacpChanges ==
  /\ play' = [play EXCEPT !.dacp = ~@]
  /\ Event(pbHist) /\ UNCHANGED volume

\* playback_control_set_source; Bluetooth brings its own level
SetSource ==
  /\ \E s \in {"NONE", "AIRPLAY", "BLUETOOTH"} \ {play.source} :
     \E v \in Levels :
       /\ s # "BLUETOOTH" => v = volume.dac
       /\ play' = [play EXCEPT !.source = s, !.muted = FALSE, !.client = FALSE]
       /\ volume' = [volume EXCEPT !.dac = v]
  /\ Event([pbHist EXCEPT !.recorded = FALSE])

Next ==
  \/ \E b \in Buttons : Edge(b) \/ Debounced(b) \/ Repeats(b)
  \/ TakeAction \/ ReadVolume \/ AdjustClient \/ AdjustDac \/ Mute
  \/ ClientVolume \/ ClientRecords \/ ClientLeaves \/ DacpChanges \/ SetSource

Spec == Init /\ [][Next]_pbVars

TypeOK ==
  /\ volume \in [set : Levels, dac : Levels]
  /\ Len(actions) <= QueueLen
  /\ play.pre \in Levels /\ play.muted \in BOOLEAN

\* What is heard is what is set: with a client that has started to play and no
\* mute, the DAC has the level in the settings, also after mutes and unmutes
\* (playback_control_play_pause, airplay_adjust_volume, settings_set_volume).
\* Excluded: a level set while the sound is muted, which reaches the DAC at
\* once and is undone by the unmute; and a level set by the sender while the
\* button task is between two of its own steps.
HeardAsSet ==
  ~Busy /\ pbHist.recorded /\ ~play.muted /\ ~pbHist.muted /\ ~pbHist.raced
    => volume.dac = volume.set

\* A button that is let go stops repeating: once its edges are settled it is
\* not taken for pressed (gpio_isr_handler, debounce_timer_cb).  Excluded: an
\* edge whose timer reset was lost.
SettlesToPin ==
  \A b \in Buttons : ~button[b].timer /\ ~pbHist.lost
    => button[b].pressed = button[b].down
=============================================================================
