------------------------------ MODULE AmpCtrl ------------------------------
(* The amplifier's mute/standby pin (main/amp_ctrl.c).  Four tasks drive it *)
(* without a lock: the task that emits a playback event, the playback task  *)
(* that reports a voice reply, the HTTP task that applies a new            *)
(* configuration, and the esp_timer task that runs the standby callback.   *)
(* Every read and every write of a shared flag is a step of its own.       *)
EXTENDS Naturals, Sequences

VARIABLES
  amp,       \* the static variables of amp_ctrl.c and the one-shot timer
  ampTodo    \* the steps each task still has to run in the function it is in

ampVars == <<amp, ampTodo>>

AmpTasks == {"events", "voice", "config", "timer"}

\* gpio: a pin is configured; auto: standby_min > 0; armed: the timer runs
Amps == [gpio : BOOLEAN, auto : BOOLEAN, active : BOOLEAN, playing : BOOLEAN,
         voice : BOOLEAN, armed : BOOLEAN, wasActive : BOOLEAN]

AmpSteps == {"playing", "idle", "cancel", "on", "off", "restore", "configure",
             "unlessPlaying", "rearm", "check", "start"}

AmpIdle(t) == ampTodo[t] = << >>

\* amp_ctrl_init: standby at boot, with or without a configured pin
Init ==
  /\ \E g, a \in BOOLEAN :
        amp = [gpio |-> g, auto |-> a, active |-> FALSE, playing |-> FALSE,
               voice |-> FALSE, armed |-> FALSE, wasActive |-> FALSE]
  /\ ampTodo = [t \in AmpTasks |-> << >>]

Enter(t, steps) ==
  /\ AmpIdle(t)
  /\ ampTodo' = [ampTodo EXCEPT ![t] = steps]

\* start_standby_timer: the conditions first, then the timer
StartTimer == <<"check", "start">>

\* on_rtsp_event: ignored while no pin is configured
PlayingEvent ==
  /\ amp.gpio
  /\ Enter("events", <<"playing", "cancel", "on">>)
  /\ UNCHANGED amp

IdleEvent ==
  /\ amp.gpio
  /\ Enter("events", <<"idle">> \o StartTimer)
  /\ UNCHANGED amp

\* amp_ctrl_set_voice_active: only a change does anything
VoiceStarts ==
  /\ ~amp.voice
  /\ Enter("voice", <<"cancel", "on">>)
  /\ amp' = [amp EXCEPT !.voice = TRUE]

VoiceEnds ==
  /\ amp.voice
  /\ Enter("voice", <<"unlessPlaying">> \o StartTimer)
  /\ amp' = [amp EXCEPT !.voice = FALSE]

\* Mutant: apply_config does not arm the timer it cancelled
ApplyConfigForgetsTimer == <<"cancel", "configure", "restore">>

\* apply_config: the amplifier's state is read before anything changes
ApplyConfig == <<"cancel", "configure", "restore", "rearm">> \o StartTimer

Reconfigure ==
  /\ Enter("config", ApplyConfig)
  /\ amp' = [amp EXCEPT !.wasActive = amp.active]

\* standby_timer_cb; esp_timer_stop no longer reaches a callback that runs
TimerFires ==
  /\ amp.armed
  /\ Enter("timer", IF amp.playing \/ amp.voice THEN << >> ELSE <<"off">>)
  /\ amp' = [amp EXCEPT !.armed = FALSE]

\* drive_amp
Driven(on) == IF amp.gpio THEN [amp EXCEPT !.active = on] ELSE amp

\* start_standby_timer's early return
MayStart == amp.gpio /\ amp.auto /\ ~amp.voice

\* what a step does to the flags
AmpEffect(step) ==
  CASE step = "playing"   -> {[amp EXCEPT !.playing = TRUE]}
    [] step = "idle"      -> {[amp EXCEPT !.playing = FALSE]}
    [] step = "cancel"    -> {[amp EXCEPT !.armed = FALSE]}
    [] step = "start"     -> {[amp EXCEPT !.armed = TRUE]}
    [] step = "on"        -> {Driven(TRUE)}
    [] step = "off"       -> {Driven(FALSE)}
    [] step = "restore"   -> {Driven(amp.wasActive)}
    [] step = "configure" -> {[amp EXCEPT !.gpio = c.gpio, !.auto = c.auto, !.active = FALSE] :
                                c \in [gpio : BOOLEAN, auto : BOOLEAN]}
    [] OTHER              -> {amp}

\* a failed condition ends the function
AmpReturns(step, gpio) ==
  \/ step = "unlessPlaying" /\ amp.playing
  \/ step = "rearm" /\ (amp.playing \/ ~amp.wasActive)
  \/ step = "check" /\ ~MayStart
  \/ step = "configure" /\ ~gpio

AmpStep(t) ==
  /\ ~AmpIdle(t)
  /\ amp' \in AmpEffect(Head(ampTodo[t]))
  /\ ampTodo' = [ampTodo EXCEPT ![t] =
                   IF AmpReturns(Head(ampTodo[t]), amp'.gpio)
                     THEN << >> ELSE Tail(ampTodo[t])]

Next ==
  \/ PlayingEvent \/ IdleEvent
  \/ VoiceStarts \/ VoiceEnds
  \/ Reconfigure \/ TimerFires
  \/ \E t \in AmpTasks : AmpStep(t)

Spec == Init /\ [][Next]_ampVars

TypeOK ==
  /\ amp \in Amps
  /\ \A t \in AmpTasks : \A i \in 1 .. Len(ampTodo[t]) :
        ampTodo[t][i] \in AmpSteps

\* An amplifier left on with nothing playing will be put in standby: once no
\* function is under way, either the timer is armed or automatic standby is
\* off.  The four tasks cancel and arm the timer without a lock, and each of
\* them may skip arming because it sees another's flag; the flags are written
\* before the others are read, so that at least one of them arms it
\* (on_rtsp_event, amp_ctrl_set_voice_active, apply_config, standby_timer_cb).
NeverStranded ==
  (\A t \in AmpTasks : AmpIdle(t)) =>
     (amp.active /\ amp.gpio /\ amp.auto /\ ~amp.playing /\ ~amp.voice
        => amp.armed)
=============================================================================
