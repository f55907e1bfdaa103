---------------------------- MODULE SpeakerProofs ----------------------------
(***************************************************************************)
(* What holds of the way to the loudspeaker for every value of the         *)
(* constants: the invariants of MCSpeaker.                                 *)
(***************************************************************************)
EXTENDS MCSpeaker, SequenceTheorems, TLAPS

-----------------------------------------------------------------------------
(* The amplifier pin (AmpCtrl).                                            *)

\* What each task may still have to run of the function it is in.
AmpPrograms ==
  /\ DOMAIN ampTodo = Amp!AmpTasks
  /\ ampTodo["events"] \in {<< >>, <<"playing", "cancel", "on">>, <<"cancel", "on">>,
       <<"on">>, <<"idle", "check", "start">>, <<"check", "start">>, <<"start">>}
  /\ ampTodo["voice"] \in {<< >>, <<"cancel", "on">>, <<"on">>,
       <<"unlessPlaying", "check", "start">>, <<"check", "start">>, <<"start">>}
  /\ ampTodo["config"] \in {<< >>,
       <<"cancel", "configure", "restore", "rearm", "check", "start">>,
       <<"configure", "restore", "rearm", "check", "start">>,
       <<"restore", "rearm", "check", "start">>, <<"rearm", "check", "start">>,
       <<"check", "start">>, <<"start">>}
  /\ ampTodo["timer"] \in {<< >>, <<"off">>}

\* Only the task that set its flag drives the amplifier.
AmpFlagsHold ==
  /\ ampTodo["events"] \in {<<"cancel", "on">>, <<"on">>} => amp.playing
  /\ ampTodo["voice"] \in {<<"cancel", "on">>, <<"on">>} => amp.voice

\* On, with nothing that plays and no timer.
AmpStranded ==
  amp.active /\ amp.gpio /\ amp.auto /\ ~amp.playing /\ ~amp.voice /\ ~amp.armed

\* Somebody is about to look: the pending steps that end in arming the timer
\* or in switching the amplifier off.
AmpAttended ==
  \/ ampTodo["events"] \in {<<"idle", "check", "start">>, <<"check", "start">>, <<"start">>}
  \/ ampTodo["voice"] \in {<<"unlessPlaying", "check", "start">>, <<"check", "start">>,
                           <<"start">>}
  \/ ampTodo["config"] \in
       {<<"cancel", "configure", "restore", "rearm", "check", "start">>,
        <<"configure", "restore", "rearm", "check", "start">>,
        <<"restore", "rearm", "check", "start">>, <<"check", "start">>, <<"start">>}
  \/ ampTodo["config"] = <<"rearm", "check", "start">> /\ amp.wasActive
  \/ ampTodo["timer"] = <<"off">>

AmpInv == amp \in Amp!Amps /\ AmpPrograms /\ AmpFlagsHold /\ (AmpStranded => AmpAttended)

\* The steps of on_rtsp_event.
LEMMA AmpEventsStep ==
  ASSUME AmpInv, Amp!AmpStep("events")
  PROVE  AmpInv'
<1> USE DEF AmpInv, Amp!AmpTasks
<1>1. ampTodo["events"] # << >>
  BY DEF Amp!AmpStep, Amp!AmpIdle
<1>2. CASE ampTodo["events"] = <<"playing", "cancel", "on">>
  <2>1. /\ amp' = [amp EXCEPT !.playing = TRUE]
        /\ ampTodo' = [ampTodo EXCEPT !["events"] = <<"cancel", "on">>]
    BY <1>2 DEF Amp!AmpStep, Amp!AmpEffect, Amp!AmpReturns
  <2> QED
    BY <1>2, <2>1 DEF AmpPrograms, AmpFlagsHold, AmpStranded, AmpAttended,
       Amp!MayStart, Amp!Amps, Amp!Driven
<1>3. CASE ampTodo["events"] = <<"cancel", "on">>
  <2>1. /\ amp' = [amp EXCEPT !.armed = FALSE]
        /\ ampTodo' = [ampTodo EXCEPT !["events"] = <<"on">>]
    BY <1>3 DEF Amp!AmpStep, Amp!AmpEffect, Amp!AmpReturns
  <2> QED
    BY <1>3, <2>1 DEF AmpPrograms, AmpFlagsHold, AmpStranded, AmpAttended,
       Amp!MayStart, Amp!Amps, Amp!Driven
<1>4. CASE ampTodo["events"] = <<"on">>
  <2>1. /\ amp' = Amp!Driven(TRUE)
        /\ ampTodo' = [ampTodo EXCEPT !["events"] = << >>]
    BY <1>4 DEF Amp!AmpStep, Amp!AmpEffect, Amp!AmpReturns
  <2> QED
    BY <1>4, <2>1 DEF AmpPrograms, AmpFlagsHold, AmpStranded, AmpAttended,
       Amp!MayStart, Amp!Amps, Amp!Driven
<1>5. CASE ampTodo["events"] = <<"idle", "check", "start">>
  <2>1. /\ amp' = [amp EXCEPT !.playing = FALSE]
        /\ ampTodo' = [ampTodo EXCEPT !["events"] = <<"check", "start">>]
    BY <1>5 DEF Amp!AmpStep, Amp!AmpEffect, Amp!AmpReturns
  <2> QED
    BY <1>5, <2>1 DEF AmpPrograms, AmpFlagsHold, AmpStranded, AmpAttended,
       Amp!MayStart, Amp!Amps, Amp!Driven
<1>6. CASE ampTodo["events"] = <<"check", "start">>
  <2>1. /\ amp' = amp
        /\ ampTodo' = [ampTodo EXCEPT !["events"] =
                          IF ~Amp!MayStart THEN << >> ELSE <<"start">>]
    BY <1>6 DEF Amp!AmpStep, Amp!AmpEffect, Amp!AmpReturns
  <2> QED
    BY <1>6, <2>1 DEF AmpPrograms, AmpFlagsHold, AmpStranded, AmpAttended,
       Amp!MayStart, Amp!Amps, Amp!Driven
<1>7. CASE ampTodo["events"] = <<"start">>
  <2>1. /\ amp' = [amp EXCEPT !.armed = TRUE]
        /\ ampTodo' = [ampTodo EXCEPT !["events"] = << >>]
    BY <1>7 DEF Amp!AmpStep, Amp!AmpEffect, Amp!AmpReturns
  <2> QED
    BY <1>7, <2>1 DEF AmpPrograms, AmpFlagsHold, AmpStranded, AmpAttended,
       Amp!MayStart, Amp!Amps, Amp!Driven
<1> QED
  BY <1>1, <1>2, <1>3, <1>4, <1>5, <1>6, <1>7 DEF AmpPrograms

\* The steps of amp_ctrl_set_voice_active.
LEMMA AmpVoiceStep ==
  ASSUME AmpInv, Amp!AmpStep("voice")
  PROVE  AmpInv'
<1> USE DEF AmpInv, Amp!AmpTasks
<1>1. ampTodo["voice"] # << >>
  BY DEF Amp!AmpStep, Amp!AmpIdle
<1>2. CASE ampTodo["voice"] = <<"cancel", "on">>
  <2>1. /\ amp' = [amp EXCEPT !.armed = FALSE]
        /\ ampTodo' = [ampTodo EXCEPT !["voice"] = <<"on">>]
    BY <1>2 DEF Amp!AmpStep, Amp!AmpEffect, Amp!AmpReturns
  <2> QED
    BY <1>2, <2>1 DEF AmpPrograms, AmpFlagsHold, AmpStranded, AmpAttended,
       Amp!MayStart, Amp!Amps, Amp!Driven
<1>3. CASE ampTodo["voice"] = <<"on">>
  <2>1. /\ amp' = Amp!Driven(TRUE)
        /\ ampTodo' = [ampTodo EXCEPT !["voice"] = << >>]
    BY <1>3 DEF Amp!AmpStep, Amp!AmpEffect, Amp!AmpReturns
  <2> QED
    BY <1>3, <2>1 DEF AmpPrograms, AmpFlagsHold, AmpStranded, AmpAttended,
       Amp!MayStart, Amp!Amps, Amp!Driven
<1>4. CASE ampTodo["voice"] = <<"unlessPlaying", "check", "start">>
  <2>1. /\ amp' = amp
        /\ ampTodo' = [ampTodo EXCEPT !["voice"] =
                          IF amp.playing THEN << >> ELSE <<"check", "start">>]
    BY <1>4 DEF Amp!AmpStep, Amp!AmpEffect, Amp!AmpReturns
  <2> QED
    BY <1>4, <2>1 DEF AmpPrograms, AmpFlagsHold, AmpStranded, AmpAttended,
       Amp!MayStart, Amp!Amps, Amp!Driven
<1>5. CASE ampTodo["voice"] = <<"check", "start">>
  <2>1. /\ amp' = amp
        /\ ampTodo' = [ampTodo EXCEPT !["voice"] =
                          IF ~Amp!MayStart THEN << >> ELSE <<"start">>]
    BY <1>5 DEF Amp!AmpStep, Amp!AmpEffect, Amp!AmpReturns
  <2> QED
    BY <1>5, <2>1 DEF AmpPrograms, AmpFlagsHold, AmpStranded, AmpAttended,
       Amp!MayStart, Amp!Amps, Amp!Driven
<1>6. CASE ampTodo["voice"] = <<"start">>
  <2>1. /\ amp' = [amp EXCEPT !.armed = TRUE]
        /\ ampTodo' = [ampTodo EXCEPT !["voice"] = << >>]
    BY <1>6 DEF Amp!AmpStep, Amp!AmpEffect, Amp!AmpReturns
  <2> QED
    BY <1>6, <2>1 DEF AmpPrograms, AmpFlagsHold, AmpStranded, AmpAttended,
       Amp!MayStart, Amp!Amps, Amp!Driven
<1> QED
  BY <1>1, <1>2, <1>3, <1>4, <1>5, <1>6 DEF AmpPrograms

\* The steps of apply_config.
LEMMA AmpConfigStep ==
  ASSUME AmpInv, Amp!AmpStep("config")
  PROVE  AmpInv'
<1> USE DEF AmpInv, Amp!AmpTasks
<1>1. ampTodo["config"] # << >>
  BY DEF Amp!AmpStep, Amp!AmpIdle
<1>2. CASE ampTodo["config"] = <<"cancel", "configure", "restore", "rearm", "check", "start">>
  <2>1. /\ amp' = [amp EXCEPT !.armed = FALSE]
        /\ ampTodo' = [ampTodo EXCEPT !["config"] = <<"configure", "restore", "rearm", "check", "start">>]
    BY <1>2 DEF Amp!AmpStep, Amp!AmpEffect, Amp!AmpReturns
  <2> QED
    BY <1>2, <2>1 DEF AmpPrograms, AmpFlagsHold, AmpStranded, AmpAttended,
       Amp!MayStart, Amp!Amps, Amp!Driven
<1>3. CASE ampTodo["config"] = <<"configure", "restore", "rearm", "check", "start">>
  <2>1. amp' \in Amp!AmpEffect("configure")
    BY <1>3 DEF Amp!AmpStep
  <2>2. PICK c \in [gpio : BOOLEAN, auto : BOOLEAN] :
          amp' = [amp EXCEPT !.gpio = c.gpio, !.auto = c.auto, !.active = FALSE]
    BY <2>1 DEF Amp!AmpEffect
  <2>3. ampTodo' = [ampTodo EXCEPT !["config"] =
                      IF ~amp'.gpio THEN << >> ELSE <<"restore", "rearm", "check", "start">>]
    BY <1>3 DEF Amp!AmpStep, Amp!AmpReturns
  <2> QED
    BY <1>3, <2>2, <2>3 DEF AmpPrograms, AmpFlagsHold, AmpStranded, AmpAttended,
       Amp!MayStart, Amp!Amps, Amp!Driven
<1>4. CASE ampTodo["config"] = <<"restore", "rearm", "check", "start">>
  <2>1. /\ amp' = Amp!Driven(amp.wasActive)
        /\ ampTodo' = [ampTodo EXCEPT !["config"] = <<"rearm", "check", "start">>]
    BY <1>4 DEF Amp!AmpStep, Amp!AmpEffect, Amp!AmpReturns
  <2> QED
    BY <1>4, <2>1 DEF AmpPrograms, AmpFlagsHold, AmpStranded, AmpAttended,
       Amp!MayStart, Amp!Amps, Amp!Driven
<1>5. CASE ampTodo["config"] = <<"rearm", "check", "start">>
  <2>1. /\ amp' = amp
        /\ ampTodo' = [ampTodo EXCEPT !["config"] =
                          IF amp.playing \/ ~amp.wasActive THEN << >> ELSE <<"check", "start">>]
    BY <1>5 DEF Amp!AmpStep, Amp!AmpEffect, Amp!AmpReturns
  <2> QED
    BY <1>5, <2>1 DEF AmpPrograms, AmpFlagsHold, AmpStranded, AmpAttended,
       Amp!MayStart, Amp!Amps, Amp!Driven
<1>6. CASE ampTodo["config"] = <<"check", "start">>
  <2>1. /\ amp' = amp
        /\ ampTodo' = [ampTodo EXCEPT !["config"] =
                          IF ~Amp!MayStart THEN << >> ELSE <<"start">>]
    BY <1>6 DEF Amp!AmpStep, Amp!AmpEffect, Amp!AmpReturns
  <2> QED
    BY <1>6, <2>1 DEF AmpPrograms, AmpFlagsHold, AmpStranded, AmpAttended,
       Amp!MayStart, Amp!Amps, Amp!Driven
<1>7. CASE ampTodo["config"] = <<"start">>
  <2>1. /\ amp' = [amp EXCEPT !.armed = TRUE]
        /\ ampTodo' = [ampTodo EXCEPT !["config"] = << >>]
    BY <1>7 DEF Amp!AmpStep, Amp!AmpEffect, Amp!AmpReturns
  <2> QED
    BY <1>7, <2>1 DEF AmpPrograms, AmpFlagsHold, AmpStranded, AmpAttended,
       Amp!MayStart, Amp!Amps, Amp!Driven
<1> QED
  BY <1>1, <1>2, <1>3, <1>4, <1>5, <1>6, <1>7 DEF AmpPrograms

\* The steps of standby_timer_cb.
LEMMA AmpTimerStep ==
  ASSUME AmpInv, Amp!AmpStep("timer")
  PROVE  AmpInv'
<1> USE DEF AmpInv, Amp!AmpTasks
<1>1. ampTodo["timer"] # << >>
  BY DEF Amp!AmpStep, Amp!AmpIdle
<1>2. CASE ampTodo["timer"] = <<"off">>
  <2>1. /\ amp' = Amp!Driven(FALSE)
        /\ ampTodo' = [ampTodo EXCEPT !["timer"] = << >>]
    BY <1>2 DEF Amp!AmpStep, Amp!AmpEffect, Amp!AmpReturns
  <2> QED
    BY <1>2, <2>1 DEF AmpPrograms, AmpFlagsHold, AmpStranded, AmpAttended,
       Amp!MayStart, Amp!Amps, Amp!Driven
<1> QED
  BY <1>1, <1>2 DEF AmpPrograms

\* Two short programs, one after the other.
LEMMA Concat12 ==
  ASSUME NEW a, NEW b, NEW c
  PROVE  <<a>> \o <<b, c>> = <<a, b, c>>
<1> DEFINE u == <<a>> \o <<b, c>>
           v == <<a, b, c>>
<1>1. /\ u \in Seq({a, b, c}) /\ v \in Seq({a, b, c})
      /\ Len(u) = Len(v) /\ \A i \in 1 .. Len(u) : u[i] = v[i]
  OBVIOUS
<1>2. u = v
  <2> HIDE DEF u, v
  <2> QED
    BY <1>1, SeqEqual
<1> QED
  BY <1>2

LEMMA Concat42 ==
  ASSUME NEW a, NEW b, NEW c, NEW d, NEW e, NEW f
  PROVE  <<a, b, c, d>> \o <<e, f>> = <<a, b, c, d, e, f>>
<1> DEFINE u == <<a, b, c, d>> \o <<e, f>>
           v == <<a, b, c, d, e, f>>
<1>1. /\ u \in Seq({a, b, c, d, e, f}) /\ v \in Seq({a, b, c, d, e, f})
      /\ Len(u) = Len(v) /\ \A i \in 1 .. Len(u) : u[i] = v[i]
  OBVIOUS
<1>2. u = v
  <2> HIDE DEF u, v
  <2> QED
    BY <1>1, SeqEqual
<1> QED
  BY <1>2

\* The beginning of a function, in whichever task.
LEMMA AmpEnters ==
  ASSUME AmpInv,
         \/ Amp!PlayingEvent \/ Amp!IdleEvent \/ Amp!VoiceStarts \/ Amp!VoiceEnds
         \/ Amp!Reconfigure \/ Amp!TimerFires
  PROVE  AmpInv'
<1> USE DEF AmpInv, AmpPrograms, AmpFlagsHold, AmpStranded, AmpAttended,
            Amp!Amps, Amp!AmpTasks, Amp!Enter, Amp!AmpIdle
<1>1. CASE Amp!PlayingEvent
  BY <1>1 DEF Amp!PlayingEvent
<1>2. CASE Amp!IdleEvent
  <2>1. <<"idle">> \o <<"check", "start">> = <<"idle", "check", "start">>
    BY Concat12
  <2>2. /\ ampTodo' = [ampTodo EXCEPT !["events"] = <<"idle", "check", "start">>]
        /\ ampTodo["events"] = << >> /\ amp' = amp
    BY <1>2, <2>1 DEF Amp!IdleEvent, Amp!StartTimer
  <2> QED
    BY <2>2
<1>3. CASE Amp!VoiceStarts
  BY <1>3 DEF Amp!VoiceStarts
<1>4. CASE Amp!VoiceEnds
  <2>1. <<"unlessPlaying">> \o <<"check", "start">> = <<"unlessPlaying", "check", "start">>
    BY Concat12
  <2>2. /\ ampTodo' = [ampTodo EXCEPT !["voice"] = <<"unlessPlaying", "check", "start">>]
        /\ ampTodo["voice"] = << >> /\ amp' = [amp EXCEPT !.voice = FALSE]
    BY <1>4, <2>1 DEF Amp!VoiceEnds, Amp!StartTimer
  <2> QED
    BY <2>2
<1>5. CASE Amp!Reconfigure
  <2>1. <<"cancel", "configure", "restore", "rearm">> \o <<"check", "start">>
          = <<"cancel", "configure", "restore", "rearm", "check", "start">>
    BY Concat42
  <2>2. /\ ampTodo' = [ampTodo EXCEPT !["config"] =
                         <<"cancel", "configure", "restore", "rearm", "check", "start">>]
        /\ ampTodo["config"] = << >> /\ amp' = [amp EXCEPT !.wasActive = amp.active]
    BY <1>5, <2>1 DEF Amp!Reconfigure, Amp!ApplyConfig, Amp!StartTimer
  <2> QED
    BY <2>2
<1>6. CASE Amp!TimerFires
  BY <1>6 DEF Amp!TimerFires
<1> QED
  BY <1>1, <1>2, <1>3, <1>4, <1>5, <1>6

\* An amplifier left on with nothing playing is put in standby, however the
\* four tasks of amp_ctrl.c interleave their reads and writes: the invariant
\* that TLC checks, from "whenever it is on with nothing to play and no timer,
\* some task is about to look".
THEOREM AmplifierNeverStranded == Spec => []AmpNeverStranded
<1>1. Init => AmpInv
  BY DEF Init, Amp!Init, AmpInv, AmpPrograms, AmpFlagsHold, AmpStranded, Amp!Amps, Amp!AmpTasks
<1>2. AmpInv /\ [Next]_vars => AmpInv'
  <2> SUFFICES ASSUME AmpInv, [Next]_vars PROVE AmpInv'
    OBVIOUS
  <2>1. CASE AmpNext
    <3>1. ASSUME NEW t \in Amp!AmpTasks, Amp!AmpStep(t)
          PROVE  AmpInv'
      BY <3>1, AmpEventsStep, AmpVoiceStep, AmpConfigStep, AmpTimerStep DEF Amp!AmpTasks
    <3> QED
      BY <2>1, <3>1, AmpEnters DEF AmpNext, Amp!Next
  <2>2. CASE UNCHANGED ampVars
    BY <2>2 DEF ampVars, AmpInv, AmpPrograms, AmpFlagsHold, AmpStranded, AmpAttended
  <2> QED
    BY <2>1, <2>2 DEF Next, DacNext, BtEnvironment, BtFirmware, GatesNext, vars
<1>3. AmpInv => AmpNeverStranded
  BY DEF AmpNeverStranded, Amp!NeverStranded, Amp!AmpIdle, AmpInv, AmpStranded, AmpAttended,
         AmpPrograms, Amp!AmpTasks
<1> QED
  BY <1>1, <1>2, <1>3, PTL DEF Spec, Steps

-----------------------------------------------------------------------------
(* Who owns the speaker (Bluetooth).                                       *)

\* What is left of start_airplay_services, and of the handlers of CONNECTED and
\* DISCONNECTED, the latter up to there.
BtStarts ==
  {<< >>,
   <<"notStarted", "infra", "startPlayer", "startRtsp", "started">>,
   <<"infra", "startPlayer", "startRtsp", "started">>,
   <<"startPlayer", "startRtsp", "started">>,
   <<"startRtsp", "started">>,
   <<"started">>}

BtHandlers ==
  {<<"connected", "isStarted", "stopRtsp", "stopPlayer", "joinPlayer", "stopped",
     "sourceBt", "startWriter", "hide">>,
   <<"isStarted", "stopRtsp", "stopPlayer", "joinPlayer", "stopped", "sourceBt",
     "startWriter", "hide">>,
   <<"stopRtsp", "stopPlayer", "joinPlayer", "stopped", "sourceBt", "startWriter",
     "hide">>,
   <<"stopPlayer", "joinPlayer", "stopped", "sourceBt", "startWriter", "hide">>,
   <<"joinPlayer", "stopped", "sourceBt", "startWriter", "hide">>,
   <<"stopped", "sourceBt", "startWriter", "hide">>,
   <<"sourceBt", "startWriter", "hide">>,
   <<"startWriter", "hide">>,
   <<"hide">>,
   <<"disconnected", "stopWriter", "joinWriter", "freeRing", "announce", "sourceNone",
     "ifNetwork", "notStarted", "infra", "startPlayer", "startRtsp", "started">>,
   <<"stopWriter", "joinWriter", "freeRing", "announce", "sourceNone", "ifNetwork",
     "notStarted", "infra", "startPlayer", "startRtsp", "started">>,
   <<"joinWriter", "freeRing", "announce", "sourceNone", "ifNetwork", "notStarted",
     "infra", "startPlayer", "startRtsp", "started">>,
   <<"freeRing", "announce", "sourceNone", "ifNetwork", "notStarted", "infra",
     "startPlayer", "startRtsp", "started">>,
   <<"announce", "sourceNone", "ifNetwork", "notStarted", "infra", "startPlayer",
     "startRtsp", "started">>,
   <<"sourceNone", "ifNetwork", "notStarted", "infra", "startPlayer", "startRtsp",
     "started">>,
   <<"ifNetwork", "notStarted", "infra", "startPlayer", "startRtsp", "started">>}

BtPrograms ==
  /\ DOMAIN btTodo = {"app", "boot", "monitor"}
  /\ btTodo["app"] \in BtStarts \cup BtHandlers
  /\ btTodo["boot"] \in BtStarts /\ btTodo["monitor"] \in BtStarts

\* Where a task is.
BtAt(todo) == IF todo = << >> THEN "idle" ELSE Head(todo)

LEMMA BtNext ==
  ASSUME NEW p \in BtStarts \cup BtHandlers, p # << >>
  PROVE  /\ Tail(p) \in BtStarts \cup BtHandlers
         /\ p \in BtStarts => Tail(p) \in BtStarts
         /\ Head(p) = "connected" => BtAt(Tail(p)) = "isStarted"
         /\ Head(p) = "isStarted" => BtAt(Tail(p)) = "stopRtsp"
         /\ Head(p) = "stopRtsp" => BtAt(Tail(p)) = "stopPlayer"
         /\ Head(p) = "stopPlayer" => BtAt(Tail(p)) = "joinPlayer"
         /\ Head(p) = "joinPlayer" => BtAt(Tail(p)) = "stopped"
         /\ Head(p) = "stopped" => BtAt(Tail(p)) = "sourceBt"
         /\ Head(p) = "sourceBt" => BtAt(Tail(p)) = "startWriter"
         /\ Head(p) = "startWriter" => BtAt(Tail(p)) = "hide"
         /\ Head(p) = "hide" => BtAt(Tail(p)) = "idle"
         /\ Head(p) = "disconnected" => BtAt(Tail(p)) = "stopWriter"
         /\ Head(p) = "stopWriter" => BtAt(Tail(p)) = "joinWriter"
         /\ Head(p) = "joinWriter" => BtAt(Tail(p)) = "freeRing"
         /\ Head(p) = "freeRing" => BtAt(Tail(p)) = "announce"
         /\ Head(p) = "announce" => BtAt(Tail(p)) = "sourceNone"
         /\ Head(p) = "sourceNone" => BtAt(Tail(p)) = "ifNetwork"
         /\ Head(p) = "ifNetwork" => BtAt(Tail(p)) = "notStarted"
         /\ Head(p) = "notStarted" => BtAt(Tail(p)) = "infra"
         /\ Head(p) = "infra" => BtAt(Tail(p)) = "startPlayer"
         /\ Head(p) = "startPlayer" => BtAt(Tail(p)) = "startRtsp"
         /\ Head(p) = "startRtsp" => BtAt(Tail(p)) = "started"
         /\ Head(p) = "started" => BtAt(Tail(p)) = "idle"
<1>1. CASE p = <<"connected", "isStarted", "stopRtsp", "stopPlayer", "joinPlayer",
      "stopped", "sourceBt", "startWriter", "hide">>
  BY <1>1 DEF BtStarts, BtHandlers, BtAt
<1>2. CASE p = <<"isStarted", "stopRtsp", "stopPlayer", "joinPlayer", "stopped",
      "sourceBt", "startWriter", "hide">>
  BY <1>2 DEF BtStarts, BtHandlers, BtAt
<1>3. CASE p = <<"stopRtsp", "stopPlayer", "joinPlayer", "stopped", "sourceBt",
      "startWriter", "hide">>
  BY <1>3 DEF BtStarts, BtHandlers, BtAt
<1>4. CASE p = <<"stopPlayer", "joinPlayer", "stopped", "sourceBt", "startWriter",
      "hide">>
  BY <1>4 DEF BtStarts, BtHandlers, BtAt
<1>5. CASE p = <<"joinPlayer", "stopped", "sourceBt", "startWriter", "hide">>
  BY <1>5 DEF BtStarts, BtHandlers, BtAt
<1>6. CASE p = <<"stopped", "sourceBt", "startWriter", "hide">>
  BY <1>6 DEF BtStarts, BtHandlers, BtAt
<1>7. CASE p = <<"sourceBt", "startWriter", "hide">>
  BY <1>7 DEF BtStarts, BtHandlers, BtAt
<1>8. CASE p = <<"startWriter", "hide">>
  BY <1>8 DEF BtStarts, BtHandlers, BtAt
<1>9. CASE p = <<"hide">>
  BY <1>9 DEF BtStarts, BtHandlers, BtAt
<1>10. CASE p = <<"disconnected", "stopWriter", "joinWriter", "freeRing", "announce",
      "sourceNone", "ifNetwork", "notStarted", "infra", "startPlayer", "startRtsp",
      "started">>
  BY <1>10 DEF BtStarts, BtHandlers, BtAt
<1>11. CASE p = <<"stopWriter", "joinWriter", "freeRing", "announce", "sourceNone",
      "ifNetwork", "notStarted", "infra", "startPlayer", "startRtsp", "started">>
  BY <1>11 DEF BtStarts, BtHandlers, BtAt
<1>12. CASE p = <<"joinWriter", "freeRing", "announce", "sourceNone", "ifNetwork",
      "notStarted", "infra", "startPlayer", "startRtsp", "started">>
  BY <1>12 DEF BtStarts, BtHandlers, BtAt
<1>13. CASE p = <<"freeRing", "announce", "sourceNone", "ifNetwork", "notStarted",
      "infra", "startPlayer", "startRtsp", "started">>
  BY <1>13 DEF BtStarts, BtHandlers, BtAt
<1>14. CASE p = <<"announce", "sourceNone", "ifNetwork", "notStarted", "infra",
      "startPlayer", "startRtsp", "started">>
  BY <1>14 DEF BtStarts, BtHandlers, BtAt
<1>15. CASE p = <<"sourceNone", "ifNetwork", "notStarted", "infra", "startPlayer",
      "startRtsp", "started">>
  BY <1>15 DEF BtStarts, BtHandlers, BtAt
<1>16. CASE p = <<"ifNetwork", "notStarted", "infra", "startPlayer", "startRtsp",
      "started">>
  BY <1>16 DEF BtStarts, BtHandlers, BtAt
<1>17. CASE p = <<"notStarted", "infra", "startPlayer", "startRtsp", "started">>
  BY <1>17 DEF BtStarts, BtHandlers, BtAt
<1>18. CASE p = <<"infra", "startPlayer", "startRtsp", "started">>
  BY <1>18 DEF BtStarts, BtHandlers, BtAt
<1>19. CASE p = <<"startPlayer", "startRtsp", "started">>
  BY <1>19 DEF BtStarts, BtHandlers, BtAt
<1>20. CASE p = <<"startRtsp", "started">>
  BY <1>20 DEF BtStarts, BtHandlers, BtAt
<1>21. CASE p = <<"started">>
  BY <1>21 DEF BtStarts, BtHandlers, BtAt
<1> QED
  BY <1>1, <1>2, <1>3, <1>4, <1>5, <1>6, <1>7, <1>8, <1>9, <1>10, <1>11, <1>12, <1>13,
     <1>14, <1>15, <1>16, <1>17, <1>18, <1>19, <1>20, <1>21 DEF BtStarts, BtHandlers

\* An early return leaves what follows the function.
LEMMA BtSkips ==
  ASSUME NEW p \in BtStarts \cup BtHandlers, p # << >>
  PROVE  /\ Head(p) = "notStarted" => SubSeq(p, 6, Len(p)) = << >>
         /\ Head(p) = "ifNetwork" => SubSeq(p, 7, Len(p)) = << >>
         /\ Head(p) = "isStarted" =>
              SubSeq(p, 6, Len(p)) = <<"sourceBt", "startWriter", "hide">>
<1>1. Head(p) = "notStarted" => SubSeq(p, 6, Len(p)) = << >>
  <2>1. Head(p) = "notStarted"
          => p = <<"notStarted", "infra", "startPlayer", "startRtsp", "started">>
    BY DEF BtStarts, BtHandlers
  <2>2. Head(p) = "notStarted" => Len(p) = 5
    <3>1. Len(<<"notStarted", "infra", "startPlayer", "startRtsp", "started">>) = 5
      OBVIOUS
    <3> QED
      BY <2>1, <3>1, Zenon
  <2>3. SubSeq(p, 6, 5) = << >>
    BY SubSeqEmpty
  <2> QED
    BY <2>2, <2>3
<1>2. Head(p) = "ifNetwork" => SubSeq(p, 7, Len(p)) = << >>
  <2>1. Head(p) = "ifNetwork"
          => p = <<"ifNetwork", "notStarted", "infra", "startPlayer", "startRtsp", "started">>
    BY DEF BtStarts, BtHandlers
  <2>2. Head(p) = "ifNetwork" => Len(p) = 6
    <3>1. Len(<<"ifNetwork", "notStarted", "infra", "startPlayer", "startRtsp", "started">>) = 6
      OBVIOUS
    <3> QED
      BY <2>1, <3>1, Zenon
  <2>3. SubSeq(p, 7, 6) = << >>
    BY SubSeqEmpty
  <2> QED
    BY <2>2, <2>3
<1>3. Head(p) = "isStarted"
        => SubSeq(p, 6, Len(p)) = <<"sourceBt", "startWriter", "hide">>
  <2>1. Head(p) = "isStarted"
          => p = <<"isStarted", "stopRtsp", "stopPlayer", "joinPlayer", "stopped",
                   "sourceBt", "startWriter", "hide">>
    BY DEF BtStarts, BtHandlers
  <2> SUFFICES ASSUME p = <<"isStarted", "stopRtsp", "stopPlayer", "joinPlayer",
                            "stopped", "sourceBt", "startWriter", "hide">>
               PROVE  SubSeq(p, 6, Len(p)) = <<"sourceBt", "startWriter", "hide">>
    BY <2>1
  <2> DEFINE u == SubSeq(p, 6, Len(p))
             v == <<"sourceBt", "startWriter", "hide">>
             S == {"sourceBt", "startWriter", "hide"}
  <2>2. Len(p) = 8 /\ p[6] = "sourceBt" /\ p[7] = "startWriter" /\ p[8] = "hide"
    OBVIOUS
  <2>3. \A i \in 6 .. 8 : p[i] \in S
    BY <2>2
  <2>4. /\ SubSeq(p, 6, 8) \in Seq(S) /\ Len(SubSeq(p, 6, 8)) = 3
        /\ \A i \in 1 .. 3 : SubSeq(p, 6, 8)[i] = p[6 + i - 1]
    <3> HIDE DEF S
    <3>1. 6 \in Int /\ 8 \in Int
      OBVIOUS
    <3> QED
      BY <2>3, <3>1, SubSeqProperties
  <2>5. u \in Seq(S) /\ Len(u) = 3 /\ u[1] = p[6] /\ u[2] = p[7] /\ u[3] = p[8]
    BY <2>2, <2>4
  <2>6. v \in Seq(S) /\ Len(v) = 3 /\ v[1] = p[6] /\ v[2] = p[7] /\ v[3] = p[8]
    BY <2>2
  <2> HIDE DEF u, v
  <2>7. \A i \in 1 .. Len(u) : u[i] = v[i]
    BY <2>5, <2>6
  <2> QED
    BY <2>5, <2>6, <2>7, SeqEqual DEF u, v
<1> QED
  BY <1>1, <1>2, <1>3

\* A sequence with the elements of two, one after the other.
LEMMA ConcatIs ==
  ASSUME NEW S, NEW q \in Seq(S), NEW r \in Seq(S), NEW v \in Seq(S),
         Len(v) = Len(q) + Len(r),
         \A i \in 1 .. Len(q) : v[i] = q[i],
         \A i \in 1 .. Len(r) : v[Len(q) + i] = r[i]
  PROVE  q \o r = v
<1> DEFINE u == q \o r
<1>1. /\ u \in Seq(S) /\ Len(u) = Len(q) + Len(r)
      /\ \A i \in 1 .. Len(q) + Len(r) :
           u[i] = IF i <= Len(q) THEN q[i] ELSE r[i - Len(q)]
  BY ConcatProperties
<1>2. Len(q) \in Nat /\ Len(r) \in Nat
  BY LenProperties
<1> HIDE DEF u
<1>3. ASSUME NEW i \in 1 .. Len(u)  PROVE u[i] = v[i]
  <2>1. CASE i <= Len(q)
    BY <1>1, <1>2, <2>1
  <2>2. CASE ~(i <= Len(q))
    <3>1. i - Len(q) \in 1 .. Len(r) /\ Len(q) + (i - Len(q)) = i
      BY <1>1, <1>2, <2>2
    <3> QED
      BY <1>1, <2>2, <3>1
  <2> QED
    BY <2>1, <2>2
<1>4. u = v
  BY <1>1, <1>3, SeqEqual
<1> QED
  BY <1>4 DEF u

\* The handlers are these programs.
LEMMA BtHandlerIs ==
  /\ Bt!ConnectedSteps \in BtHandlers /\ BtAt(Bt!ConnectedSteps) = "connected"
  /\ Bt!DisconnectedSteps \in BtHandlers /\ BtAt(Bt!DisconnectedSteps) = "disconnected"
  /\ Bt!Starting \in BtStarts /\ BtAt(Bt!Starting) = "notStarted"
<1> DEFINE one == <<"connected">>
           stop == <<"isStarted", "stopRtsp", "stopPlayer", "joinPlayer", "stopped">>
           start == <<"notStarted", "infra", "startPlayer", "startRtsp", "started">>
           hide == <<"sourceBt", "startWriter", "hide">>
           end == <<"disconnected", "stopWriter", "joinWriter", "freeRing", "announce",
                    "sourceNone", "ifNetwork">>
           c2 == <<"connected", "isStarted", "stopRtsp", "stopPlayer", "joinPlayer",
                   "stopped">>
           c4 == <<"connected", "isStarted", "stopRtsp", "stopPlayer", "joinPlayer",
                   "stopped", "sourceBt", "startWriter", "hide">>
           d2 == <<"disconnected", "stopWriter", "joinWriter", "freeRing", "announce",
                   "sourceNone", "ifNetwork", "notStarted", "infra", "startPlayer",
                   "startRtsp", "started">>
           S == {"connected", "isStarted", "stopRtsp", "stopPlayer", "joinPlayer", "stopped",
                 "sourceBt", "startWriter", "hide", "disconnected", "stopWriter",
                 "joinWriter", "freeRing", "announce", "sourceNone", "ifNetwork",
                 "notStarted", "infra", "startPlayer", "startRtsp", "started"}
<1>1. one \o stop = c2
  <2>1. one \in Seq(S)
    OBVIOUS
  <2>2. stop \in Seq(S)
    OBVIOUS
  <2>3. c2 \in Seq(S)
    OBVIOUS
  <2>4. Len(one) = 1 /\ Len(stop) = 5 /\ Len(c2) = 1 + 5
    OBVIOUS
  <2>5. \A i \in 1 .. 1 : c2[i] = one[i]
    OBVIOUS
  <2>6. \A i \in 1 .. 5 : c2[1 + i] = stop[i]
    OBVIOUS
  <2> HIDE DEF S, one, stop, start, hide, end, c2, c4, d2
  <2>7. Len(c2) = Len(one) + Len(stop)
    BY <2>4
  <2>8. /\ \A i \in 1 .. Len(one) : c2[i] = one[i]
        /\ \A i \in 1 .. Len(stop) : c2[Len(one) + i] = stop[i]
    BY <2>4, <2>5, <2>6
  <2> QED
    BY <2>1, <2>2, <2>3, <2>7, <2>8, ConcatIs, Zenon
<1>2. c2 \o hide = c4
  <2>1. c2 \in Seq(S)
    OBVIOUS
  <2>2. hide \in Seq(S)
    OBVIOUS
  <2>3. c4 \in Seq(S)
    OBVIOUS
  <2>4. Len(c2) = 6 /\ Len(hide) = 3 /\ Len(c4) = 6 + 3
    OBVIOUS
  <2>5. \A i \in 1 .. 6 : c4[i] = c2[i]
    OBVIOUS
  <2>6. \A i \in 1 .. 3 : c4[6 + i] = hide[i]
    OBVIOUS
  <2> HIDE DEF S, one, stop, start, hide, end, c2, c4, d2
  <2>7. Len(c4) = Len(c2) + Len(hide)
    BY <2>4
  <2>8. /\ \A i \in 1 .. Len(c2) : c4[i] = c2[i]
        /\ \A i \in 1 .. Len(hide) : c4[Len(c2) + i] = hide[i]
    BY <2>4, <2>5, <2>6
  <2> QED
    BY <2>1, <2>2, <2>3, <2>7, <2>8, ConcatIs, Zenon
<1>3. end \o start = d2
  <2>1. end \in Seq(S)
    OBVIOUS
  <2>2. start \in Seq(S)
    OBVIOUS
  <2>3. d2 \in Seq(S)
    OBVIOUS
  <2>4. Len(end) = 7 /\ Len(start) = 5 /\ Len(d2) = 7 + 5
    OBVIOUS
  <2>5. \A i \in 1 .. 7 : d2[i] = end[i]
    OBVIOUS
  <2>6. \A i \in 1 .. 5 : d2[7 + i] = start[i]
    OBVIOUS
  <2> HIDE DEF S, one, stop, start, hide, end, c2, c4, d2
  <2>7. Len(d2) = Len(end) + Len(start)
    BY <2>4
  <2>8. /\ \A i \in 1 .. Len(end) : d2[i] = end[i]
        /\ \A i \in 1 .. Len(start) : d2[Len(end) + i] = start[i]
    BY <2>4, <2>5, <2>6
  <2> QED
    BY <2>1, <2>2, <2>3, <2>7, <2>8, ConcatIs, Zenon
<1>4. Bt!ConnectedSteps = c4
  <2>1. Bt!ConnectedSteps = (one \o stop) \o hide
    BY Zenon DEF Bt!ConnectedSteps, Bt!Stopping
  <2> HIDE DEF one, c2, c4, stop, hide
  <2> QED
    BY <1>1, <1>2, <2>1
<1>5. Bt!DisconnectedSteps = d2
  <2>1. Bt!DisconnectedSteps = end \o start
    BY Zenon DEF Bt!DisconnectedSteps, Bt!Starting
  <2> HIDE DEF d2, end, start
  <2> QED
    BY <1>3, <2>1
<1>6. c4 \in BtHandlers /\ BtAt(c4) = "connected"
  BY DEF BtHandlers, BtAt
<1>7. d2 \in BtHandlers /\ BtAt(d2) = "disconnected"
  BY DEF BtHandlers, BtAt
<1>8. Bt!Starting \in BtStarts /\ BtAt(Bt!Starting) = "notStarted"
  BY DEF BtStarts, BtAt, Bt!Starting
<1> HIDE DEF c4, d2
<1> QED
  BY <1>4, <1>5, <1>6, <1>7, <1>8

BtApp == BtAt(btTodo["app"])
BtBoot == BtAt(btTodo["boot"])
BtMonitor == BtAt(btTodo["monitor"])

\* The device as the start-up task leaves it: no phone, nothing to handle.
BtResting == ~phone.up /\ queue = << >> /\ BtApp = "idle" /\ ~bt.connected

BtFields ==
  /\ phone = [up |-> phone.up, links |-> phone.links]
  /\ bt = [connected |-> bt.connected, discoverable |-> bt.discoverable, scan |-> bt.scan]
  /\ writer = [task |-> writer.task, running |-> writer.running, ring |-> writer.ring,
               sem |-> writer.sem]
  /\ player = [tasks |-> player.tasks, running |-> player.running,
               handle |-> player.handle]
  /\ airplay = [started |-> airplay.started, infra |-> airplay.infra,
                rtsp |-> airplay.rtsp, source |-> airplay.source]
  /\ btHist = [lost |-> btHist.lost, beside |-> btHist.beside, abort |-> btHist.abort,
               freed |-> btHist.freed, dip |-> btHist.dip]

\* There is a playback task when there is a handle on it.
BtPlayer == player.tasks = IF player.handle THEN 1 ELSE 0

\* The start-up task has ended before a phone can connect.
BtBootAlone == BtBoot # "idle" => BtResting

\* The handlers of a connection and of its end know which one they handle, and
\* the writer runs in between.
BtConnected ==
  /\ BtApp \in {"isStarted", "stopRtsp", "stopPlayer", "joinPlayer", "stopped",
                "sourceBt", "startWriter", "hide"} => bt.connected
  /\ BtApp \in {"stopWriter", "joinWriter", "freeRing", "announce", "sourceNone",
                "ifNetwork", "notStarted", "infra", "startPlayer", "startRtsp",
                "started"} => ~bt.connected
  /\ writer.task # "none" => bt.connected \/ BtApp \in {"stopWriter", "joinWriter"}

\* A playback task that runs is known to AirPlay's flag, or will be as soon as
\* the task that started it has ended start_airplay_services.
BtKnown ==
  player.tasks # 0 => \/ airplay.started
                      \/ BtApp \in {"startRtsp", "started"}
                      \/ BtBoot \in {"startRtsp", "started"}
                      \/ BtMonitor \in {"startRtsp", "started"}

\* One at a time: once the connection handler has stopped AirPlay there is no
\* playback task, and the writer lives only then.
BtApart ==
  ~btHist.beside /\ ~btHist.lost =>
    /\ BtMonitor \in {"startRtsp", "started"} => BtResting
    /\ BtApp \in {"stopped", "sourceBt", "startWriter", "hide"} => player.tasks = 0
    /\ writer.task # "none" => player.tasks = 0
    /\ BtKnown

BtInv ==
  BtPrograms /\ BtFields /\ BtPlayer /\ BtBootAlone /\ BtConnected /\ BtApart

\* The step after each.
BtFollows(a, b) ==
  /\ a = "connected" => b = "isStarted"
  /\ a = "isStarted" => b = "stopRtsp"
  /\ a = "stopRtsp" => b = "stopPlayer"
  /\ a = "stopPlayer" => b = "joinPlayer"
  /\ a = "joinPlayer" => b = "stopped"
  /\ a = "stopped" => b = "sourceBt"
  /\ a = "sourceBt" => b = "startWriter"
  /\ a = "startWriter" => b = "hide"
  /\ a = "hide" => b = "idle"
  /\ a = "disconnected" => b = "stopWriter"
  /\ a = "stopWriter" => b = "joinWriter"
  /\ a = "joinWriter" => b = "freeRing"
  /\ a = "freeRing" => b = "announce"
  /\ a = "announce" => b = "sourceNone"
  /\ a = "sourceNone" => b = "ifNetwork"
  /\ a = "ifNetwork" => b = "notStarted"
  /\ a = "notStarted" => b = "infra"
  /\ a = "infra" => b = "startPlayer"
  /\ a = "startPlayer" => b = "startRtsp"
  /\ a = "startRtsp" => b = "started"
  /\ a = "started" => b = "idle"

BtStartSteps == {"notStarted", "infra", "startPlayer", "startRtsp", "started"}

\* Only an empty program is idle, and one that starts AirPlay does nothing else.
LEMMA BtIdle ==
  ASSUME NEW p \in BtStarts \cup BtHandlers
  PROVE  /\ BtAt(p) = "idle" <=> p = << >>
         /\ p \in BtStarts => BtAt(p) \in BtStartSteps \cup {"idle"}
<1>1. p # << >> => Head(p) # "idle"
  BY DEF BtStarts, BtHandlers
<1>2. p \in BtStarts /\ p # << >> => Head(p) \in BtStartSteps
  BY DEF BtStarts, BtStartSteps
<1> QED
  BY <1>1, <1>2 DEF BtAt

\* A step of a task moves that task alone.
LEMMA BtMoves ==
  ASSUME BtPrograms, NEW t \in {"app", "boot", "monitor"}, btTodo[t] # << >>,
         Bt!Done(t)
  PROVE  /\ BtPrograms'
         /\ BtFollows(BtAt(btTodo[t]), BtAt(btTodo'[t]))
         /\ \A s \in {"app", "boot", "monitor"} \ {t} : btTodo'[s] = btTodo[s]
<1>1. /\ btTodo'[t] = Tail(btTodo[t]) /\ DOMAIN btTodo' = DOMAIN btTodo
      /\ \A s \in {"app", "boot", "monitor"} \ {t} : btTodo'[s] = btTodo[s]
  BY DEF BtPrograms, Bt!Done
<1> DEFINE p == btTodo[t]
<1>2. p \in BtStarts \cup BtHandlers /\ p # << >> /\ (t # "app" => p \in BtStarts)
  BY DEF BtPrograms
<1> HIDE DEF p
<1>3. BtFollows(BtAt(p), BtAt(Tail(p)))
  BY <1>2, BtNext DEF BtFollows, BtAt
<1>4. Tail(p) \in BtStarts \cup BtHandlers /\ (t # "app" => Tail(p) \in BtStarts)
  BY <1>2, BtNext
<1>5. BtPrograms'
  <2> HIDE DEF BtStarts, BtHandlers
  <2> QED
    BY <1>1, <1>4 DEF BtPrograms, p
<1> QED
  BY <1>1, <1>3, <1>5 DEF p

LEMMA BtAppMoves ==
  ASSUME BtPrograms, btTodo["app"] # << >>, Bt!Done("app")
  PROVE  /\ BtPrograms' /\ BtFollows(BtApp, BtApp') /\ BtApp = Head(btTodo["app"])
         /\ BtApp # "idle" /\ BtBoot' = BtBoot /\ BtMonitor' = BtMonitor
<1>1. BtFollows(BtApp, BtApp') /\ BtPrograms' /\ BtBoot' = BtBoot /\ BtMonitor' = BtMonitor
  BY BtMoves DEF BtApp, BtBoot, BtMonitor
<1>2. BtApp # "idle"
  BY BtIdle DEF BtPrograms, BtApp
<1> QED
  BY <1>1, <1>2 DEF BtApp, BtAt

LEMMA BtBootMoves ==
  ASSUME BtPrograms, btTodo["boot"] # << >>, Bt!Done("boot")
  PROVE  /\ BtPrograms' /\ BtFollows(BtBoot, BtBoot') /\ BtBoot = Head(btTodo["boot"])
         /\ BtBoot \in BtStartSteps /\ BtApp' = BtApp /\ BtMonitor' = BtMonitor
<1>1. BtFollows(BtBoot, BtBoot') /\ BtPrograms' /\ BtApp' = BtApp /\ BtMonitor' = BtMonitor
  BY BtMoves DEF BtApp, BtBoot, BtMonitor
<1>2. BtBoot \in BtStartSteps
  BY BtIdle DEF BtPrograms, BtBoot
<1> QED
  BY <1>1, <1>2 DEF BtBoot, BtAt

LEMMA BtMonitorMoves ==
  ASSUME BtPrograms, btTodo["monitor"] # << >>, Bt!Done("monitor")
  PROVE  /\ BtPrograms' /\ BtFollows(BtMonitor, BtMonitor')
         /\ BtMonitor = Head(btTodo["monitor"])
         /\ BtMonitor \in BtStartSteps /\ BtApp' = BtApp /\ BtBoot' = BtBoot
<1>1. /\ BtFollows(BtMonitor, BtMonitor') /\ BtPrograms'
      /\ BtApp' = BtApp /\ BtBoot' = BtBoot
  BY BtMoves DEF BtApp, BtBoot, BtMonitor
<1>2. BtMonitor \in BtStartSteps
  BY BtIdle DEF BtPrograms, BtMonitor
<1> QED
  BY <1>1, <1>2 DEF BtMonitor, BtAt

\* What the Bluetooth stack, the network and the clients do.
LEMMA BtPhone ==
  ASSUME BtInv, Bt!PhoneConnects \/ Bt!PhoneLeaves
  PROVE  BtInv'
<1> USE DEF BtInv
<1>1. BtPrograms' /\ BtApp' = BtApp /\ BtBoot' = BtBoot /\ BtMonitor' = BtMonitor
  BY DEF Bt!PhoneConnects, Bt!PhoneLeaves, BtPrograms, BtApp, BtBoot, BtMonitor
<1>2. BtFields'
  BY DEF BtFields, Bt!PhoneConnects, Bt!PhoneLeaves, Bt!Dispatch
<1>3. BtBoot = "idle"
  <2>1. btTodo["boot"] = << >> => BtBoot = "idle"
    BY DEF BtBoot, BtAt
  <2>2. CASE Bt!PhoneConnects
    BY <2>1, <2>2 DEF Bt!PhoneConnects
  <2>3. CASE Bt!PhoneLeaves
    BY <2>3 DEF Bt!PhoneLeaves, BtBootAlone, BtResting
  <2> QED
    BY <2>2, <2>3
<1>4. /\ btHist'.beside <=> (btHist.beside \/ btTodo["monitor"] # << >>)
      /\ btHist.lost => btHist'.lost
  BY DEF BtFields, Bt!PhoneConnects, Bt!PhoneLeaves, Bt!Dispatch
<1>5. ~btHist'.beside => BtMonitor = "idle"
  BY <1>4 DEF BtMonitor, BtAt
<1>6. UNCHANGED <<bt, writer, player, airplay>>
  BY DEF Bt!PhoneConnects, Bt!PhoneLeaves
<1>7. BtPlayer' /\ BtBootAlone' /\ BtConnected'
  BY <1>1, <1>3, <1>6 DEF BtPlayer, BtBootAlone, BtConnected
<1>8. BtApart'
  BY <1>1, <1>4, <1>5, <1>6 DEF BtApart, BtKnown
<1> QED
  BY <1>1, <1>2, <1>7, <1>8

LEMMA BtOutside ==
  ASSUME BtInv,
         \/ Bt!DataArrives \/ Bt!DataStored \/ Bt!ClientConnects \/ Bt!ClientLeaves
         \/ Bt!NetworkChanges
  PROVE  BtInv'
<1> USE DEF BtInv
<1>1. BtPrograms' /\ BtApp' = BtApp /\ BtBoot' = BtBoot /\ BtMonitor' = BtMonitor
  BY DEF Bt!DataArrives, Bt!DataStored, Bt!ClientConnects, Bt!ClientLeaves,
         Bt!NetworkChanges, BtPrograms, BtApp, BtBoot, BtMonitor
<1>2. UNCHANGED <<phone, queue, player, airplay>>
  BY DEF Bt!DataArrives, Bt!DataStored, Bt!ClientConnects, Bt!ClientLeaves,
         Bt!NetworkChanges
<1>3. /\ BtFields' /\ (bt'.connected <=> bt.connected) /\ writer'.task = writer.task
      /\ (btHist'.beside <=> btHist.beside) /\ (btHist'.lost <=> btHist.lost)
  BY DEF BtFields, Bt!DataArrives, Bt!DataStored, Bt!ClientConnects, Bt!ClientLeaves,
         Bt!NetworkChanges, Bt!Announced, Bt!Discoverable
<1>4. BtPlayer' /\ BtBootAlone' /\ BtConnected'
  BY <1>1, <1>2, <1>3 DEF BtPlayer, BtBootAlone, BtConnected, BtResting
<1>5. BtApart'
  BY <1>1, <1>2, <1>3 DEF BtApart, BtKnown, BtResting
<1> QED
  BY <1>1, <1>3, <1>4, <1>5

\* The tasks that make sound end by themselves.
LEMMA BtSound ==
  ASSUME BtInv, Bt!WriterStep \/ Bt!PlayerEnds
  PROVE  BtInv'
<1> USE DEF BtInv
<1>1. BtPrograms' /\ BtApp' = BtApp /\ BtBoot' = BtBoot /\ BtMonitor' = BtMonitor
  BY DEF Bt!WriterStep, Bt!PlayerEnds, BtPrograms, BtApp, BtBoot, BtMonitor
<1>2. UNCHANGED <<phone, queue, bt, airplay, btHist>>
  BY DEF Bt!WriterStep, Bt!PlayerEnds
<1>3. /\ BtFields' /\ BtPlayer'
      /\ writer'.task # "none" => writer.task # "none"
      /\ player'.tasks # 0 => player.tasks # 0
  <2>1. CASE Bt!WriterStep
    BY <2>1 DEF BtFields, BtPlayer, Bt!WriterStep
  <2>2. CASE Bt!PlayerEnds
    <3>1. player.tasks = 1
      BY <2>2 DEF BtPlayer, Bt!PlayerEnds
    <3>2. player' = [player EXCEPT !.tasks = player.tasks - 1, !.handle = FALSE]
      BY <2>2 DEF Bt!PlayerEnds
    <3>3. player' = [tasks |-> player.tasks - 1, running |-> player.running,
                     handle |-> FALSE]
      BY <3>2 DEF BtFields
    <3>4. player'.tasks = 0 /\ ~player'.handle
      BY <3>1, <3>3
    <3>5. BtPlayer'
      BY <3>4 DEF BtPlayer
    <3>6. player' = [tasks |-> player'.tasks, running |-> player'.running,
                     handle |-> player'.handle]
      BY <3>3
    <3>7. UNCHANGED <<phone, bt, writer, airplay, btHist>>
      BY <2>2 DEF Bt!PlayerEnds
    <3>8. BtFields'
      BY <3>6, <3>7 DEF BtFields
    <3> QED
      BY <3>1, <3>4, <3>5, <3>7, <3>8
  <2> QED
    BY <2>1, <2>2
<1>4. BtBootAlone' /\ BtConnected'
  BY <1>1, <1>2, <1>3 DEF BtBootAlone, BtConnected, BtResting
<1>5. BtApart'
  BY <1>1, <1>2, <1>3 DEF BtApart, BtKnown, BtResting
<1> QED
  BY <1>1, <1>3, <1>4, <1>5

\* The network monitor starts AirPlay, the Bluetooth task a handler.
LEMMA BtBegin ==
  ASSUME BtInv, Bt!MonitorLooks \/ Bt!TakeEvent
  PROVE  BtInv'
<1> USE DEF BtInv
<1>1. UNCHANGED <<phone, bt, writer, player, airplay, btHist>> /\ BtFields' /\ BtPlayer'
  BY DEF Bt!MonitorLooks, Bt!TakeEvent, BtFields, BtPlayer
<1>2. CASE Bt!MonitorLooks
  <2>1. /\ BtPrograms' /\ BtApp' = BtApp /\ BtBoot' = BtBoot
        /\ queue' = queue /\ BtMonitor' \in {"idle", "notStarted"}
    <3> DEFINE p == IF net.up THEN Bt!Starting ELSE << >>
    <3>1. p \in BtStarts /\ BtAt(p) \in {"idle", "notStarted"}
      BY BtHandlerIs DEF BtStarts, BtAt
    <3> HIDE DEF p
    <3>2. btTodo' = [btTodo EXCEPT !["monitor"] = p] /\ queue' = queue
      BY <1>2 DEF Bt!MonitorLooks, p
    <3> HIDE DEF BtStarts, BtHandlers
    <3> QED
      BY <3>1, <3>2 DEF BtPrograms, BtApp, BtBoot, BtMonitor
  <2>2. BtBootAlone' /\ BtConnected'
    BY <1>1, <2>1 DEF BtBootAlone, BtConnected, BtResting
  <2>3. BtMonitor = "idle"
    BY <1>2 DEF Bt!MonitorLooks, BtMonitor, BtAt
  <2>4. BtApart'
    BY <1>1, <2>1, <2>3 DEF BtApart, BtKnown, BtResting
  <2> QED
    BY <1>1, <2>1, <2>2, <2>4
<1>3. CASE Bt!TakeEvent
  <2>1. /\ BtPrograms' /\ BtMonitor' = BtMonitor /\ BtBoot' = BtBoot
        /\ BtApp' \in {"connected", "disconnected"}
    <3> DEFINE p == Bt!HandlerOf(Head(queue))
    <3>1. p \in BtHandlers /\ BtAt(p) \in {"connected", "disconnected"}
      BY BtHandlerIs DEF Bt!HandlerOf
    <3> HIDE DEF p
    <3>2. btTodo' = [btTodo EXCEPT !["app"] = p]
      BY <1>3 DEF Bt!TakeEvent, p
    <3> HIDE DEF BtStarts, BtHandlers
    <3> QED
      BY <3>1, <3>2 DEF BtPrograms, BtApp, BtBoot, BtMonitor
  <2>2. queue # << >> /\ BtApp = "idle"
    BY <1>3 DEF Bt!TakeEvent, BtApp, BtAt
  <2>3. ~BtResting
    BY <2>2 DEF BtResting
  <2>4. BtBootAlone' /\ BtConnected'
    BY <1>1, <2>1, <2>2, <2>3 DEF BtBootAlone, BtConnected
  <2>5. BtApart'
    BY <1>1, <2>1, <2>2, <2>3 DEF BtApart, BtKnown
  <2> QED
    BY <1>1, <2>1, <2>4, <2>5
<1> QED
  BY <1>2, <1>3

\* While the Bluetooth task handles an event the start-up task has ended, and a
\* monitor that has started AirPlay has done so beside it.
LEMMA BtAppBusy ==
  ASSUME BtInv, BtApp # "idle"
  PROVE  /\ ~BtResting /\ BtBoot = "idle"
         /\ ~btHist.beside /\ ~btHist.lost => BtMonitor \notin {"startRtsp", "started"}
BY DEF BtInv, BtResting, BtBootAlone, BtApart

LEMMA BtAppFlag ==
  ASSUME BtInv, Bt!BtFlag("app")
  PROVE  BtInv'
<1>1. /\ btTodo["app"] # << >> /\ Bt!Done("app")
      /\ Head(btTodo["app"]) \in {"connected", "disconnected", "hide", "announce"}
      /\ UNCHANGED <<phone, queue, writer, player, airplay, btHist>>
      /\ Head(btTodo["app"]) = "connected" => bt' = [bt EXCEPT !.connected = TRUE]
      /\ Head(btTodo["app"]) = "disconnected" => bt' = [bt EXCEPT !.connected = FALSE]
      /\ Head(btTodo["app"]) = "hide" => bt' = [bt EXCEPT !.scan = FALSE]
      /\ Head(btTodo["app"]) = "announce" => bt' = Bt!Announced(TRUE)
  BY DEF Bt!BtFlag, Bt!At
<1>2. /\ BtPrograms' /\ BtFollows(BtApp, BtApp') /\ BtApp = Head(btTodo["app"])
      /\ BtApp # "idle" /\ BtBoot' = BtBoot /\ BtMonitor' = BtMonitor
  BY <1>1, BtAppMoves DEF BtInv
<1>3. /\ BtFields'
      /\ BtApp = "connected" => bt'.connected
      /\ BtApp = "disconnected" => ~bt'.connected
      /\ BtApp \in {"hide", "announce"} => (bt'.connected <=> bt.connected)
  BY <1>1, <1>2 DEF BtInv, BtFields, Bt!Announced, Bt!Discoverable
<1>4. /\ ~BtResting /\ BtBoot = "idle"
      /\ ~btHist.beside /\ ~btHist.lost => BtMonitor \notin {"startRtsp", "started"}
  BY <1>2, BtAppBusy
<1>5. BtPlayer' /\ BtBootAlone'
  BY <1>1, <1>2, <1>4 DEF BtInv, BtPlayer, BtBootAlone
<1>6. BtApp \in {"connected", "disconnected", "hide", "announce"}
  BY <1>1, <1>2
<1>7. BtConnected'
  BY <1>1, <1>2, <1>3, <1>6 DEF BtInv, BtConnected, BtFollows
<1>8. BtApart'
  BY <1>1, <1>2, <1>4, <1>6 DEF BtInv, BtApart, BtKnown, BtFollows
<1> QED
  BY <1>2, <1>3, <1>5, <1>7, <1>8 DEF BtInv

LEMMA BtAppWriter ==
  ASSUME BtInv, Bt!WriterControl("app")
  PROVE  BtInv'
<1>1. /\ btTodo["app"] # << >> /\ Bt!Done("app")
      /\ Head(btTodo["app"]) \in {"startWriter", "stopWriter", "joinWriter", "freeRing"}
      /\ UNCHANGED <<phone, queue, bt, player, airplay, btHist>>
  BY DEF Bt!WriterControl, Bt!At
<1>2. /\ BtPrograms' /\ BtFollows(BtApp, BtApp') /\ BtApp = Head(btTodo["app"])
      /\ BtApp # "idle" /\ BtBoot' = BtBoot /\ BtMonitor' = BtMonitor
  BY <1>1, BtAppMoves DEF BtInv
<1>3. /\ BtFields'
      /\ BtApp # "startWriter" => writer'.task = writer.task
      /\ BtApp = "joinWriter" => writer'.task = "none"
  <2>1. \/ BtApp = "startWriter" /\ writer' = writer
        \/ /\ BtApp = "startWriter"
           /\ writer' = [task |-> "waiting", running |-> TRUE, ring |-> TRUE,
                          sem |-> writer.sem]
        \/ /\ BtApp = "stopWriter"
           /\ writer' = [writer EXCEPT !.running = FALSE, !.sem = @ \/ writer.ring]
        \/ BtApp = "joinWriter" /\ writer.task = "none" /\ writer' = writer
        \/ BtApp = "freeRing" /\ writer' = [writer EXCEPT !.ring = FALSE, !.sem = FALSE]
    BY <1>1, <1>2 DEF Bt!WriterControl, Bt!At
  <2> QED
    BY <1>1, <2>1 DEF BtInv, BtFields
<1>4. /\ ~BtResting /\ BtBoot = "idle"
      /\ ~btHist.beside /\ ~btHist.lost => BtMonitor \notin {"startRtsp", "started"}
  BY <1>2, BtAppBusy
<1>5. BtPlayer' /\ BtBootAlone'
  BY <1>1, <1>2, <1>4 DEF BtInv, BtPlayer, BtBootAlone
<1>6. BtApp \in {"startWriter", "stopWriter", "joinWriter", "freeRing"}
  BY <1>1, <1>2
<1>7. BtConnected'
  BY <1>1, <1>2, <1>3, <1>6 DEF BtInv, BtConnected, BtFollows
<1>8. BtApart'
  BY <1>1, <1>2, <1>3, <1>4, <1>6 DEF BtInv, BtApart, BtKnown, BtFollows
<1> QED
  BY <1>2, <1>3, <1>5, <1>7, <1>8 DEF BtInv

LEMMA BtAppPlayer ==
  ASSUME BtInv, Bt!PlayerControl("app")
  PROVE  BtInv'
<1>1. /\ btTodo["app"] # << >> /\ Bt!Done("app")
      /\ Head(btTodo["app"]) \in {"startPlayer", "stopPlayer", "joinPlayer"}
      /\ UNCHANGED <<phone, queue, bt, writer, airplay>>
  BY DEF Bt!PlayerControl, Bt!At
<1>2. /\ BtPrograms' /\ BtFollows(BtApp, BtApp') /\ BtApp = Head(btTodo["app"])
      /\ BtApp # "idle" /\ BtBoot' = BtBoot /\ BtMonitor' = BtMonitor
  BY <1>1, BtAppMoves DEF BtInv
<1>3. /\ BtFields' /\ BtPlayer'
      /\ BtApp # "startPlayer" => player'.tasks = player.tasks
      /\ BtApp = "joinPlayer" => player'.tasks = 0
      /\ (btHist'.beside <=> btHist.beside) /\ (btHist'.lost <=> btHist.lost)
  <2>1. \/ /\ BtApp = "startPlayer"
           /\ \/ player.handle /\ player' = player
              \/ /\ ~player.handle
                 /\ player' = [tasks |-> player.tasks + 1, running |-> TRUE, handle |-> TRUE]
           /\ btHist' = [btHist EXCEPT !.beside = @ \/ ("app" # "app" /\ Bt!BtActive)]
        \/ /\ BtApp = "stopPlayer" /\ btHist' = btHist
           /\ player' = [player EXCEPT !.running = @ /\ ~player.handle]
        \/ /\ BtApp = "joinPlayer" /\ btHist' = btHist /\ player' = player
           /\ ~player.handle
    BY <1>1, <1>2 DEF Bt!PlayerControl, Bt!At
  <2>2. /\ btHist' = [lost |-> btHist'.lost, beside |-> btHist'.beside,
                     abort |-> btHist'.abort, freed |-> btHist'.freed,
                     dip |-> btHist'.dip]
        /\ (btHist'.beside <=> btHist.beside) /\ (btHist'.lost <=> btHist.lost)
    BY <2>1 DEF BtInv, BtFields
  <2>3. /\ player' = [tasks |-> player'.tasks, running |-> player'.running,
                     handle |-> player'.handle]
        /\ player'.tasks = IF player'.handle THEN 1 ELSE 0
        /\ BtApp # "startPlayer" => player'.tasks = player.tasks
        /\ BtApp = "joinPlayer" => player'.tasks = 0
    BY <2>1 DEF BtInv, BtFields, BtPlayer
  <2> QED
    BY <1>1, <2>2, <2>3 DEF BtInv, BtFields, BtPlayer
<1>4. /\ ~BtResting /\ BtBoot = "idle"
      /\ ~btHist.beside /\ ~btHist.lost => BtMonitor \notin {"startRtsp", "started"}
  BY <1>2, BtAppBusy
<1>5. BtBootAlone'
  BY <1>1, <1>2, <1>4 DEF BtInv, BtBootAlone
<1>6. BtApp \in {"startPlayer", "stopPlayer", "joinPlayer"}
  BY <1>1, <1>2
<1>7. BtConnected'
  BY <1>1, <1>2, <1>3, <1>6 DEF BtInv, BtConnected, BtFollows
<1>8. BtApp = "startPlayer" => writer.task = "none"
  BY DEF BtInv, BtConnected
<1>9. BtApart'
  BY <1>1, <1>2, <1>3, <1>4, <1>6, <1>8 DEF BtInv, BtApart, BtKnown, BtFollows
<1> QED
  BY <1>2, <1>3, <1>5, <1>7, <1>9 DEF BtInv

LEMMA BtAppAirplay ==
  ASSUME BtInv, Bt!AirplayFlag("app") \/ Bt!StartRtsp("app") \/ Bt!StopRtsp("app")
  PROVE  BtInv'
<1>1. /\ btTodo["app"] # << >> /\ Bt!Done("app")
      /\ Head(btTodo["app"]) \in {"infra", "started", "stopped", "sourceBt", "sourceNone",
                                  "startRtsp", "stopRtsp"}
      /\ UNCHANGED <<phone, queue, writer, player>>
  BY DEF Bt!AirplayFlag, Bt!StartRtsp, Bt!StopRtsp, Bt!At, Bt!Source
<1>2. /\ BtPrograms' /\ BtFollows(BtApp, BtApp') /\ BtApp = Head(btTodo["app"])
      /\ BtApp # "idle" /\ BtBoot' = BtBoot /\ BtMonitor' = BtMonitor
  BY <1>1, BtAppMoves DEF BtInv
<1>3. /\ BtFields' /\ (bt'.connected <=> bt.connected)
      /\ BtApp \notin {"started", "stopped"} => (airplay'.started <=> airplay.started)
      /\ BtApp = "started" => airplay'.started
      /\ (btHist'.beside <=> btHist.beside) /\ (btHist'.lost <=> btHist.lost)
  BY <1>1, <1>2 DEF BtInv, BtFields, Bt!AirplayFlag, Bt!StartRtsp, Bt!StopRtsp, Bt!At,
     Bt!Source, Bt!Announced, Bt!Discoverable
<1>4. /\ ~BtResting /\ BtBoot = "idle"
      /\ ~btHist.beside /\ ~btHist.lost => BtMonitor \notin {"startRtsp", "started"}
  BY <1>2, BtAppBusy
<1>5. BtPlayer' /\ BtBootAlone'
  BY <1>1, <1>2, <1>4 DEF BtInv, BtPlayer, BtBootAlone
<1>6. BtApp \in {"infra", "started", "stopped", "sourceBt", "sourceNone", "startRtsp",
                 "stopRtsp"}
  BY <1>1, <1>2
<1>7. BtConnected'
  BY <1>1, <1>2, <1>3, <1>6 DEF BtInv, BtConnected, BtFollows
<1>8. BtApart'
  BY <1>1, <1>2, <1>3, <1>4, <1>6 DEF BtInv, BtApart, BtKnown, BtFollows
<1> QED
  BY <1>2, <1>3, <1>5, <1>7, <1>8 DEF BtInv

LEMMA BtAppCondition ==
  ASSUME BtInv, Bt!Condition("app")
  PROVE  BtInv'
<1> DEFINE p == btTodo["app"]
<1>1. /\ p # << >> /\ p \in BtStarts \cup BtHandlers /\ BtApp = Head(p) /\ BtApp # "idle"
      /\ BtApp \in {"notStarted", "isStarted", "ifNetwork"}
      /\ UNCHANGED <<phone, queue, bt, writer, player, airplay, btHist>>
  BY BtIdle DEF BtInv, BtPrograms, BtApp, BtAt, Bt!Condition, Bt!At
<1>2. /\ ~BtResting /\ BtBoot = "idle"
      /\ ~btHist.beside /\ ~btHist.lost => BtMonitor \notin {"startRtsp", "started"}
  BY <1>1, BtAppBusy
<1>3. /\ BtPrograms' /\ BtBoot' = BtBoot /\ BtMonitor' = BtMonitor
      /\ \/ BtFollows(BtApp, BtApp') /\ (BtApp = "isStarted" => airplay.started)
         \/ BtApp \in {"notStarted", "ifNetwork"} /\ BtApp' = "idle"
         \/ BtApp = "isStarted" /\ ~airplay.started /\ BtApp' = "sourceBt"
  <2>1. CASE Bt!Done("app") /\ (BtApp = "isStarted" => airplay.started)
    BY <1>1, <2>1, BtAppMoves DEF BtInv
  <2> DEFINE q == IF BtApp = "isStarted" THEN <<"sourceBt", "startWriter", "hide">>
                  ELSE << >>
  <2>2. q \in BtStarts \cup BtHandlers
        /\ BtAt(q) = IF BtApp = "isStarted" THEN "sourceBt" ELSE "idle"
    BY DEF BtStarts, BtHandlers, BtAt
  <2>3. CASE /\ btTodo' = [btTodo EXCEPT !["app"] = q]
             /\ BtApp = "isStarted" => ~airplay.started
    <3> HIDE DEF q, BtStarts, BtHandlers
    <3>1. btTodo' = [btTodo EXCEPT !["app"] = q]
      BY <2>3
    <3>2. BtPrograms' /\ BtBoot' = BtBoot /\ BtMonitor' = BtMonitor /\ BtApp' = BtAt(q)
      BY <2>2, <3>1 DEF BtInv, BtPrograms, BtApp, BtBoot, BtMonitor
    <3> QED
      BY <1>1, <2>2, <2>3, <3>2
  <2>4. \/ Bt!Done("app") /\ (BtApp = "isStarted" => airplay.started)
        \/ /\ btTodo' = [btTodo EXCEPT !["app"] = q]
           /\ BtApp = "isStarted" => ~airplay.started
    <3>1. CASE BtApp = "notStarted"
      <4>1. SubSeq(p, 6, Len(p)) = q
        BY <1>1, <3>1, BtSkips
      <4> QED
        BY <1>1, <3>1, <4>1 DEF Bt!Condition, Bt!At, Bt!Skip
    <3>2. CASE BtApp = "ifNetwork"
      <4>1. SubSeq(p, 7, Len(p)) = q
        BY <1>1, <3>2, BtSkips
      <4> QED
        BY <1>1, <3>2, <4>1 DEF Bt!Condition, Bt!At, Bt!Skip
    <3>3. CASE BtApp = "isStarted"
      <4>1. SubSeq(p, 6, Len(p)) = q
        BY <1>1, <3>3, BtSkips
      <4> QED
        BY <1>1, <3>3, <4>1 DEF Bt!Condition, Bt!At, Bt!Skip
    <3> QED
      BY <1>1, <3>1, <3>2, <3>3
  <2> QED
    BY <2>1, <2>3, <2>4
<1>4. BtFields' /\ BtPlayer' /\ BtBootAlone'
  BY <1>1, <1>2, <1>3 DEF BtInv, BtFields, BtPlayer, BtBootAlone
<1>5. BtConnected'
  BY <1>1, <1>3 DEF BtInv, BtConnected, BtFollows
<1>6. BtApart'
  BY <1>1, <1>2, <1>3 DEF BtInv, BtApart, BtKnown, BtFollows
<1> QED
  BY <1>3, <1>4, <1>5, <1>6 DEF BtInv

\* The start-up task and the network monitor start AirPlay, whatever Bluetooth does.
LEMMA BtOthersStart ==
  ASSUME BtInv, NEW t \in {"boot", "monitor"}, Bt!TaskStep(t)
  PROVE  /\ btTodo[t] # << >> /\ BtAt(btTodo[t]) = Head(btTodo[t])
         /\ BtAt(btTodo[t]) \in BtStartSteps
         /\ \/ Bt!PlayerControl(t) /\ BtAt(btTodo[t]) = "startPlayer"
            \/ Bt!Condition(t) /\ BtAt(btTodo[t]) = "notStarted"
            \/ Bt!AirplayFlag(t) /\ BtAt(btTodo[t]) \in {"infra", "started"}
            \/ Bt!StartRtsp(t) /\ BtAt(btTodo[t]) = "startRtsp"
<1>1. btTodo[t] # << >>
  BY DEF Bt!TaskStep, Bt!BtFlag, Bt!WriterControl, Bt!PlayerControl, Bt!Condition,
     Bt!AirplayFlag, Bt!StartRtsp, Bt!StopRtsp, Bt!At
<1>2. BtAt(btTodo[t]) = Head(btTodo[t])
  BY <1>1 DEF BtAt
<1>3. BtAt(btTodo[t]) \in BtStartSteps
  <2>1. btTodo[t] \in BtStarts
    BY DEF BtInv, BtPrograms
  <2> QED
    BY <1>1, <2>1, BtIdle
<1>4. Head(btTodo[t]) \in {"notStarted", "infra", "startPlayer", "startRtsp", "started"}
  BY <1>2, <1>3 DEF BtStartSteps
<1>5. ~Bt!BtFlag(t) /\ ~Bt!WriterControl(t) /\ ~Bt!StopRtsp(t)
  BY <1>4 DEF Bt!BtFlag, Bt!WriterControl, Bt!StopRtsp, Bt!At
<1>6. /\ Bt!PlayerControl(t) => Head(btTodo[t]) = "startPlayer"
      /\ Bt!Condition(t) => Head(btTodo[t]) = "notStarted"
      /\ Bt!AirplayFlag(t) => Head(btTodo[t]) \in {"infra", "started"}
      /\ Bt!StartRtsp(t) => Head(btTodo[t]) = "startRtsp"
  BY <1>4 DEF Bt!PlayerControl, Bt!Condition, Bt!AirplayFlag, Bt!StartRtsp, Bt!At
<1> QED
  BY <1>1, <1>2, <1>3, <1>5, <1>6 DEF Bt!TaskStep

\* What such a step does, whichever of the two takes it.
LEMMA BtOthersDo ==
  ASSUME BtInv, NEW t \in {"boot", "monitor"}, Bt!TaskStep(t)
  PROVE  /\ UNCHANGED <<phone, queue, bt, writer>> /\ BtFields' /\ BtPlayer'
         /\ airplay.started => airplay'.started
         /\ BtAt(btTodo[t]) = "started" => airplay'.started
         /\ BtAt(btTodo[t]) # "startPlayer" => player' = player /\ (btHist'.beside <=> btHist.beside)
         /\ BtAt(btTodo[t]) = "startPlayer" => (~btHist'.beside => ~Bt!BtActive)
         /\ btHist.beside => btHist'.beside
         /\ btHist'.lost <=> btHist.lost
         /\ \/ Bt!Done(t)
            \/ /\ btTodo' = [btTodo EXCEPT ![t] = << >>]
               /\ BtAt(btTodo[t]) = "notStarted"
<1>1. CASE Bt!PlayerControl(t) /\ BtAt(btTodo[t]) = "startPlayer"
  <2>1. /\ \/ player.handle /\ player' = player
           \/ /\ ~player.handle
              /\ player' = [tasks |-> player.tasks + 1, running |-> TRUE, handle |-> TRUE]
        /\ btHist' = [btHist EXCEPT !.beside = @ \/ (t # "app" /\ Bt!BtActive)]
        /\ Bt!Done(t) /\ UNCHANGED <<phone, queue, bt, writer, airplay>>
    <3>1. Head(btTodo[t]) = "startPlayer"
      BY <1>1, BtOthersStart
    <3> QED
      BY <1>1, <3>1 DEF Bt!PlayerControl, Bt!At
  <2>2. /\ btHist' = [lost |-> btHist'.lost, beside |-> btHist'.beside,
                     abort |-> btHist'.abort, freed |-> btHist'.freed,
                     dip |-> btHist'.dip]
        /\ btHist'.beside <=> btHist.beside \/ Bt!BtActive
        /\ btHist'.lost <=> btHist.lost
    BY <2>1 DEF BtInv, BtFields
  <2>3. /\ player' = [tasks |-> player'.tasks, running |-> player'.running,
                     handle |-> player'.handle]
        /\ player'.tasks = IF player'.handle THEN 1 ELSE 0
    BY <2>1 DEF BtInv, BtFields, BtPlayer
  <2> QED
    BY <1>1, <2>1, <2>2, <2>3 DEF BtInv, BtFields, BtPlayer
<1>2. CASE Bt!Condition(t) /\ BtAt(btTodo[t]) = "notStarted"
  <2>1. Head(btTodo[t]) = "notStarted" /\ btTodo[t] # << >> /\ btTodo[t] \in BtStarts \cup BtHandlers
    BY <1>2, BtOthersStart DEF BtInv, BtPrograms
  <2>2. SubSeq(btTodo[t], 6, Len(btTodo[t])) = << >>
    BY <2>1, BtSkips
  <2>3. Bt!Done(t) \/ btTodo' = [btTodo EXCEPT ![t] = << >>]
    <3>1. IF airplay.started THEN Bt!Skip(t, 5) ELSE Bt!Done(t)
      BY <1>2, <2>1 DEF Bt!Condition, Bt!At
    <3>2. Bt!Skip(t, 5) => btTodo' = [btTodo EXCEPT ![t] = SubSeq(btTodo[t], 6, Len(btTodo[t]))]
      BY DEF Bt!Skip
    <3> QED
      BY <2>2, <3>1, <3>2
  <2>4. UNCHANGED <<phone, queue, bt, writer, player, airplay, btHist>>
    BY <1>2 DEF Bt!Condition
  <2> QED
    BY <1>2, <2>3, <2>4 DEF BtInv, BtFields, BtPlayer
<1>3. CASE Bt!AirplayFlag(t) /\ BtAt(btTodo[t]) \in {"infra", "started"}
  <2>1. Head(btTodo[t]) \in {"infra", "started"} /\ BtAt(btTodo[t]) = Head(btTodo[t])
    BY <1>3, BtOthersStart
  <2>2. /\ Bt!Done(t) /\ UNCHANGED <<phone, queue, bt, writer, player, btHist>>
        /\ \/ /\ Head(btTodo[t]) = "infra"
              /\ airplay' = [airplay EXCEPT !.infra = TRUE]
           \/ airplay' = [airplay EXCEPT !.started = TRUE, !.source = "AIRPLAY"]
    BY <1>3, <2>1 DEF Bt!AirplayFlag, Bt!At
  <2> QED
    BY <1>3, <2>1, <2>2 DEF BtInv, BtFields, BtPlayer
<1>4. CASE Bt!StartRtsp(t) /\ BtAt(btTodo[t]) = "startRtsp"
  BY <1>4 DEF BtInv, BtFields, BtPlayer, Bt!StartRtsp
<1> QED
  BY <1>1, <1>2, <1>3, <1>4, BtOthersStart

LEMMA BtBootStep ==
  ASSUME BtInv, Bt!TaskStep("boot")
  PROVE  BtInv'
<1>1. /\ BtBoot \in BtStartSteps
      /\ UNCHANGED <<phone, queue, bt, writer>> /\ BtFields' /\ BtPlayer'
      /\ airplay.started => airplay'.started
      /\ BtBoot = "started" => airplay'.started
      /\ BtBoot # "startPlayer" => player' = player /\ (btHist'.beside <=> btHist.beside)
      /\ btHist.beside => btHist'.beside
      /\ btHist'.lost <=> btHist.lost
      /\ \/ Bt!Done("boot")
         \/ btTodo' = [btTodo EXCEPT !["boot"] = << >>] /\ BtBoot = "notStarted"
  BY BtOthersStart, BtOthersDo DEF BtBoot
<1>2. /\ BtPrograms' /\ BtApp' = BtApp /\ BtMonitor' = BtMonitor
      /\ \/ BtFollows(BtBoot, BtBoot')
         \/ BtBoot = "notStarted" /\ BtBoot' = "idle"
  <2>1. CASE Bt!Done("boot")
    BY <2>1, BtBootMoves, BtOthersStart DEF BtInv
  <2>2. CASE btTodo' = [btTodo EXCEPT !["boot"] = << >>] /\ BtBoot = "notStarted"
    <3>1. << >> \in BtStarts /\ BtAt(<< >>) = "idle"
      BY DEF BtStarts, BtAt
    <3> HIDE DEF BtStarts, BtHandlers
    <3> QED
      BY <2>2, <3>1 DEF BtInv, BtPrograms, BtApp, BtBoot, BtMonitor
  <2> QED
    BY <1>1, <2>1, <2>2
<1>3. BtResting /\ BtResting'
  <2>1. BtBoot # "idle"
    BY <1>1 DEF BtStartSteps
  <2> QED
    BY <1>1, <1>2, <2>1 DEF BtInv, BtBootAlone, BtResting
<1>4. BtBootAlone' /\ BtConnected'
  BY <1>1, <1>2, <1>3 DEF BtInv, BtBootAlone, BtConnected
<1>5. BtApp = "idle" /\ writer.task = "none"
  BY <1>3 DEF BtInv, BtConnected, BtResting
<1>6. BtApart'
  BY <1>1, <1>2, <1>3, <1>5 DEF BtInv, BtApart, BtKnown, BtFollows, BtStartSteps
<1> QED
  BY <1>1, <1>2, <1>4, <1>6 DEF BtInv

LEMMA BtMonitorStep ==
  ASSUME BtInv, Bt!TaskStep("monitor")
  PROVE  BtInv'
<1>1. /\ BtMonitor \in BtStartSteps
      /\ UNCHANGED <<phone, queue, bt, writer>> /\ BtFields' /\ BtPlayer'
      /\ airplay.started => airplay'.started
      /\ BtMonitor = "started" => airplay'.started
      /\ BtMonitor # "startPlayer"
           => player' = player /\ (btHist'.beside <=> btHist.beside)
      /\ BtMonitor = "startPlayer" => (~btHist'.beside => ~Bt!BtActive)
      /\ btHist.beside => btHist'.beside
      /\ btHist'.lost <=> btHist.lost
      /\ \/ Bt!Done("monitor")
         \/ btTodo' = [btTodo EXCEPT !["monitor"] = << >>] /\ BtMonitor = "notStarted"
  BY BtOthersStart, BtOthersDo DEF BtMonitor
<1>2. /\ BtPrograms' /\ BtApp' = BtApp /\ BtBoot' = BtBoot
      /\ \/ BtFollows(BtMonitor, BtMonitor')
         \/ BtMonitor = "notStarted" /\ BtMonitor' = "idle"
  <2>1. CASE Bt!Done("monitor")
    BY <2>1, BtMonitorMoves, BtOthersStart DEF BtInv
  <2>2. CASE btTodo' = [btTodo EXCEPT !["monitor"] = << >>] /\ BtMonitor = "notStarted"
    <3>1. << >> \in BtStarts /\ BtAt(<< >>) = "idle"
      BY DEF BtStarts, BtAt
    <3> HIDE DEF BtStarts, BtHandlers
    <3> QED
      BY <2>2, <3>1 DEF BtInv, BtPrograms, BtApp, BtBoot, BtMonitor
  <2> QED
    BY <1>1, <2>1, <2>2
<1>3. BtBootAlone' /\ BtConnected' /\ (BtResting => BtResting')
  BY <1>1, <1>2 DEF BtInv, BtBootAlone, BtConnected, BtResting
<1>4. ~Bt!BtActive => BtResting /\ writer.task = "none"
  BY DEF BtInv, BtConnected, BtResting, Bt!BtActive, BtApp, BtAt
<1>5. BtApart'
  BY <1>1, <1>2, <1>3, <1>4 DEF BtInv, BtApart, BtKnown, BtFollows, BtStartSteps, BtResting
<1> QED
  BY <1>1, <1>2, <1>3, <1>5 DEF BtInv

\* Two tasks never write to the I2S channel at once (MCSpeaker!OneWriter:
\* bt_a2dp_evt_handler, on_bt_state_changed, audio_output_stop, i2s_task_stop).
\* The connection handler waits for the playback task before it starts the
\* writer; the handler of the end waits for the writer before AirPlay is
\* started again; and only what btHist names starts AirPlay in between.
THEOREM OnlyOneWrites == Spec => []OneWriter
<1>1. Init => BtInv
  <2> SUFFICES ASSUME Init PROVE BtInv
    OBVIOUS
  <2>1. /\ DOMAIN btTodo = {"app", "boot", "monitor"}
        /\ btTodo["app"] = << >> /\ btTodo["monitor"] = << >>
        /\ btTodo["boot"] = Bt!Starting \/ btTodo["boot"] = << >>
    BY DEF Init, Bt!Init, Bt!BtTasks
  <2>2. << >> \in BtStarts /\ BtAt(<< >>) = "idle"
    BY DEF BtStarts, BtAt
  <2>3. BtPrograms /\ BtApp = "idle" /\ BtMonitor = "idle"
    <3> HIDE DEF BtStarts, BtHandlers
    <3> QED
      BY <2>1, <2>2, BtHandlerIs DEF BtPrograms, BtApp, BtMonitor
  <2>4. BtFields /\ BtPlayer /\ BtResting /\ writer.task = "none"
    BY <2>3 DEF Init, Bt!Init, BtFields, BtPlayer, BtResting
  <2>5. player.tasks = 0
    BY DEF Init, Bt!Init
  <2> QED
    BY <2>3, <2>4, <2>5 DEF BtInv, BtBootAlone, BtConnected, BtApart, BtKnown
<1>2. BtInv /\ [Next]_vars => BtInv'
  <2> SUFFICES ASSUME BtInv, [Next]_vars PROVE BtInv'
    OBVIOUS
  <2>1. CASE BtEnvironment
    BY <2>1, BtPhone, BtOutside DEF BtEnvironment, Bt!Environment
  <2>2. CASE BtFirmware
    <3>1. ASSUME NEW t \in Bt!BtTasks, Bt!TaskStep(t) PROVE BtInv'
      <4>1. CASE t = "app"
        BY <3>1, <4>1, BtAppFlag, BtAppWriter, BtAppPlayer, BtAppAirplay, BtAppCondition
           DEF Bt!TaskStep
      <4>2. CASE t = "boot"
        BY <3>1, <4>2, BtBootStep
      <4>3. CASE t = "monitor"
        BY <3>1, <4>3, BtMonitorStep
      <4> QED
        BY <4>1, <4>2, <4>3 DEF Bt!BtTasks
    <3> QED
      BY <2>2, <3>1, BtOutside, BtSound, BtBegin DEF BtFirmware, Bt!Firmware
  <2>3. CASE UNCHANGED btVars
    BY <2>3 DEF btVars, BtInv, BtPrograms, BtFields, BtPlayer, BtBootAlone, BtConnected,
       BtApart, BtKnown, BtResting, BtApp, BtBoot, BtMonitor
  <2> QED
    BY <2>1, <2>2, <2>3 DEF Next, AmpNext, DacNext, GatesNext, vars
<1>3. BtInv => OneWriter
  <2> SUFFICES ASSUME BtInv, writer.task = "writing", player.tasks > 0
               PROVE  btHist.beside \/ btHist.lost
    BY DEF OneWriter, Bt!OneWriter
  <2> QED
    BY DEF BtInv, BtApart
<1> QED
  BY <1>1, <1>2, <1>3, PTL DEF Spec, Steps

-----------------------------------------------------------------------------
(* The boards with an I2C amplifier.  An equaliser change and a PLAYING     *)
(* handler are programs too; the head says where one is, the last call      *)
(* which one it is.                                                         *)
DacEventPrograms ==
  {<< >>, <<"standby">>, <<"off">>, <<"on">>,
   <<"on", "restore", "lock", "program", "unlock">>,
   <<"restore", "lock", "program", "unlock">>,
   <<"lock", "program", "unlock">>, <<"program", "unlock">>, <<"unlock">>}

DacWebPrograms ==
  {<< >>, <<"save", "lock", "program", "unlock">>,
   <<"lock", "program", "unlock">>, <<"program", "unlock">>, <<"unlock">>,
   <<"lock", "program", "unlock", "clear">>, <<"program", "unlock", "clear">>,
   <<"unlock", "clear">>, <<"clear">>,
   <<"lock", "programBand", "unlock", "saveBand">>,
   <<"programBand", "unlock", "saveBand">>, <<"unlock", "saveBand">>, <<"saveBand">>}

DacAt(p) == IF p = << >> THEN "idle" ELSE Head(p)
DacKind(p) == IF p = << >> THEN "none" ELSE p[Len(p)]

EventsAt == DacAt(dacTodo["events"])
EventsKind == DacKind(dacTodo["events"])
WebAt == DacAt(dacTodo["web"])
WebKind == DacKind(dacTodo["web"])

DacPrograms ==
  /\ DOMAIN dacTodo = {"events", "web", "pins"}
  /\ dacTodo["events"] \in DacEventPrograms /\ dacTodo["web"] \in DacWebPrograms

\* Only the board with the TAS5825M has an equaliser, only the other a jack.
DacChip ==
  /\ chip = "tas58xx" \/ chip = "tas57xx"
  /\ chip = "tas57xx" => WebAt = "idle" /\ EventsKind # "unlock"
  /\ chip = "tas58xx" => EventsKind # "on" /\ ~board.jackPin /\ ~board.headphone

DacFields ==
  /\ dac = [state |-> dac.state, mute |-> dac.mute, programmed |-> dac.programmed,
            custom |-> dac.custom, path |-> dac.path, eq |-> dac.eq,
            written |-> dac.written]
  /\ board = [faultPin |-> board.faultPin, jackPin |-> board.jackPin,
              notified |-> board.notified, fault |-> board.fault,
              headphone |-> board.headphone]
  /\ DOMAIN dacLocal = {"events", "web", "pins"}
  /\ \A t \in {"events", "web"} :
       /\ dacLocal[t] = [gains |-> dacLocal[t].gains, band |-> dacLocal[t].band,
                         mute |-> dacLocal[t].mute]
       /\ dacLocal[t].gains \in Dac!Curves

\* What is saved is a curve, and one band of it is changed at a time.
DacCurves ==
  /\ saved # Dac!NoEq => saved \in Dac!Curves
  /\ dac.eq \in Dac!Curves
  /\ WebKind = "saveBand" => dacLocal["web"].band \in Bands

\* The register lock is held by the task between its two calls.
DacLocked ==
  /\ regLock \in {"free", "events", "web"}
  /\ regLock = "web" <=> WebAt \in {"program", "programBand", "unlock"}
  /\ regLock = "events" <=> EventsAt \in {"program", "unlock"}

\* Under the lock the mute bit is the one the equaliser update will restore.
DacMuted ==
  /\ dac.state = "PLAY" /\ regLock = "free" /\ dac.mute
       => board.fault \/ board.headphone
  /\ dac.state = "PLAY" /\ regLock # "free" /\ dacLocal[regLock].mute
       => board.fault \/ board.headphone

DacInv1 == DacPrograms /\ DacChip /\ DacFields /\ DacCurves /\ DacLocked /\ DacMuted

\* No PLAYING handler is between its first call and its last.
DacQuiet == EventsAt \in {"idle", "standby", "off", "unlock"}
\* The equaliser change under way has not reached the chip or the settings.
DacBefore ==
  \/ WebAt \in {"idle", "save"}
  \/ WebKind \in {"clear", "saveBand"} /\ WebAt \in {"lock", "program", "programBand"}

DacWanted == IF saved = Dac!NoEq THEN Dac!Flat ELSE saved

\* What the tasks have read and not yet used.
DacCarried ==
  /\ WebKind = "unlock" /\ WebAt \in {"lock", "program", "unlock"}
       => saved = dacLocal["web"].gains
  /\ WebKind = "clear" => dacLocal["web"].gains = Dac!Flat
  /\ ~eqHist /\ WebAt # "idle" => DacQuiet
  /\ ~eqHist /\ EventsAt \in {"lock", "program"}
       => saved = dacLocal["events"].gains
  /\ EventsAt \in {"restore", "lock", "program"} => dac.state = "PLAY"

\* The chip and the settings agree on the curve while the chip plays, but for
\* the change under way; the chip that is paused may have lost all of it, and
\* with nothing saved it is flat, since nothing will be restored.
DacAgrees ==
  ~eqHist /\ dac.state # "SLEEP" =>
    /\ DacBefore /\ saved = Dac!NoEq => Dac!EqHeard = Dac!Flat
    /\ DacBefore /\ DacQuiet /\ dac.state = "PLAY" => Dac!EqHeard = DacWanted
    /\ WebKind = "unlock" /\ WebAt = "unlock" /\ dac.state = "PLAY" => Dac!EqHeard = saved
    /\ WebKind = "clear" /\ WebAt \in {"unlock", "clear"}
         => Dac!EqHeard = Dac!Flat
    /\ WebKind = "saveBand" /\ WebAt \in {"unlock", "saveBand"} /\ dac.state = "PLAY"
         => Dac!EqHeard = Dac!WithBand(DacWanted, dacLocal["web"])

DacFresh == ~dac.custom => dac.eq = Dac!Flat

DacInv == DacInv1 /\ (chip = "tas58xx" => DacCarried /\ DacAgrees /\ DacFresh)

\* Where a program goes on, and where it can be.
DacEventStep(a, k, b, l) ==
  \/ a = "standby" /\ k = "standby" /\ b = "idle" /\ l = "none"
  \/ a = "off" /\ k = "off" /\ b = "idle" /\ l = "none"
  \/ a = "on" /\ k = "on" /\ b = "idle" /\ l = "none"
  \/ a = "on" /\ k = "unlock" /\ b = "restore" /\ l = "unlock"
  \/ a = "restore" /\ k = "unlock" /\ b = "lock" /\ l = "unlock"
  \/ a = "lock" /\ k = "unlock" /\ b = "program" /\ l = "unlock"
  \/ a = "program" /\ k = "unlock" /\ b = "unlock" /\ l = "unlock"
  \/ a = "unlock" /\ k = "unlock" /\ b = "idle" /\ l = "none"

DacWebStep(a, k, b, l) ==
  \/ a = "save" /\ k = "unlock" /\ b = "lock" /\ l = "unlock"
  \/ a = "lock" /\ k = "unlock" /\ b = "program" /\ l = "unlock"
  \/ a = "program" /\ k = "unlock" /\ b = "unlock" /\ l = "unlock"
  \/ a = "unlock" /\ k = "unlock" /\ b = "idle" /\ l = "none"
  \/ a = "lock" /\ k = "clear" /\ b = "program" /\ l = "clear"
  \/ a = "program" /\ k = "clear" /\ b = "unlock" /\ l = "clear"
  \/ a = "unlock" /\ k = "clear" /\ b = "clear" /\ l = "clear"
  \/ a = "clear" /\ k = "clear" /\ b = "idle" /\ l = "none"
  \/ a = "lock" /\ k = "saveBand" /\ b = "programBand" /\ l = "saveBand"
  \/ a = "programBand" /\ k = "saveBand" /\ b = "unlock" /\ l = "saveBand"
  \/ a = "unlock" /\ k = "saveBand" /\ b = "saveBand" /\ l = "saveBand"
  \/ a = "saveBand" /\ k = "saveBand" /\ b = "idle" /\ l = "none"

LEMMA DacEventsNext ==
  ASSUME NEW p \in DacEventPrograms, p # << >>
  PROVE  /\ Tail(p) \in DacEventPrograms /\ DacEventStep(DacAt(p), DacKind(p), DacAt(Tail(p)), DacKind(Tail(p)))
         /\ Len(p) > 1 <=> DacAt(p) \notin {"standby", "off", "unlock"} /\ DacKind(p) # "on"
<1>1. CASE p = <<"standby">>
  BY <1>1 DEF DacEventPrograms, DacAt, DacKind, DacEventStep
<1>2. CASE p = <<"off">>
  BY <1>2 DEF DacEventPrograms, DacAt, DacKind, DacEventStep
<1>3. CASE p = <<"on">>
  BY <1>3 DEF DacEventPrograms, DacAt, DacKind, DacEventStep
<1>4. CASE p = <<"on", "restore", "lock", "program", "unlock">>
  BY <1>4 DEF DacEventPrograms, DacAt, DacKind, DacEventStep
<1>5. CASE p = <<"restore", "lock", "program", "unlock">>
  BY <1>5 DEF DacEventPrograms, DacAt, DacKind, DacEventStep
<1>6. CASE p = <<"lock", "program", "unlock">>
  BY <1>6 DEF DacEventPrograms, DacAt, DacKind, DacEventStep
<1>7. CASE p = <<"program", "unlock">>
  BY <1>7 DEF DacEventPrograms, DacAt, DacKind, DacEventStep
<1>8. CASE p = <<"unlock">>
  BY <1>8 DEF DacEventPrograms, DacAt, DacKind, DacEventStep
<1> QED
  BY <1>1, <1>2, <1>3, <1>4, <1>5, <1>6, <1>7, <1>8 DEF DacEventPrograms

LEMMA DacWebNext ==
  ASSUME NEW p \in DacWebPrograms, p # << >>
  PROVE  /\ Tail(p) \in DacWebPrograms /\ DacWebStep(DacAt(p), DacKind(p), DacAt(Tail(p)), DacKind(Tail(p)))
<1>1. CASE p = <<"save", "lock", "program", "unlock">>
  BY <1>1 DEF DacWebPrograms, DacAt, DacKind, DacWebStep
<1>2. CASE p = <<"lock", "program", "unlock">>
  BY <1>2 DEF DacWebPrograms, DacAt, DacKind, DacWebStep
<1>3. CASE p = <<"program", "unlock">>
  BY <1>3 DEF DacWebPrograms, DacAt, DacKind, DacWebStep
<1>4. CASE p = <<"unlock">>
  BY <1>4 DEF DacWebPrograms, DacAt, DacKind, DacWebStep
<1>5. CASE p = <<"lock", "program", "unlock", "clear">>
  BY <1>5 DEF DacWebPrograms, DacAt, DacKind, DacWebStep
<1>6. CASE p = <<"program", "unlock", "clear">>
  BY <1>6 DEF DacWebPrograms, DacAt, DacKind, DacWebStep
<1>7. CASE p = <<"unlock", "clear">>
  BY <1>7 DEF DacWebPrograms, DacAt, DacKind, DacWebStep
<1>8. CASE p = <<"clear">>
  BY <1>8 DEF DacWebPrograms, DacAt, DacKind, DacWebStep
<1>9. CASE p = <<"lock", "programBand", "unlock", "saveBand">>
  BY <1>9 DEF DacWebPrograms, DacAt, DacKind, DacWebStep
<1>10. CASE p = <<"programBand", "unlock", "saveBand">>
  BY <1>10 DEF DacWebPrograms, DacAt, DacKind, DacWebStep
<1>11. CASE p = <<"unlock", "saveBand">>
  BY <1>11 DEF DacWebPrograms, DacAt, DacKind, DacWebStep
<1>12. CASE p = <<"saveBand">>
  BY <1>12 DEF DacWebPrograms, DacAt, DacKind, DacWebStep
<1> QED
  BY <1>1, <1>2, <1>3, <1>4, <1>5, <1>6, <1>7, <1>8, <1>9, <1>10, <1>11, <1>12 DEF DacWebPrograms

\* The handlers are these programs.
LEMMA DacHandlers ==
  /\ <<"save">> \o Dac!EqUpdate = <<"save", "lock", "program", "unlock">>
  /\ Dac!EqUpdate \o <<"clear">> = <<"lock", "program", "unlock", "clear">>
  /\ <<"on", "restore">> \o Dac!EqUpdate
       = <<"on", "restore", "lock", "program", "unlock">>
<1> DEFINE update == <<"lock", "program", "unlock">>
           save == <<"save">>
           clear == <<"clear">>
           on == <<"on", "restore">>
           all == <<"save", "lock", "program", "unlock">>
           flat == <<"lock", "program", "unlock", "clear">>
           play == <<"on", "restore", "lock", "program", "unlock">>
           S == {"save", "lock", "program", "unlock", "clear", "on", "restore"}
<1>1. save \o update = all
  <2>1. save \in Seq(S)
    OBVIOUS
  <2>2. update \in Seq(S)
    OBVIOUS
  <2>3. all \in Seq(S)
    OBVIOUS
  <2>4. Len(save) = 1 /\ Len(update) = 3 /\ Len(all) = 1 + 3
    OBVIOUS
  <2>5. \A i \in 1 .. 1 : all[i] = save[i]
    OBVIOUS
  <2>6. \A i \in 1 .. 3 : all[1 + i] = update[i]
    OBVIOUS
  <2> HIDE DEF S, update, save, clear, on, all, flat, play
  <2>7. Len(all) = Len(save) + Len(update)
    BY <2>4
  <2>8. /\ \A i \in 1 .. Len(save) : all[i] = save[i]
        /\ \A i \in 1 .. Len(update) : all[Len(save) + i] = update[i]
    BY <2>4, <2>5, <2>6
  <2> QED
    BY <2>1, <2>2, <2>3, <2>7, <2>8, ConcatIs, Zenon
<1>2. update \o clear = flat
  <2>1. update \in Seq(S)
    OBVIOUS
  <2>2. clear \in Seq(S)
    OBVIOUS
  <2>3. flat \in Seq(S)
    OBVIOUS
  <2>4. Len(update) = 3 /\ Len(clear) = 1 /\ Len(flat) = 3 + 1
    OBVIOUS
  <2>5. \A i \in 1 .. 3 : flat[i] = update[i]
    OBVIOUS
  <2>6. \A i \in 1 .. 1 : flat[3 + i] = clear[i]
    OBVIOUS
  <2> HIDE DEF S, update, save, clear, on, all, flat, play
  <2>7. Len(flat) = Len(update) + Len(clear)
    BY <2>4
  <2>8. /\ \A i \in 1 .. Len(update) : flat[i] = update[i]
        /\ \A i \in 1 .. Len(clear) : flat[Len(update) + i] = clear[i]
    BY <2>4, <2>5, <2>6
  <2> QED
    BY <2>1, <2>2, <2>3, <2>7, <2>8, ConcatIs, Zenon
<1>3. on \o update = play
  <2>1. on \in Seq(S)
    OBVIOUS
  <2>2. update \in Seq(S)
    OBVIOUS
  <2>3. play \in Seq(S)
    OBVIOUS
  <2>4. Len(on) = 2 /\ Len(update) = 3 /\ Len(play) = 2 + 3
    OBVIOUS
  <2>5. \A i \in 1 .. 2 : play[i] = on[i]
    OBVIOUS
  <2>6. \A i \in 1 .. 3 : play[2 + i] = update[i]
    OBVIOUS
  <2> HIDE DEF S, update, save, clear, on, all, flat, play
  <2>7. Len(play) = Len(on) + Len(update)
    BY <2>4
  <2>8. /\ \A i \in 1 .. Len(on) : play[i] = on[i]
        /\ \A i \in 1 .. Len(update) : play[Len(on) + i] = update[i]
    BY <2>4, <2>5, <2>6
  <2> QED
    BY <2>1, <2>2, <2>3, <2>7, <2>8, ConcatIs, Zenon
<1> QED
  BY <1>1, <1>2, <1>3, Zenon DEF Dac!EqUpdate

\* Where the programs can be.
LEMMA DacPlaces ==
  ASSUME DacPrograms
  PROVE  /\ \/ EventsAt = "idle" /\ EventsKind = "none"
            \/ EventsAt \in {"standby", "off", "on"} /\ EventsKind = EventsAt
            \/ /\ EventsAt \in {"on", "restore", "lock", "program", "unlock"}
               /\ EventsKind = "unlock"
         /\ \/ WebAt = "idle" /\ WebKind = "none"
            \/ WebAt \in {"save", "lock", "program", "unlock"} /\ WebKind = "unlock"
            \/ WebAt \in {"lock", "program", "unlock", "clear"} /\ WebKind = "clear"
            \/ WebAt \in {"lock", "programBand", "unlock", "saveBand"} /\ WebKind = "saveBand"
         /\ EventsAt = "idle" <=> dacTodo["events"] = << >>
         /\ WebAt = "idle" <=> dacTodo["web"] = << >>
         /\ dacTodo["events"] # << >> => EventsAt = Head(dacTodo["events"])
         /\ dacTodo["web"] # << >> => WebAt = Head(dacTodo["web"])
<1>1. /\ \/ EventsAt = "idle" /\ EventsKind = "none"
         \/ EventsAt \in {"standby", "off", "on"} /\ EventsKind = EventsAt
         \/ /\ EventsAt \in {"on", "restore", "lock", "program", "unlock"}
            /\ EventsKind = "unlock"
      /\ EventsAt = "idle" <=> dacTodo["events"] = << >>
      /\ dacTodo["events"] # << >> => EventsAt = Head(dacTodo["events"])
  <2>1. CASE dacTodo["events"] = << >>
    BY <2>1 DEF EventsAt, EventsKind, DacAt, DacKind
  <2>2. CASE dacTodo["events"] # << >>
    <3>1. \E b, l : DacEventStep(EventsAt, EventsKind, b, l)
      BY <2>2, DacEventsNext DEF DacPrograms, EventsAt, EventsKind
    <3> QED
      BY <2>2, <3>1 DEF DacEventStep, EventsAt, DacAt
  <2> QED
    BY <2>1, <2>2
<1>2. /\ \/ WebAt = "idle" /\ WebKind = "none"
         \/ WebAt \in {"save", "lock", "program", "unlock"} /\ WebKind = "unlock"
         \/ WebAt \in {"lock", "program", "unlock", "clear"} /\ WebKind = "clear"
         \/ WebAt \in {"lock", "programBand", "unlock", "saveBand"} /\ WebKind = "saveBand"
      /\ WebAt = "idle" <=> dacTodo["web"] = << >>
      /\ dacTodo["web"] # << >> => WebAt = Head(dacTodo["web"])
  <2>1. CASE dacTodo["web"] = << >>
    BY <2>1 DEF WebAt, WebKind, DacAt, DacKind
  <2>2. CASE dacTodo["web"] # << >>
    <3>1. \E b, l : DacWebStep(WebAt, WebKind, b, l)
      BY <2>2, DacWebNext DEF DacPrograms, WebAt, WebKind
    <3> QED
      BY <2>2, <3>1 DEF DacWebStep, WebAt, DacAt
  <2> QED
    BY <2>1, <2>2
<1> QED
  BY <1>1, <1>2

LEMMA DacEventsMove ==
  ASSUME DacPrograms, dacTodo["events"] # << >>, Dac!Returns("events")
  PROVE  /\ DacPrograms' /\ WebAt' = WebAt /\ WebKind' = WebKind
         /\ DacEventStep(EventsAt, EventsKind, EventsAt', EventsKind')
<1> DEFINE p == dacTodo["events"]
<1>1. p \in DacEventPrograms /\ p # << >>
  BY DEF DacPrograms
<1>2. dacTodo' = [dacTodo EXCEPT !["events"] = Tail(p)]
  BY DEF Dac!Returns
<1> HIDE DEF p, DacEventPrograms, DacWebPrograms
<1>3. /\ Tail(p) \in DacEventPrograms
      /\ DacEventStep(DacAt(p), DacKind(p), DacAt(Tail(p)), DacKind(Tail(p)))
  BY <1>1, DacEventsNext
<1>4. dacTodo'["events"] = Tail(p) /\ dacTodo'["web"] = dacTodo["web"] /\ DacPrograms'
  BY <1>2, <1>3 DEF DacPrograms
<1> QED
  BY <1>3, <1>4 DEF EventsAt, EventsKind, WebAt, WebKind, p

LEMMA DacWebMove ==
  ASSUME DacPrograms, dacTodo["web"] # << >>, Dac!Returns("web")
  PROVE  /\ DacPrograms' /\ EventsAt' = EventsAt /\ EventsKind' = EventsKind
         /\ DacWebStep(WebAt, WebKind, WebAt', WebKind')
<1> DEFINE p == dacTodo["web"]
<1>1. p \in DacWebPrograms /\ p # << >>
  BY DEF DacPrograms
<1>2. dacTodo' = [dacTodo EXCEPT !["web"] = Tail(p)]
  BY DEF Dac!Returns
<1> HIDE DEF p, DacEventPrograms, DacWebPrograms
<1>3. /\ Tail(p) \in DacWebPrograms
      /\ DacWebStep(DacAt(p), DacKind(p), DacAt(Tail(p)), DacKind(Tail(p)))
  BY <1>1, DacWebNext
<1>4. dacTodo'["web"] = Tail(p) /\ dacTodo'["events"] = dacTodo["events"] /\ DacPrograms'
  BY <1>2, <1>3 DEF DacPrograms
<1> QED
  BY <1>3, <1>4 DEF EventsAt, EventsKind, WebAt, WebKind, p

\* A curve is not the absence of one.
LEMMA CurvesSaved == Dac!Flat \in Dac!Curves /\ \A c \in Dac!Curves : c # Dac!NoEq
<1>1. Dac!Flat \in Dac!Curves
  BY SpeakerAssumption DEF Dac!Flat, Dac!Curves
<1>2. \A c \in Dac!Curves : DOMAIN c = Bands /\ Bands # {}
  BY SpeakerAssumption DEF Dac!Curves
<1>3. DOMAIN Dac!NoEq = {}
  BY DEF Dac!NoEq
<1> QED
  BY <1>1, <1>2, <1>3

LEMMA DacPlayback ==
  ASSUME DacInv, NEW event \in Dac!PlaybackEvents, Dac!RtspEvent(event)
  PROVE  DacInv'
<1> DEFINE p == CASE event \in {"CLIENT_CONNECTED", "PAUSED"} -> <<"standby">>
                  [] event = "DISCONNECTED" -> <<"off">>
                  [] event = "PLAYING" ->
                       IF chip = "tas58xx"
                         THEN <<"on", "restore", "lock", "program", "unlock">> ELSE <<"on">>
<1>1. /\ dacTodo["events"] = << >> /\ dacTodo' = [dacTodo EXCEPT !["events"] = p]
      /\ UNCHANGED <<chip, dac, regLock, saved, board, dacLocal>>
      /\ eqHist' <=> eqHist \/ (event = "PLAYING" /\ dacTodo["web"] # << >>)
  BY DacHandlers DEF Dac!RtspEvent, Dac!DacIdle, Dac!Calls
<1>2. /\ p \in DacEventPrograms
      /\ DacAt(p) \in {"standby", "off", "on"}
      /\ DacKind(p) = IF DacAt(p) = "on" /\ chip = "tas58xx" THEN "unlock" ELSE DacAt(p)
      /\ event # "PLAYING" => DacAt(p) # "on"
  BY DEF Dac!PlaybackEvents, DacEventPrograms, DacAt, DacKind
<1> HIDE DEF p
<1>3. /\ DacPrograms' /\ WebAt' = WebAt /\ WebKind' = WebKind
      /\ EventsAt' = DacAt(p) /\ EventsKind' = DacKind(p)
  <2> HIDE DEF DacEventPrograms, DacWebPrograms
  <2> QED
    BY <1>1, <1>2 DEF DacInv, DacInv1, DacPrograms, EventsAt, EventsKind, WebAt, WebKind
<1>4. EventsAt = "idle" /\ (WebAt = "idle" <=> dacTodo["web"] = << >>)
  BY <1>1, DacPlaces DEF DacInv, DacInv1
<1>5. DacChip' /\ DacFields' /\ DacCurves'
  BY <1>1, <1>2, <1>3 DEF DacInv, DacInv1, DacChip, DacFields, DacCurves
<1>6. DacLocked' /\ DacMuted'
  BY <1>1, <1>2, <1>3, <1>4 DEF DacInv, DacInv1, DacLocked, DacMuted
<1>7. chip = "tas58xx" => DacCarried' /\ DacFresh'
  BY <1>1, <1>2, <1>3, <1>4 DEF DacInv, DacCarried, DacFresh, DacQuiet
<1>8. chip = "tas58xx" => DacAgrees'
  <2>1. DacBefore' = DacBefore /\ Dac!EqHeard' = Dac!EqHeard /\ DacWanted' = DacWanted
        /\ DacQuiet
    BY <1>1, <1>3, <1>4 DEF DacBefore, Dac!EqHeard, DacWanted, DacQuiet
  <2> QED
    BY <1>1, <1>3, <2>1 DEF DacInv, DacAgrees
<1> QED
  BY <1>1, <1>3, <1>5, <1>6, <1>7, <1>8 DEF DacInv, DacInv1

\* An equaliser change begins: every band, a reset, or one band.
LEMMA DacChange ==
  ASSUME DacInv, NEW p, NEW gains, NEW band, Dac!EqEvent(p, gains, band),
         gains \in Dac!Curves, p \in DacWebPrograms,
         \/ DacAt(p) = "save" /\ DacKind(p) = "unlock"
         \/ DacAt(p) = "lock" /\ DacKind(p) = "clear" /\ gains = Dac!Flat
         \/ DacAt(p) = "lock" /\ DacKind(p) = "saveBand" /\ band \in Bands
  PROVE  DacInv'
<1>1. /\ chip = "tas58xx" /\ dacTodo["web"] = << >>
      /\ dacTodo' = [dacTodo EXCEPT !["web"] = p]
      /\ dacLocal' = [dacLocal EXCEPT !["web"].gains = gains, !["web"].band = band]
      /\ UNCHANGED <<chip, dac, regLock, saved, board>>
      /\ eqHist' <=> eqHist \/ Len(dacTodo["events"]) > 1
  BY DEF Dac!EqEvent, Dac!DacIdle, Dac!Calls, Dac!Read
<1>2. /\ DacPrograms' /\ EventsAt' = EventsAt /\ EventsKind' = EventsKind
      /\ WebAt' = DacAt(p) /\ WebKind' = DacKind(p)
  <2> HIDE DEF DacEventPrograms, DacWebPrograms
  <2> QED
    BY <1>1 DEF DacInv, DacInv1, DacPrograms, EventsAt, EventsKind, WebAt, WebKind
<1>3. WebAt = "idle" /\ WebKind = "none" /\ DacChip /\ DacLocked
  BY <1>1, DacPlaces DEF DacInv, DacInv1
<1>4. ~eqHist' => ~eqHist /\ DacQuiet
  <2>1. CASE dacTodo["events"] = << >>
    BY <1>1, <2>1, DacPlaces DEF DacInv, DacInv1, DacQuiet
  <2>2. CASE dacTodo["events"] # << >>
    <3>1. Len(dacTodo["events"]) > 1
            <=> EventsAt \notin {"standby", "off", "unlock"} /\ EventsKind # "on"
      BY <2>2, DacEventsNext DEF DacInv, DacInv1, DacPrograms, EventsAt, EventsKind
    <3> QED
      BY <1>1, <1>3, <3>1 DEF DacQuiet, DacChip
  <2> QED
    BY <2>1, <2>2
<1>5. /\ DOMAIN dacLocal' = DOMAIN dacLocal
      /\ dacLocal'["web"].gains = gains /\ dacLocal'["web"].band = band
      /\ dacLocal'["web"].mute = dacLocal["web"].mute
      /\ dacLocal'["web"] = [gains |-> gains, band |-> band, mute |-> dacLocal["web"].mute]
      /\ dacLocal'["events"] = dacLocal["events"]
  BY <1>1 DEF DacInv, DacInv1, DacFields
<1>6. DacChip' /\ DacFields' /\ DacCurves'
  BY <1>1, <1>2, <1>3, <1>5 DEF DacInv, DacInv1, DacChip, DacFields, DacCurves
<1>7. DacLocked' /\ DacMuted'
  BY <1>1, <1>2, <1>3, <1>5 DEF DacInv, DacInv1, DacLocked, DacMuted
<1>8. DacCarried' /\ DacFresh'
  BY <1>1, <1>2, <1>4, <1>5 DEF DacInv, DacCarried, DacFresh, DacQuiet
<1>9. DacAgrees'
  <2>1. /\ DacBefore /\ Dac!EqHeard' = Dac!EqHeard /\ DacWanted' = DacWanted
        /\ DacQuiet' = DacQuiet
    BY <1>1, <1>2, <1>3 DEF DacBefore, Dac!EqHeard, DacWanted, DacQuiet
  <2> QED
    BY <1>1, <1>2, <1>4, <2>1 DEF DacInv, DacAgrees
<1> QED
  BY <1>1, <1>2, <1>6, <1>7, <1>8, <1>9 DEF DacInv, DacInv1

LEMMA DacChanges ==
  ASSUME DacInv, Dac!EqAllBands \/ Dac!EqFlat \/ Dac!EqBand
  PROVE  DacInv'
<1>1. CASE Dac!EqAllBands
  <2>1. PICK g \in Dac!Curves : Dac!EqEvent(<<"save">> \o Dac!EqUpdate, g, Dac!NoBand)
    BY <1>1 DEF Dac!EqAllBands
  <2> DEFINE p == <<"save", "lock", "program", "unlock">>
  <2>2. p \in DacWebPrograms /\ DacAt(p) = "save" /\ DacKind(p) = "unlock"
    BY DEF DacWebPrograms, DacAt, DacKind
  <2>3. Dac!EqEvent(p, g, Dac!NoBand)
    BY <2>1, DacHandlers
  <2> HIDE DEF p
  <2> QED
    BY <2>2, <2>3, DacChange
<1>2. CASE Dac!EqFlat
  <2> DEFINE p == <<"lock", "program", "unlock", "clear">>
  <2>1. p \in DacWebPrograms /\ DacAt(p) = "lock" /\ DacKind(p) = "clear"
    BY DEF DacWebPrograms, DacAt, DacKind
  <2>2. Dac!EqEvent(p, Dac!Flat, Dac!NoBand)
    BY <1>2, DacHandlers DEF Dac!EqFlat
  <2> HIDE DEF p
  <2> QED
    BY <2>1, <2>2, CurvesSaved, DacChange
<1>3. CASE Dac!EqBand
  <2> DEFINE p == <<"lock", "programBand", "unlock", "saveBand">>
  <2>1. PICK b \in Bands, g \in Gains : Dac!EqEvent(p, [Dac!Flat EXCEPT ![b] = g], b)
    BY <1>3 DEF Dac!EqBand
  <2>2. p \in DacWebPrograms /\ DacAt(p) = "lock" /\ DacKind(p) = "saveBand"
    BY DEF DacWebPrograms, DacAt, DacKind
  <2>3. [Dac!Flat EXCEPT ![b] = g] \in Dac!Curves
    BY CurvesSaved DEF Dac!Curves
  <2> HIDE DEF p
  <2> QED
    BY <2>1, <2>2, <2>3, DacChange
<1> QED
  BY <1>1, <1>2, <1>3

\* A change of the chip's state, which the events task makes.
LEMMA DacPower ==
  ASSUME DacInv, NEW mode \in {"on", "standby", "off"}, Dac!SetPowerMode(mode)
  PROVE  DacInv'
<1>1. /\ dacTodo["events"] # << >> /\ Head(dacTodo["events"]) = mode /\ regLock = "free"
      /\ Dac!Returns("events") /\ dac' = Dac!Powered(mode)
      /\ UNCHANGED <<chip, regLock, saved, board, dacLocal>>
      /\ eqHist' <=> eqHist /\ ~(mode = "off" /\ dacTodo["web"] = << >>)
  BY DEF Dac!SetPowerMode, Dac!DacIdle
<1>2. /\ DacPrograms' /\ WebAt' = WebAt /\ WebKind' = WebKind /\ EventsAt = mode
      /\ DacEventStep(EventsAt, EventsKind, EventsAt', EventsKind')
      /\ WebAt = "idle" <=> dacTodo["web"] = << >>
  BY <1>1, DacEventsMove, DacPlaces DEF DacInv, DacInv1
<1>3. /\ \/ chip = "tas58xx" /\ EventsKind' # "on"
         \/ chip = "tas57xx" /\ EventsKind' # "unlock"
      /\ EventsAt' \in {"idle", "restore"}
      /\ EventsAt' = "restore" => mode = "on" /\ chip = "tas58xx"
      /\ mode = "on" /\ chip = "tas58xx" => EventsAt' = "restore"
  BY <1>2 DEF DacInv, DacInv1, DacChip, DacEventStep
<1>4. /\ dac' = [state |-> dac'.state, mute |-> dac'.mute, programmed |-> dac'.programmed,
               custom |-> dac'.custom, path |-> dac'.path, eq |-> dac'.eq,
               written |-> dac'.written]
      /\ dac'.state = CASE mode = "on" -> "PLAY" [] mode = "standby" -> "HIZ"
                        [] mode = "off" -> "SLEEP"
      /\ mode = "on" => ~dac'.mute
      /\ \/ dac'.eq = dac.eq /\ (dac'.custom <=> dac.custom)
         \/ dac.state = "SLEEP" /\ dac'.eq = Dac!Flat /\ ~dac'.custom
      /\ dac.state = "SLEEP" /\ mode # "off" => dac'.eq = Dac!Flat /\ ~dac'.custom
  BY <1>1 DEF DacInv, DacInv1, DacFields, Dac!Powered, Dac!PowerOn58, Dac!PowerOn57,
     Dac!Standby57, Dac!Woken
<1>5. DacChip' /\ DacFields' /\ DacCurves'
  BY <1>1, <1>2, <1>3, <1>4, CurvesSaved DEF DacInv, DacInv1, DacChip, DacFields, DacCurves
<1>6. DacLocked'
  BY <1>1, <1>2, <1>3 DEF DacInv, DacInv1, DacLocked
<1>7. DacMuted'
  BY <1>1, <1>2, <1>4 DEF DacMuted
<1>8. chip = "tas58xx" => DacCarried'
  BY <1>1, <1>2, <1>3, <1>4 DEF DacInv, DacCarried, DacQuiet
<1>9. chip = "tas58xx" => DacFresh'
  BY <1>4 DEF DacInv, DacFresh
<1>10. ASSUME chip = "tas58xx" PROVE DacAgrees'
  <2> SUFFICES ASSUME ~eqHist', dac'.state # "SLEEP" PROVE DacAgrees'
    BY DEF DacAgrees
  <2>1. mode # "off" /\ ~eqHist
    BY <1>1, <1>4
  <2>2. /\ DacBefore' = DacBefore /\ DacWanted' = DacWanted
        /\ DacBefore /\ saved = Dac!NoEq /\ dac.state # "SLEEP" => Dac!EqHeard = Dac!Flat
        /\ dac.state # "SLEEP" => Dac!EqHeard' = Dac!EqHeard
        /\ dac.state = "SLEEP" => Dac!EqHeard' = Dac!Flat
    BY <1>1, <1>2, <1>4, <1>10, <2>1 DEF DacInv, DacAgrees, DacBefore, DacWanted, Dac!EqHeard
  <2>3. mode = "on" => WebAt = "idle"
    BY <1>2, <1>10, <2>1 DEF DacInv, DacCarried, DacQuiet
  <2>4. mode = "on" => ~DacQuiet'
    BY <1>3, <1>10 DEF DacQuiet
  <2>5. mode = "standby" => dac'.state = "HIZ"
    BY <1>4
  <2>6. WebKind = "clear" /\ WebAt \in {"unlock", "clear"} /\ dac.state # "SLEEP"
          => Dac!EqHeard = Dac!Flat
    BY <1>10, <2>1 DEF DacInv, DacAgrees
  <2> QED
    BY <1>1, <1>2, <2>1, <2>2, <2>3, <2>4, <2>5, <2>6 DEF DacAgrees
<1> QED
  BY <1>1, <1>2, <1>5, <1>6, <1>7, <1>8, <1>9, <1>10 DEF DacInv, DacInv1

\* The PLAYING handler reads the settings.
LEMMA DacRestore ==
  ASSUME DacInv, Dac!RestoreEq
  PROVE  DacInv'
<1>1. /\ dacTodo["events"] # << >> /\ Head(dacTodo["events"]) = "restore"
      /\ UNCHANGED <<chip, dac, regLock, saved, board, eqHist>>
      /\ saved = Dac!NoEq => /\ dacTodo' = [dacTodo EXCEPT !["events"] = << >>]
                             /\ UNCHANGED dacLocal
      /\ saved # Dac!NoEq =>
           /\ Dac!Returns("events")
           /\ dacLocal' = [dacLocal EXCEPT !["events"].gains = saved,
                                           !["events"].band = Dac!NoBand]
  BY DEF Dac!RestoreEq, Dac!Doing, Dac!Calls, Dac!Read
<1>2. EventsAt = "restore" /\ EventsKind = "unlock"
  BY <1>1, DacPlaces DEF DacInv, DacInv1
<1>3. /\ DacPrograms' /\ WebAt' = WebAt /\ WebKind' = WebKind
      /\ saved # Dac!NoEq => EventsAt' = "lock" /\ EventsKind' = "unlock"
      /\ saved = Dac!NoEq => EventsAt' = "idle" /\ EventsKind' = "none"
  <2>1. CASE saved = Dac!NoEq
    <3>1. << >> \in DacEventPrograms /\ DacAt(<< >>) = "idle" /\ DacKind(<< >>) = "none"
      BY DEF DacEventPrograms, DacAt, DacKind
    <3> HIDE DEF DacEventPrograms, DacWebPrograms
    <3> QED
      BY <1>1, <2>1, <3>1 DEF DacInv, DacInv1, DacPrograms, EventsAt, EventsKind, WebAt, WebKind
  <2>2. CASE saved # Dac!NoEq
    BY <1>1, <1>2, <2>2, DacEventsMove DEF DacInv, DacInv1, DacEventStep
  <2> QED
    BY <2>1, <2>2
<1>4. /\ DOMAIN dacLocal' = DOMAIN dacLocal /\ dacLocal'["web"] = dacLocal["web"]
      /\ dacLocal'["events"] = [gains |-> dacLocal'["events"].gains,
                                band |-> dacLocal'["events"].band,
                                mute |-> dacLocal'["events"].mute]
      /\ dacLocal'["events"].gains \in Dac!Curves
      /\ saved # Dac!NoEq => dacLocal'["events"].gains = saved
      /\ dacLocal'["events"].mute = dacLocal["events"].mute
  BY <1>1 DEF DacInv, DacInv1, DacFields, DacCurves
<1>5. DacChip' /\ DacFields' /\ DacCurves'
  BY <1>1, <1>2, <1>3, <1>4 DEF DacInv, DacInv1, DacChip, DacFields, DacCurves
<1>6. DacLocked' /\ DacMuted'
  BY <1>1, <1>2, <1>3, <1>4 DEF DacInv, DacInv1, DacLocked, DacMuted
<1>7. chip = "tas58xx" => DacCarried' /\ DacFresh'
  BY <1>1, <1>2, <1>3, <1>4 DEF DacInv, DacCarried, DacFresh, DacQuiet
<1>8. ASSUME chip = "tas58xx" PROVE DacAgrees'
  <2>1. DacBefore' = DacBefore /\ Dac!EqHeard' = Dac!EqHeard /\ DacWanted' = DacWanted
    BY <1>1, <1>3 DEF DacBefore, Dac!EqHeard, DacWanted
  <2>2. ~eqHist => WebAt = "idle"
    BY <1>2, <1>8 DEF DacInv, DacCarried, DacQuiet
  <2>3. saved # Dac!NoEq => ~DacQuiet'
    BY <1>3 DEF DacQuiet
  <2>4. saved = Dac!NoEq => DacWanted = Dac!Flat
    BY DEF DacWanted, Dac!NoEq
  <2> QED
    BY <1>1, <1>3, <1>8, <2>1, <2>2, <2>3, <2>4 DEF DacInv, DacAgrees
<1> QED
  BY <1>1, <1>3, <1>5, <1>6, <1>7, <1>8 DEF DacInv, DacInv1

\* The three calls of an equaliser update, by the PLAYING handler ...
LEMMA DacEventsUpdate ==
  ASSUME DacInv, Dac!EqLock("events") \/ Dac!EqProgram("events") \/ Dac!EqUnlock("events")
  PROVE  DacInv'
<1>1. /\ dacTodo["events"] # << >> /\ Dac!Returns("events")
      /\ Head(dacTodo["events"]) \in {"lock", "program", "programBand", "unlock"}
      /\ UNCHANGED <<chip, saved, board, eqHist>>
      /\ Head(dacTodo["events"]) = "lock" =>
           /\ regLock = "free" /\ regLock' = "events"
           /\ dacLocal' = [dacLocal EXCEPT !["events"].mute = dac.mute]
           /\ dac' = [dac EXCEPT !.mute = TRUE]
      /\ Head(dacTodo["events"]) = "program" =>
           /\ UNCHANGED <<regLock, dacLocal>>
           /\ dac' = Dac!Programmed(dacLocal["events"].gains)
      /\ Head(dacTodo["events"]) = "unlock" =>
           /\ regLock' = "free" /\ UNCHANGED dacLocal
           /\ dac' = [dac EXCEPT !.mute = dacLocal["events"].mute]
  BY DEF Dac!EqLock, Dac!EqProgram, Dac!EqUnlock, Dac!Doing, Dac!LockFree
<1>2. /\ DacPrograms' /\ WebAt' = WebAt /\ WebKind' = WebKind
      /\ EventsAt = Head(dacTodo["events"]) /\ EventsKind = "unlock"
      /\ EventsAt \in {"lock", "program", "unlock"}
      /\ EventsAt = "lock" => EventsAt' = "program" /\ EventsKind' = "unlock"
      /\ EventsAt = "program" => EventsAt' = "unlock" /\ EventsKind' = "unlock"
      /\ EventsAt = "unlock" => EventsAt' = "idle" /\ EventsKind' = "none"
  BY <1>1, DacEventsMove, DacPlaces DEF DacInv, DacInv1, DacEventStep
<1>3. chip = "tas58xx"
  BY <1>2 DEF DacInv, DacInv1, DacChip
<1>4. /\ dac' = [state |-> dac'.state, mute |-> dac'.mute, programmed |-> dac'.programmed,
               custom |-> dac'.custom, path |-> dac'.path, eq |-> dac'.eq,
               written |-> dac'.written]
      /\ dac'.state = dac.state /\ dac'.eq \in Dac!Curves
      /\ EventsAt # "program" => dac'.eq = dac.eq /\ (dac'.custom <=> dac.custom)
      /\ EventsAt = "program" => \/ dac.state = "SLEEP" /\ dac'.eq = dac.eq /\ (dac'.custom <=> dac.custom)
                                 \/ dac'.eq = dacLocal["events"].gains /\ dac'.custom
      /\ EventsAt = "unlock" => (dac'.mute <=> dacLocal["events"].mute)
  BY <1>1, <1>2 DEF DacInv, DacInv1, DacFields, DacCurves, Dac!Programmed, Dac!Custom
<1>5. /\ DOMAIN dacLocal' = DOMAIN dacLocal /\ dacLocal'["web"] = dacLocal["web"]
      /\ dacLocal'["events"] = [gains |-> dacLocal'["events"].gains,
                                band |-> dacLocal'["events"].band,
                                mute |-> dacLocal'["events"].mute]
      /\ dacLocal'["events"].gains = dacLocal["events"].gains
      /\ EventsAt = "lock" => (dacLocal'["events"].mute <=> dac.mute)
      /\ EventsAt # "lock" => (dacLocal'["events"].mute <=> dacLocal["events"].mute)
  BY <1>1, <1>2 DEF DacInv, DacInv1, DacFields
<1>6. DacChip' /\ DacFields' /\ DacCurves'
  BY <1>1, <1>2, <1>4, <1>5 DEF DacInv, DacInv1, DacChip, DacFields, DacCurves
<1>7. /\ EventsAt = "lock" => regLock = "free" /\ regLock' = "events"
      /\ EventsAt = "program" => regLock = "events" /\ regLock' = "events"
      /\ EventsAt = "unlock" => regLock = "events" /\ regLock' = "free"
  BY <1>1, <1>2 DEF DacInv, DacInv1, DacLocked
<1>8. DacLocked'
  BY <1>1, <1>2, <1>7 DEF DacInv, DacInv1, DacLocked
<1>9. DacMuted'
  BY <1>1, <1>2, <1>4, <1>5, <1>7 DEF DacInv, DacInv1, DacMuted
<1>10. DacCarried' /\ DacFresh'
  BY <1>1, <1>2, <1>3, <1>4, <1>5 DEF DacInv, DacCarried, DacFresh, DacQuiet
<1>11. DacAgrees'
  <2> SUFFICES ASSUME ~eqHist, dac.state # "SLEEP" PROVE DacAgrees'
    BY <1>1, <1>4 DEF DacAgrees
  <2>1. DacBefore' = DacBefore /\ DacWanted' = DacWanted
    BY <1>1, <1>2 DEF DacBefore, DacWanted
  <2>2. CASE EventsAt = "unlock"
    <3>1. Dac!EqHeard' = Dac!EqHeard /\ DacQuiet
      BY <1>2, <1>4, <2>2 DEF Dac!EqHeard, DacQuiet
    <3> QED
      BY <1>1, <1>2, <1>3, <1>4, <1>5, <2>1, <3>1 DEF DacInv, DacAgrees
  <2>3. CASE EventsAt = "lock"
    <3>1. Dac!EqHeard' = Dac!EqHeard /\ ~DacQuiet'
      BY <1>2, <1>4, <2>3 DEF Dac!EqHeard, DacQuiet
    <3> QED
      BY <1>1, <1>2, <1>3, <1>4, <1>5, <2>1, <3>1 DEF DacInv, DacAgrees
  <2>4. CASE EventsAt = "program"
    <3>1. WebAt = "idle" /\ WebKind = "none" /\ saved = dacLocal["events"].gains
      BY <1>3, <2>4, DacPlaces DEF DacInv, DacInv1, DacCarried, DacQuiet
    <3>2. saved # Dac!NoEq
      BY <3>1, CurvesSaved DEF DacInv, DacInv1, DacFields
    <3>3. Dac!EqHeard' = saved /\ DacWanted' = saved
      BY <1>1, <1>4, <2>4, <3>1, <3>2 DEF Dac!EqHeard, DacWanted, Dac!NoEq
    <3> QED
      BY <1>1, <1>2, <3>1, <3>2, <3>3 DEF DacAgrees
  <2> QED
    BY <1>2, <2>2, <2>3, <2>4
<1> QED
  BY <1>1, <1>2, <1>6, <1>8, <1>9, <1>10, <1>11 DEF DacInv, DacInv1

\* ... and by an equaliser change, for every band or for one.
LEMMA DacWebUpdate ==
  ASSUME DacInv, Dac!EqLock("web") \/ Dac!EqProgram("web") \/ Dac!EqUnlock("web")
  PROVE  DacInv'
<1> DEFINE l == dacLocal["web"]
           custom == IF dac.custom THEN dac.eq ELSE Dac!Flat
<1>1. /\ dacTodo["web"] # << >> /\ Dac!Returns("web")
      /\ Head(dacTodo["web"]) \in {"lock", "program", "programBand", "unlock"}
      /\ UNCHANGED <<chip, saved, board, eqHist>>
      /\ Head(dacTodo["web"]) = "lock" =>
           /\ regLock = "free" /\ regLock' = "web"
           /\ dacLocal' = [dacLocal EXCEPT !["web"].mute = dac.mute]
           /\ dac' = [dac EXCEPT !.mute = TRUE]
      /\ Head(dacTodo["web"]) = "program" =>
           UNCHANGED <<regLock, dacLocal>> /\ dac' = Dac!Programmed(l.gains)
      /\ Head(dacTodo["web"]) = "programBand" =>
           /\ UNCHANGED <<regLock, dacLocal>>
           /\ dac' = Dac!Programmed(Dac!WithBand(Dac!Custom.eq, l))
      /\ Head(dacTodo["web"]) = "unlock" =>
           regLock' = "free" /\ UNCHANGED dacLocal /\ dac' = [dac EXCEPT !.mute = l.mute]
  BY DEF Dac!EqLock, Dac!EqProgram, Dac!EqUnlock, Dac!Doing, Dac!LockFree
<1>2. /\ DacPrograms' /\ EventsAt' = EventsAt /\ EventsKind' = EventsKind
      /\ WebAt = Head(dacTodo["web"])
      /\ WebAt \in {"lock", "program", "programBand", "unlock"}
      /\ DacWebStep(WebAt, WebKind, WebAt', WebKind')
  BY <1>1, DacWebMove, DacPlaces DEF DacInv, DacInv1
<1>3. chip = "tas58xx"
  BY <1>2 DEF DacInv, DacInv1, DacChip
<1>4. Dac!Custom.eq = custom
  BY <1>3 DEF DacInv, DacInv1, DacFields, DacFresh, Dac!Custom
<1>5. Dac!WithBand(custom, l) \in Dac!Curves \/ WebAt # "programBand"
  <2>1. custom \in Dac!Curves /\ l.gains \in Dac!Curves
    BY CurvesSaved DEF DacInv, DacInv1, DacFields, DacCurves
  <2>2. WebAt = "programBand" => l.band \in Bands
    BY <1>2 DEF DacInv, DacInv1, DacCurves, DacWebStep
  <2> HIDE DEF l, custom
  <2> QED
    BY <2>1, <2>2 DEF Dac!WithBand, Dac!Curves
<1>6. /\ dac' = [state |-> dac'.state, mute |-> dac'.mute, programmed |-> dac'.programmed,
               custom |-> dac'.custom, path |-> dac'.path, eq |-> dac'.eq,
               written |-> dac'.written]
      /\ dac'.state = dac.state /\ dac'.eq \in Dac!Curves
      /\ WebAt \in {"lock", "unlock"} => dac'.eq = dac.eq /\ (dac'.custom <=> dac.custom)
      /\ WebAt = "program" =>
           \/ dac.state = "SLEEP" /\ dac'.eq = dac.eq /\ (dac'.custom <=> dac.custom)
           \/ dac'.eq = l.gains /\ dac'.custom
      /\ WebAt = "programBand" =>
           \/ dac.state = "SLEEP" /\ dac'.eq = dac.eq /\ (dac'.custom <=> dac.custom)
           \/ dac'.eq = Dac!WithBand(custom, l) /\ dac'.custom
      /\ WebAt = "unlock" => (dac'.mute <=> l.mute)
  <2> HIDE DEF custom
  <2>1. CASE WebAt \in {"lock", "unlock"}
    BY <1>1, <1>2, <2>1 DEF DacInv, DacInv1, DacFields, DacCurves
  <2>2. ASSUME NEW c \in Dac!Curves, dac' = Dac!Programmed(c)
        PROVE  /\ dac' = [state |-> dac'.state, mute |-> dac'.mute,
                        programmed |-> dac'.programmed, custom |-> dac'.custom,
                        path |-> dac'.path, eq |-> dac'.eq, written |-> dac'.written]
               /\ dac'.state = dac.state /\ dac'.eq \in Dac!Curves
               /\ \/ dac.state = "SLEEP" /\ dac'.eq = dac.eq /\ (dac'.custom <=> dac.custom)
                  \/ dac'.eq = c /\ dac'.custom
    BY <2>2 DEF DacInv, DacInv1, DacFields, DacCurves, Dac!Programmed, Dac!Custom
  <2>3. CASE WebAt = "program"
    <3>1. l.gains \in Dac!Curves /\ dac' = Dac!Programmed(l.gains)
      BY <1>1, <1>2, <2>3 DEF DacInv, DacInv1, DacFields
    <3> HIDE DEF l
    <3> QED
      BY <2>2, <2>3, <3>1
  <2>4. CASE WebAt = "programBand"
    <3>1. dac' = Dac!Programmed(Dac!WithBand(custom, l))
      BY <1>1, <1>2, <1>4, <2>4
    <3> HIDE DEF l
    <3> QED
      BY <1>5, <2>2, <2>4, <3>1
  <2> QED
    BY <1>2, <2>1, <2>3, <2>4
<1>7. /\ DOMAIN dacLocal' = DOMAIN dacLocal /\ dacLocal'["events"] = dacLocal["events"]
      /\ dacLocal'["web"] = [gains |-> dacLocal'["web"].gains,
                             band |-> dacLocal'["web"].band,
                             mute |-> dacLocal'["web"].mute]
      /\ dacLocal'["web"].gains = l.gains /\ dacLocal'["web"].band = l.band
      /\ WebAt = "lock" => (dacLocal'["web"].mute <=> dac.mute)
      /\ WebAt # "lock" => (dacLocal'["web"].mute <=> l.mute)
  BY <1>1, <1>2 DEF DacInv, DacInv1, DacFields
<1>8. DacChip' /\ DacFields'
  BY <1>1, <1>2, <1>3, <1>6, <1>7 DEF DacInv, DacInv1, DacChip, DacFields
<1>9. DacCurves'
  BY <1>1, <1>2, <1>6, <1>7 DEF DacInv, DacInv1, DacCurves, DacWebStep
<1>10. /\ WebAt = "lock" => regLock = "free" /\ regLock' = "web"
       /\ WebAt \in {"program", "programBand"} => regLock = "web" /\ regLock' = "web"
       /\ WebAt = "unlock" => regLock = "web" /\ regLock' = "free"
  BY <1>1, <1>2 DEF DacInv, DacInv1, DacLocked
<1>11. DacLocked'
  BY <1>1, <1>2, <1>10 DEF DacInv, DacInv1, DacLocked, DacWebStep
<1>12. DacMuted'
  BY <1>1, <1>2, <1>6, <1>7, <1>10 DEF DacInv, DacInv1, DacMuted
<1>13. DacCarried' /\ DacFresh'
  BY <1>1, <1>2, <1>3, <1>6, <1>7 DEF DacInv, DacCarried, DacFresh, DacQuiet, DacWebStep
<1>14. DacAgrees'
  <2> SUFFICES ASSUME ~eqHist, dac.state # "SLEEP" PROVE DacAgrees'
    BY <1>1, <1>6 DEF DacAgrees
  <2>1. DacWanted' = DacWanted /\ DacQuiet' /\ DacQuiet /\ WebAt # "idle"
    BY <1>1, <1>2, <1>3 DEF DacInv, DacCarried, DacWanted, DacQuiet
  <2>2. Dac!WithBand(DacWanted', dacLocal'["web"]) = Dac!WithBand(DacWanted, l)
    BY <1>7, <2>1 DEF Dac!WithBand
  <2>3. CASE WebAt = "lock"
    <3>1. Dac!EqHeard' = Dac!EqHeard
      BY <1>6, <2>3 DEF Dac!EqHeard
    <3>2. WebKind = "unlock" =>
            /\ saved \in Dac!Curves /\ saved # Dac!NoEq
            /\ ~DacBefore' /\ WebAt' = "program" /\ WebKind' = "unlock"
      BY <1>2, <1>3, <2>3, CurvesSaved
         DEF DacInv, DacInv1, DacFields, DacCarried, DacBefore, DacWebStep
    <3>3. WebKind # "unlock" =>
            DacBefore /\ DacBefore' /\ WebAt' \in {"program", "programBand"}
      BY <1>2, <2>3 DEF DacBefore, DacWebStep
    <3> QED
      BY <1>1, <1>3, <1>6, <2>1, <3>1, <3>2, <3>3 DEF DacInv, DacAgrees
  <2>4. CASE WebAt = "program"
    <3>1. Dac!EqHeard' = l.gains
      BY <1>6, <2>4 DEF Dac!EqHeard
    <3>2. ~DacBefore' /\ WebAt' = "unlock" /\ WebKind' = WebKind
          /\ WebKind \in {"unlock", "clear"}
      BY <1>2, <2>4 DEF DacBefore, DacWebStep
    <3>3. /\ WebKind = "unlock" => l.gains = saved
          /\ WebKind = "clear" => l.gains = Dac!Flat
      BY <1>3, <2>4 DEF DacInv, DacCarried
    <3> QED
      BY <1>1, <3>1, <3>2, <3>3 DEF DacAgrees
  <2>5. CASE WebAt = "programBand"
    <3>1. Dac!EqHeard' = Dac!WithBand(custom, l) /\ Dac!EqHeard = custom
      BY <1>6, <2>5 DEF Dac!EqHeard
    <3>2. ~DacBefore' /\ WebAt' = "unlock" /\ WebKind' = "saveBand" /\ WebKind = "saveBand"
      BY <1>2, <2>5 DEF DacBefore, DacWebStep
    <3>3. dac.state = "PLAY" => custom = DacWanted
      BY <1>3, <2>1, <2>5, <3>1, <3>2 DEF DacInv, DacAgrees, DacBefore
    <3> HIDE DEF l, custom
    <3> QED
      BY <1>1, <1>6, <2>2, <3>1, <3>2, <3>3 DEF DacAgrees
  <2>6. CASE WebAt = "unlock"
    <3>1. Dac!EqHeard' = Dac!EqHeard
      BY <1>6, <2>6 DEF Dac!EqHeard
    <3>2. CASE WebKind = "unlock"
      <4>1. saved \in Dac!Curves /\ saved # Dac!NoEq
        BY <1>3, <2>6, <3>2, CurvesSaved DEF DacInv, DacInv1, DacFields, DacCarried
      <4>2. WebAt' = "idle" /\ WebKind' = "none"
        BY <1>2, <2>6, <3>2 DEF DacWebStep
      <4>3. DacWanted' = saved
        BY <1>1, <4>1 DEF DacWanted, Dac!NoEq
      <4>4. dac.state = "PLAY" => Dac!EqHeard = saved
        BY <1>3, <2>6, <3>2 DEF DacInv, DacAgrees
      <4> QED
        BY <1>1, <1>6, <3>1, <4>1, <4>2, <4>3, <4>4 DEF DacAgrees
    <3>3. CASE WebKind = "clear"
      <4>1. WebAt' = "clear" /\ WebKind' = "clear" /\ ~DacBefore'
        BY <1>2, <2>6, <3>3 DEF DacWebStep, DacBefore
      <4>2. Dac!EqHeard = Dac!Flat
        BY <1>3, <2>6, <3>3 DEF DacInv, DacAgrees
      <4> QED
        BY <3>1, <4>1, <4>2 DEF DacAgrees
    <3>4. CASE WebKind = "saveBand"
      <4>1. WebAt' = "saveBand" /\ WebKind' = "saveBand" /\ ~DacBefore'
        BY <1>2, <2>6, <3>4 DEF DacWebStep, DacBefore
      <4>2. dac.state = "PLAY" => Dac!EqHeard = Dac!WithBand(DacWanted, l)
        BY <1>3, <2>6, <3>4 DEF DacInv, DacAgrees
      <4> HIDE DEF l
      <4> QED
        BY <1>6, <2>2, <3>1, <4>1, <4>2 DEF DacAgrees
    <3> QED
      BY <1>2, <2>6, <3>2, <3>3, <3>4 DEF DacWebStep
  <2> QED
    BY <1>2, <2>3, <2>4, <2>5, <2>6
<1> QED
  BY <1>1, <1>2, <1>8, <1>9, <1>11, <1>12, <1>13, <1>14 DEF DacInv, DacInv1

\* The settings follow the chip, or go before it.
LEMMA DacSave ==
  ASSUME DacInv, Dac!SaveEq
  PROVE  DacInv'
<1> DEFINE l == dacLocal["web"]
<1>1. /\ dacTodo["web"] # << >> /\ Dac!Returns("web")
      /\ Head(dacTodo["web"]) \in {"save", "clear", "saveBand"}
      /\ UNCHANGED <<chip, dac, regLock, board, dacLocal, eqHist>>
      /\ Head(dacTodo["web"]) = "save" => saved' = l.gains
      /\ Head(dacTodo["web"]) = "clear" => saved' = Dac!NoEq
      /\ Head(dacTodo["web"]) = "saveBand" => saved' = Dac!BandSaved(l)
  BY DEF Dac!SaveEq, Dac!Doing
<1>2. /\ DacPrograms' /\ EventsAt' = EventsAt /\ EventsKind' = EventsKind
      /\ WebAt = Head(dacTodo["web"])
      /\ WebAt \in {"save", "clear", "saveBand"}
      /\ DacWebStep(WebAt, WebKind, WebAt', WebKind')
  BY <1>1, DacWebMove, DacPlaces DEF DacInv, DacInv1
<1>3. chip = "tas58xx"
  BY <1>2 DEF DacInv, DacInv1, DacChip
<1>4. Dac!BandSaved(l) = Dac!WithBand(DacWanted, l)
  BY DEF Dac!BandSaved, DacWanted
<1>5. /\ l.gains \in Dac!Curves
      /\ WebAt = "saveBand" => Dac!WithBand(DacWanted, l) \in Dac!Curves
  <2>1. DacWanted \in Dac!Curves /\ l.gains \in Dac!Curves
    BY CurvesSaved DEF DacInv, DacInv1, DacFields, DacCurves, DacWanted, Dac!NoEq
  <2>2. WebAt = "saveBand" => l.band \in Bands
    BY <1>2 DEF DacInv, DacInv1, DacCurves, DacWebStep
  <2> HIDE DEF l
  <2> QED
    BY <2>1, <2>2 DEF Dac!WithBand, Dac!Curves
<1>6. DacChip' /\ DacFields' /\ DacCurves'
  BY <1>1, <1>2, <1>3, <1>4, <1>5 DEF DacInv, DacInv1, DacChip, DacFields, DacCurves, DacWebStep
<1>7. DacLocked' /\ DacMuted'
  BY <1>1, <1>2 DEF DacInv, DacInv1, DacLocked, DacMuted, DacWebStep
<1>8. DacCarried' /\ DacFresh'
  BY <1>1, <1>2, <1>3 DEF DacInv, DacCarried, DacFresh, DacQuiet, DacWebStep
<1>9. DacAgrees'
  <2> SUFFICES ASSUME ~eqHist, dac.state # "SLEEP" PROVE DacAgrees'
    BY <1>1 DEF DacAgrees
  <2>1. Dac!EqHeard' = Dac!EqHeard
    BY <1>1 DEF Dac!EqHeard
  <2>2. CASE WebAt = "save"
    <3>1. saved' # Dac!NoEq /\ WebAt' = "lock" /\ WebKind' = "unlock" /\ ~DacBefore'
      BY <1>1, <1>2, <1>5, <2>2, CurvesSaved DEF DacWebStep, DacBefore
    <3> QED
      BY <3>1 DEF DacAgrees
  <2>3. CASE WebAt = "clear"
    <3>1. WebAt' = "idle" /\ WebKind' = "none" /\ WebKind = "clear"
      BY <1>2, <2>3 DEF DacWebStep
    <3>2. DacWanted' = Dac!Flat /\ Dac!EqHeard = Dac!Flat
      BY <1>1, <1>2, <1>3, <2>3, <3>1 DEF DacInv, DacAgrees, DacWanted, Dac!NoEq
    <3> QED
      BY <2>1, <3>1, <3>2 DEF DacAgrees
  <2>4. CASE WebAt = "saveBand"
    <3>1. WebAt' = "idle" /\ WebKind' = "none" /\ WebKind = "saveBand"
      BY <1>2, <2>4 DEF DacWebStep
    <3>2. saved' = Dac!WithBand(DacWanted, l) /\ saved' # Dac!NoEq
      BY <1>1, <1>2, <1>4, <1>5, <2>4, CurvesSaved
    <3>3. DacWanted' = saved'
      BY <3>2 DEF DacWanted, Dac!NoEq
    <3>4. dac.state = "PLAY" => Dac!EqHeard = Dac!WithBand(DacWanted, l)
      BY <1>3, <2>4, <3>1 DEF DacInv, DacAgrees
    <3> HIDE DEF l
    <3> QED
      BY <1>1, <2>1, <3>1, <3>2, <3>3, <3>4 DEF DacAgrees
  <2> QED
    BY <1>2, <2>2, <2>3, <2>4
<1> QED
  BY <1>1, <1>2, <1>6, <1>7, <1>8, <1>9 DEF DacInv, DacInv1

\* The interrupts and the task behind them touch the mute bit alone, and never
\* while the register lock is held.
LEMMA DacPins ==
  ASSUME DacInv,
         \/ Dac!FaultEdge \/ Dac!JackEdge \/ Dac!TakeNotification
         \/ Dac!FaultSeen \/ Dac!FaultCleared \/ Dac!JackSettled
  PROVE  DacInv'
<1>1. UNCHANGED <<chip, regLock, saved, dacLocal, eqHist>>
  BY DEF Dac!FaultEdge, Dac!JackEdge, Dac!TakeNotification, Dac!FaultSeen,
     Dac!FaultCleared, Dac!JackSettled
<1>2. /\ DacPrograms' /\ EventsAt' = EventsAt /\ EventsKind' = EventsKind
      /\ WebAt' = WebAt /\ WebKind' = WebKind
  <2>1. \/ dacTodo' = dacTodo
        \/ \E p : dacTodo' = [dacTodo EXCEPT !["pins"] = p]
    BY Zenon DEF Dac!FaultEdge, Dac!JackEdge, Dac!TakeNotification, Dac!FaultSeen,
       Dac!FaultCleared, Dac!JackSettled, Dac!Returns, Dac!Calls
  <2> HIDE DEF DacEventPrograms, DacWebPrograms
  <2> QED
    BY <2>1 DEF DacInv, DacInv1, DacPrograms, EventsAt, EventsKind, WebAt, WebKind
<1>3. chip = "tas57xx" => regLock = "free"
  BY DacPlaces DEF DacInv, DacInv1, DacChip, DacLocked
<1>4. /\ \/ dac' = dac
         \/ regLock = "free" /\ \E on \in BOOLEAN : dac' = [dac EXCEPT !.mute = on]
      /\ board' = [faultPin |-> board'.faultPin, jackPin |-> board'.jackPin,
                   notified |-> board'.notified, fault |-> board'.fault,
                   headphone |-> board'.headphone]
      /\ regLock = "free" /\ dac.state = "PLAY" /\ (dac.mute => board.fault \/ board.headphone)
           => (dac'.mute => board'.fault \/ board'.headphone)
      /\ regLock # "free" => /\ dac' = dac
                             /\ board.fault \/ board.headphone => board'.fault \/ board'.headphone
  <2>1. CASE Dac!FaultEdge \/ Dac!JackEdge \/ Dac!TakeNotification
    BY <2>1 DEF DacInv, DacInv1, DacFields, Dac!FaultEdge, Dac!JackEdge, Dac!TakeNotification
  <2>2. CASE Dac!FaultSeen
    BY <1>3, <2>2 DEF DacInv, DacInv1, DacFields, DacChip, Dac!FaultSeen, Dac!SpeakerFree, Dac!Muted
  <2>3. CASE Dac!FaultCleared
    BY <1>3, <2>3 DEF DacInv, DacInv1, DacFields, DacChip, Dac!FaultCleared, Dac!SpeakerFree, Dac!Muted
  <2>4. CASE Dac!JackSettled
    <3>1. \/ /\ board.jackPin /\ ~board.headphone
             /\ dac' = [dac EXCEPT !.mute = TRUE]
          \/ /\ ~board.jackPin /\ board.headphone /\ ~board.fault
             /\ dac' = [dac EXCEPT !.mute = FALSE]
          \/ ~board.jackPin /\ board.fault /\ dac' = dac
          \/ (board.jackPin <=> board.headphone) /\ dac' = dac
      <4>1. CASE board.jackPin /\ ~board.headphone
        BY <2>4, <4>1 DEF Dac!JackSettled, Dac!Muted
      <4>2. CASE ~board.jackPin /\ board.headphone /\ ~board.fault
        BY <2>4, <4>2 DEF Dac!JackSettled, Dac!Muted
      <4>3. CASE /\ ~(board.jackPin /\ ~board.headphone)
                 /\ ~(~board.jackPin /\ board.headphone /\ ~board.fault)
        BY <2>4, <4>3 DEF Dac!JackSettled, Dac!Muted
      <4> QED
        BY <4>1, <4>2, <4>3
    <3>2. board' = [board EXCEPT !.headphone = board.jackPin]
      BY <2>4 DEF Dac!JackSettled
    <3>3. regLock # "free" => ~board.jackPin /\ ~board.headphone
      BY <1>3 DEF DacInv, DacInv1, DacChip
    <3> QED
      BY <3>1, <3>2, <3>3 DEF DacInv, DacInv1, DacFields
  <2> QED
    BY <2>1, <2>2, <2>3, <2>4
<1>5. /\ dac' = [state |-> dac'.state, mute |-> dac'.mute, programmed |-> dac'.programmed,
               custom |-> dac'.custom, path |-> dac'.path, eq |-> dac'.eq,
               written |-> dac'.written]
      /\ dac'.state = dac.state /\ dac'.eq = dac.eq /\ (dac'.custom <=> dac.custom)
  BY <1>4 DEF DacInv, DacInv1, DacFields
<1>6. chip = "tas58xx" => ~board'.jackPin /\ ~board'.headphone
  BY DEF DacInv, DacInv1, DacFields, DacChip, Dac!FaultEdge, Dac!JackEdge,
     Dac!TakeNotification, Dac!FaultSeen, Dac!FaultCleared, Dac!JackSettled
<1>7. DacChip' /\ DacFields' /\ DacCurves' /\ DacLocked'
  BY <1>1, <1>2, <1>4, <1>5, <1>6
     DEF DacInv, DacInv1, DacChip, DacFields, DacCurves, DacLocked
<1>8. DacMuted'
  BY <1>1, <1>4, <1>5 DEF DacInv, DacInv1, DacMuted
<1>9. chip = "tas58xx" => DacCarried' /\ DacFresh'
  BY <1>1, <1>2, <1>5 DEF DacInv, DacCarried, DacFresh, DacQuiet
<1>10. chip = "tas58xx" => DacAgrees'
  <2>1. /\ DacBefore' = DacBefore /\ Dac!EqHeard' = Dac!EqHeard /\ DacWanted' = DacWanted
        /\ DacQuiet' = DacQuiet
    BY <1>1, <1>2, <1>5 DEF DacBefore, Dac!EqHeard, DacWanted, DacQuiet
  <2> QED
    BY <1>1, <1>2, <1>5, <2>1 DEF DacInv, DacAgrees
<1> QED
  BY <1>1, <1>2, <1>7, <1>8, <1>9, <1>10 DEF DacInv, DacInv1

\* What is heard through the board is what the settings ask for
\* (MCSpeaker!BoardFollowsSettings: on_rtsp_event, on_eq_event,
\* restore_eq_from_nvs, tas58xx_eq_set_all, spkfault_task).  The register lock
\* keeps the saved mute bit true to the fault and the headphones; a change and
\* a restore leave the chip and the settings with the same curve, unless one
\* overlapped the other since the chip last slept.
THEOREM BoardIsHeard == Spec => []BoardFollowsSettings
<1>1. Init => DacInv
  <2> SUFFICES ASSUME Init PROVE DacInv
    OBVIOUS
  <2>1. /\ dacTodo = [t \in Dac!DacTasks |-> << >>]
        /\ chip \in {"tas58xx", "tas57xx"} /\ regLock = "free" /\ saved = Dac!NoEq
        /\ dac = [state |-> "SLEEP", mute |-> FALSE, programmed |-> FALSE,
                  custom |-> FALSE, path |-> FALSE, eq |-> Dac!Flat, written |-> FALSE]
        /\ board = [faultPin |-> FALSE, jackPin |-> FALSE, notified |-> {},
                    fault |-> FALSE, headphone |-> FALSE]
        /\ dacLocal = [t \in Dac!DacTasks |->
                         [gains |-> Dac!Flat, band |-> Dac!NoBand, mute |-> FALSE]]
    BY DEF Init, Dac!Init
  <2>2. DacPrograms /\ EventsAt = "idle" /\ EventsKind = "none" /\ WebAt = "idle"
        /\ WebKind = "none"
    BY <2>1 DEF Dac!DacTasks, DacPrograms, DacEventPrograms, DacWebPrograms,
       EventsAt, EventsKind, WebAt, WebKind, DacAt, DacKind
  <2>3. DacChip /\ DacFields /\ DacCurves
    BY <2>1, <2>2, CurvesSaved DEF Dac!DacTasks, DacChip, DacFields, DacCurves
  <2>4. DacLocked /\ DacMuted /\ DacCarried /\ DacAgrees /\ DacFresh
    BY <2>1, <2>2 DEF DacLocked, DacMuted, DacCarried, DacAgrees, DacFresh
  <2> QED
    BY <2>2, <2>3, <2>4 DEF DacInv, DacInv1
<1>2. DacInv /\ [Next]_vars => DacInv'
  <2> SUFFICES ASSUME DacInv, [Next]_vars PROVE DacInv'
    OBVIOUS
  <2>1. CASE DacNext
    <3>1. ASSUME NEW event \in Dac!PlaybackEvents, Dac!RtspEvent(event) PROVE DacInv'
      BY <3>1, DacPlayback
    <3>2. ASSUME NEW mode \in {"on", "standby", "off"}, Dac!SetPowerMode(mode) PROVE DacInv'
      BY <3>2, DacPower
    <3>3. ASSUME NEW t \in {"events", "web"},
                 Dac!EqLock(t) \/ Dac!EqProgram(t) \/ Dac!EqUnlock(t)
          PROVE  DacInv'
      BY <3>3, DacEventsUpdate, DacWebUpdate
    <3> QED
      BY <2>1, <3>1, <3>2, <3>3, DacRestore, DacChanges, DacSave, DacPins
         DEF DacNext, Dac!Next
  <2>2. CASE UNCHANGED dacVars
    BY <2>2 DEF dacVars, DacInv, DacInv1, DacPrograms, DacChip, DacFields, DacCurves,
       DacLocked, DacMuted, DacCarried, DacAgrees, DacFresh, DacBefore, DacQuiet,
       DacWanted, Dac!EqHeard, EventsAt, EventsKind, WebAt, WebKind
  <2> QED
    BY <2>1, <2>2 DEF Next, AmpNext, BtEnvironment, BtFirmware, GatesNext, vars
<1>3. DacInv => BoardFollowsSettings
  <2> SUFFICES ASSUME DacInv, Dac!AllIdle, dac.state = "PLAY" PROVE BoardFollowsSettings
    BY DEF BoardFollowsSettings, Dac!BoardFollowsSettings, Dac!EqFollowsSettings,
       Dac!NotLeftMuted
  <2>1. EventsAt = "idle" /\ WebAt = "idle"
    BY DacPlaces DEF DacInv, DacInv1, Dac!AllIdle, Dac!DacIdle, Dac!DacTasks
  <2>2. Dac!EqFollowsSettings
    BY <2>1 DEF DacInv, DacAgrees, DacBefore, DacQuiet, DacWanted, Dac!EqFollowsSettings
  <2>3. Dac!NotLeftMuted
    BY <2>1 DEF DacInv, DacInv1, DacLocked, DacMuted, Dac!NotLeftMuted
  <2> QED
    BY <2>2, <2>3 DEF BoardFollowsSettings, Dac!BoardFollowsSettings
<1> QED
  BY <1>1, <1>2, <1>3, PTL DEF Spec, Steps
-----------------------------------------------------------------------------
(* The gates of a buffered stream (AudioReceiver).                         *)

GateFields ==
  /\ sender = [ep |-> sender.ep, next |-> sender.next, pos |-> sender.pos,
               playing |-> sender.playing, owes |-> sender.owes]
  /\ sender.ep \in Nat /\ sender.next \in Nat /\ sender.pos \in Nat
  /\ sock \in Seq([ep : Nat, ts : Nat])
  /\ feed = [at |-> feed.at, frame |-> [ep |-> feed.frame.ep, ts |-> feed.frame.ts],
             closed |-> feed.closed]
  /\ feed.at \in {"recv", "lower", "disarm_lower", "upper", "disarm_upper", "queue"}
  /\ feed.frame.ep \in Nat /\ feed.frame.ts \in Nat /\ feed.closed \in Nat
  /\ gates = [all |-> gates.all, before |-> gates.before,
              before_valid |-> gates.before_valid, above_valid |-> gates.above_valid,
              arm |-> gates.arm, closed |-> gates.closed, armed |-> gates.armed]
  /\ gates.all \in BOOLEAN /\ gates.before_valid \in BOOLEAN
  /\ gates.above_valid \in BOOLEAN /\ gates.arm \in BOOLEAN
  /\ gates.before \in Nat /\ gates.closed \in Nat /\ gates.armed \in Nat
  /\ ctl = [req |-> ctl.req, step |-> ctl.step, rtp |-> ctl.rtp, armed |-> ctl.armed]
  /\ ctl.step \in Receiver!Steps /\ ctl.rtp \in Nat

\* What the steps of a request have done to the gates, and the next will find.
GateProgress ==
  /\ gates.closed =< sender.ep /\ feed.closed =< sender.ep /\ gates.armed =< sender.ep
  /\ ctl.step \in {"f_buffer", "f_reset", "f_close"} =>
       gates.closed < sender.ep /\ feed.closed < sender.ep
  /\ ctl.step = "f_close" => ~gates.above_valid
  /\ ctl.step \in {"b_buffer", "b_gates", "a_open", "p_peek", "p_buffer", "p_gates",
                   "a_anchor"} => ~gates.arm
  /\ ctl.step # "idle" => ctl.rtp = sender.pos
  /\ sender.next =< sender.pos + MaxLead

\* The blanket gate waits for an anchor, or for the step that opens it.
GateBlanket ==
  /\ gates.arm => gates.all /\ ~gates.above_valid
  /\ gates.all /\ ~gates.arm => ctl.step = "a_open" /\ gates.before = ctl.rtp
  /\ gates.all /\ gates.closed # 0 => feed.closed # gates.closed

\* The TCP task is past the blanket gate with a frame.
Held == feed.at # "recv"

\* It will still look at the gates of the anchor, or write to them.
AtGates == feed.at \notin {"recv", "queue"}

\* Frames come in the order they were sent, those of a stream without a gap.
GateOrder ==
  /\ \A i \in DOMAIN sock :
       /\ sock[i].ep =< sender.ep
       /\ \A j \in DOMAIN sock : i < j => sock[i].ep =< sock[j].ep
       /\ Held => feed.frame.ep =< sock[i].ep
       /\ sock[i].ep = sender.ep => sock[i].ts + Len(sock) + 1 = sender.next + i
  /\ Held => feed.frame.ep =< sender.ep
  /\ Held /\ feed.frame.ep = sender.ep => feed.frame.ts + Len(sock) + 1 = sender.next

\* The frames of an earlier stream are below the window and the lower gate is
\* shut: the one at the gates has yet to meet it.
OldBelow ==
  /\ \A i \in DOMAIN sock : sock[i].ep < gates.closed =>
       gates.before_valid /\ sock[i].ts < gates.before
  /\ AtGates /\ feed.frame.ep < gates.closed =>
       feed.at = "lower" /\ gates.before_valid /\ feed.frame.ts < gates.before

\* They are above the window and the upper gate is shut.
OldAbove ==
  /\ \A i \in DOMAIN sock : sock[i].ep < gates.closed =>
       gates.above_valid /\ sock[i].ts > Receiver!UpperGate(gates.before)
  /\ AtGates /\ feed.frame.ep < gates.closed =>
       gates.above_valid /\ feed.frame.ts > Receiver!UpperGate(gates.before)

\* Once the window is armed, an earlier stream's frame that met the blanket gate
\* is still before the gates, and one about to be queued came before the seek.
GateOld ==
  excuse = {} /\ gates.closed # 0 /\ ~gates.arm =>
    /\ Held /\ feed.frame.ep < gates.closed =>
         IF AtGates THEN feed.closed = gates.closed /\ feed.at # "disarm_upper"
         ELSE feed.closed # gates.closed
    /\ OldBelow \/ OldAbove

\* A frame that the upper gate lets through is still to come.
FreshToCome ==
  \/ sender.next =< Receiver!UpperGate(gates.before)
  \/ \E i \in DOMAIN sock :
       sock[i].ep = sender.ep /\ sock[i].ts =< Receiver!UpperGate(gates.before)
  \/ AtGates /\ feed.frame.ep = sender.ep
     /\ feed.frame.ts =< Receiver!UpperGate(gates.before)

GateFresh ==
  ~gates.all /\ gates.above_valid /\ gates.armed = sender.ep => FreshToCome

GateInv == GateFields /\ GateProgress /\ GateBlanket /\ GateOrder /\ GateOld /\ GateFresh

LEMMA SockIs ==
  ASSUME GateFields
  PROVE  /\ Len(sock) \in Nat /\ DOMAIN sock = 1 .. Len(sock)
         /\ \A i \in DOMAIN sock : sock[i].ep \in Nat /\ sock[i].ts \in Nat
<1>1. sock \in Seq([ep : Nat, ts : Nat])
  BY DEF GateFields
<1>2. Len(sock) \in Nat /\ DOMAIN sock = 1 .. Len(sock)
  BY <1>1, LenProperties
<1>3. ASSUME NEW i \in DOMAIN sock PROVE sock[i] \in [ep : Nat, ts : Nat]
  BY <1>1, <1>2, <1>3, ElementOfSeq
<1> QED
  BY <1>2, <1>3

\* A frame is sent.
LEMMA SockGrows ==
  ASSUME GateFields, NEW e \in Nat, NEW t \in Nat,
         sock' = Append(sock, [ep |-> e, ts |-> t])
  PROVE  /\ sock' \in Seq([ep : Nat, ts : Nat])
         /\ Len(sock') = Len(sock) + 1 /\ DOMAIN sock' = 1 .. (Len(sock) + 1)
         /\ \A i \in DOMAIN sock : sock'[i] = sock[i]
         /\ sock'[Len(sock) + 1].ep = e /\ sock'[Len(sock) + 1].ts = t
<1>1. sock \in Seq([ep : Nat, ts : Nat]) /\ [ep |-> e, ts |-> t] \in [ep : Nat, ts : Nat]
  BY DEF GateFields
<1>2. /\ sock' \in Seq([ep : Nat, ts : Nat]) /\ Len(sock') = Len(sock) + 1
      /\ \A i \in 1 .. Len(sock) : sock'[i] = sock[i]
      /\ sock'[Len(sock) + 1] = [ep |-> e, ts |-> t]
  BY <1>1, AppendProperties
<1>3. DOMAIN sock' = 1 .. Len(sock')
  BY <1>2, LenProperties
<1> QED
  BY <1>2, <1>3, SockIs

\* A frame is taken from the socket.
LEMMA SockShrinks ==
  ASSUME GateFields, sock # << >>, sock' = Tail(sock)
  PROVE  /\ sock' \in Seq([ep : Nat, ts : Nat])
         /\ 1 \in DOMAIN sock /\ Head(sock) = sock[1]
         /\ Len(sock') = Len(sock) - 1 /\ DOMAIN sock' = 1 .. (Len(sock) - 1)
         /\ \A i \in DOMAIN sock' : i + 1 \in DOMAIN sock /\ sock'[i] = sock[i + 1]
<1>1. sock \in Seq([ep : Nat, ts : Nat])
  BY DEF GateFields
<1>2. /\ sock' \in Seq([ep : Nat, ts : Nat]) /\ Len(sock') = Len(sock) - 1
      /\ Head(sock) = sock[1] /\ \A i \in 1 .. (Len(sock) - 1) : sock'[i] = sock[i + 1]
  BY <1>1, HeadTailProperties
<1>3. DOMAIN sock' = 1 .. Len(sock') /\ Len(sock) # 0
  BY <1>1, <1>2, LenProperties, EmptySeq
<1> QED
  BY <1>2, <1>3, SockIs

\* Nothing that the gates are about has moved.
LEMMA GatesRest ==
  ASSUME GateInv, UNCHANGED <<sender, sock, feed, gates, excuse>>
  PROVE  GateOrder' /\ GateOld' /\ GateFresh'
BY DEF GateInv, GateOrder, GateOld, GateFresh, OldBelow, OldAbove, FreshToCome, Held,
       AtGates, Receiver!UpperGate

\* The window is armed: what is left of the earlier streams lies on one side of
\* it, or there is an excuse; and the sender has not gone beyond it.
LEMMA GatesArm ==
  ASSUME GateInv, ctl.step \notin {"idle", "f_buffer", "f_reset", "f_close"},
         gates' = Receiver!GatesAt(gates, ctl.rtp),
         excuse' = excuse \cup Receiver!Excuses(ctl.rtp),
         UNCHANGED <<sender, sock, feed>>
  PROVE  /\ gates' = [all |-> gates.all, before |-> ctl.rtp, before_valid |-> TRUE,
                      above_valid |-> TRUE, arm |-> FALSE, closed |-> gates.closed,
                      armed |-> sender.ep]
         /\ GateOrder' /\ GateOld' /\ GateFresh'
<1>1. GateFields /\ GateProgress /\ GateBlanket /\ GateOrder /\ GateOld
  BY DEF GateInv
<1>2. gates' = [all |-> gates.all, before |-> ctl.rtp, before_valid |-> TRUE,
                above_valid |-> TRUE, arm |-> FALSE, closed |-> gates.closed,
                armed |-> sender.ep]
  <2>1. PICK g : g = gates
    OBVIOUS
  <2>2. g = [all |-> g.all, before |-> g.before,
             before_valid |-> g.before_valid, above_valid |-> g.above_valid,
             arm |-> g.arm, closed |-> g.closed, armed |-> g.armed]
    BY <1>1, <2>1 DEF GateFields
  <2> QED
    BY <2>1, <2>2 DEF Receiver!GatesAt
<1>3. GateOrder'
  BY <1>1 DEF GateOrder, Held
<1>4. GateFresh'
  <2>1. sender.next <= ctl.rtp + MaxLead /\ sender.next \in Nat /\ ctl.rtp \in Nat
    BY <1>1 DEF GateFields, GateProgress
  <2>2. sender.next <= ctl.rtp + gate_window
    BY <2>1, SpeakerAssumption DEF SpeakerAssumption
  <2> QED
    BY <1>2, <2>2 DEF GateFresh, FreshToCome, Receiver!UpperGate
<1>5. GateOld'
  <2> SUFFICES ASSUME excuse' = {}, gates.closed # 0 PROVE GateOld'
    BY <1>2 DEF GateOld
  <2>1. excuse = {} /\ Receiver!Excuses(ctl.rtp) = {}
    OBVIOUS
  <2>2. feed.at \in {"recv", "queue"}
    <3>1. "race" \notin Receiver!Excuses(ctl.rtp)
      BY <2>1
    <3> QED
      BY <3>1 DEF Receiver!Excuses
  <2>3. \A ts \in Receiver!Stale : ~Receiver!InWindow(ts, ctl.rtp)
    <3>1. "inside" \notin Receiver!Excuses(ctl.rtp)
      BY <2>1
    <3> QED
      BY <3>1 DEF Receiver!Excuses
  <2>4. \/ \A ts \in Receiver!Stale : ~(ts < ctl.rtp)
        \/ \A ts \in Receiver!Stale : ~(ts > Receiver!UpperGate(ctl.rtp))
    <3>1. "both" \notin Receiver!Excuses(ctl.rtp)
      BY <2>1
    <3> QED
      BY <3>1 DEF Receiver!Excuses
  <2>5. ctl.rtp \in Nat /\ gate_window \in Nat /\ gates.closed \in Nat /\ sender.ep \in Nat
        /\ gates.closed <= sender.ep
    BY <1>1, SpeakerAssumption DEF GateFields, GateProgress, SpeakerAssumption
  <2>6. ASSUME NEW i \in DOMAIN sock, sock[i].ep < gates.closed
        PROVE  sock[i].ts \in Receiver!Stale /\ sock[i].ts \in Nat
    BY <1>1, <2>5, <2>6, SockIs DEF Receiver!Stale
  <2>7. \/ \A i \in DOMAIN sock : sock[i].ep < gates.closed => sock[i].ts < ctl.rtp
        \/ \A i \in DOMAIN sock : sock[i].ep < gates.closed =>
             sock[i].ts > Receiver!UpperGate(ctl.rtp)
    BY <2>3, <2>4, <2>5, <2>6 DEF Receiver!InWindow, Receiver!UpperGate
  <2>8. feed.at = "queue" /\ feed.frame.ep < gates.closed => feed.closed # gates.closed
    BY <1>1, <2>1 DEF GateBlanket, GateOld, Held, AtGates
  <2>9. OldBelow' \/ OldAbove'
    BY <1>2, <2>2, <2>7 DEF OldBelow, OldAbove, AtGates, Receiver!UpperGate
  <2> QED
    BY <1>2, <2>2, <2>8, <2>9 DEF GateOld, Held, AtGates
<1> QED
  BY <1>2, <1>3, <1>4, <1>5

\* A step of the RTSP task that leaves the gates as they are.
LEMMA GatesGo ==
  ASSUME GateInv, UNCHANGED <<sender, sock, feed, gates, excuse>>,
         NEW q, NEW s \in Receiver!Steps \ {"f_close"}, NEW r \in Nat, NEW a,
         ctl' = [req |-> q, step |-> s, rtp |-> r, armed |-> a],
         s # "idle" => ctl.step # "idle" /\ r = ctl.rtp,
         s \in {"f_buffer", "f_reset"} => ctl.step = "f_buffer",
         ctl.step # "a_open",
         s \in {"b_buffer", "b_gates", "a_open", "p_peek", "p_buffer", "p_gates",
                "a_anchor"} => ~gates.arm
  PROVE  GateInv'
<1>1. ctl'.step = s /\ ctl'.rtp = r /\ ctl'.req = q /\ ctl'.armed = a
  OBVIOUS
<1>2. GateFields'
  BY <1>1 DEF GateInv, GateFields
<1>3. GateProgress'
  BY <1>1 DEF GateInv, GateProgress
<1>4. GateBlanket'
  BY <1>1 DEF GateInv, GateBlanket
<1> QED
  BY <1>2, <1>3, <1>4, GatesRest DEF GateInv

LEMMA CtlGoes ==
  ASSUME GateFields, NEW s, Receiver!Goto(s)
  PROVE  ctl' = [req |-> ctl.req, step |-> s, rtp |-> ctl.rtp, armed |-> ctl.armed]
BY DEF GateFields, Receiver!Goto

\* The steps that only look at the gates, or empty the buffer.
LEMMA GatesLook ==
  ASSUME GateInv,
         \/ Receiver!FlushBuffer \/ Receiver!JumpFlush \/ Receiver!AnchorPeek
         \/ Receiver!PurgeFlush \/ Receiver!AnchorSet
         \/ (Receiver!AnchorGates /\ ~gates.arm) \/ (Receiver!PurgeArm /\ ctl.armed)
  PROVE  GateInv'
<1>1. GateFields /\ GateProgress /\ GateBlanket /\ ctl.rtp \in Nat
  BY DEF GateInv, GateFields
<1>2. CASE Receiver!FlushBuffer
  <2>1. ctl' = [req |-> ctl.req, step |-> "f_reset", rtp |-> ctl.rtp, armed |-> ctl.armed]
    BY <1>1, <1>2, CtlGoes DEF Receiver!FlushBuffer
  <2> QED
    BY <1>1, <1>2, <2>1, GatesGo DEF Receiver!FlushBuffer, Receiver!Steps
<1>3. CASE Receiver!JumpFlush
  <2>1. ctl' = [req |-> ctl.req, step |-> "b_gates", rtp |-> ctl.rtp, armed |-> ctl.armed]
    BY <1>1, <1>3, CtlGoes DEF Receiver!JumpFlush
  <2> QED
    BY <1>1, <1>3, <2>1, GatesGo DEF Receiver!JumpFlush, Receiver!Steps, GateProgress
<1>4. CASE Receiver!AnchorPeek
  <2>1. PICK s \in {"p_buffer", "a_anchor"} : Receiver!Goto(s)
    BY <1>4 DEF Receiver!AnchorPeek
  <2>2. ctl' = [req |-> ctl.req, step |-> s, rtp |-> ctl.rtp, armed |-> ctl.armed]
    BY <1>1, <2>1, CtlGoes
  <2> QED
    BY <1>1, <1>4, <2>2, GatesGo DEF Receiver!AnchorPeek, Receiver!Steps, GateProgress
<1>5. CASE Receiver!PurgeFlush
  <2>1. ctl' = [req |-> ctl.req, step |-> "p_gates", rtp |-> ctl.rtp, armed |-> ctl.armed]
    BY <1>1, <1>5, CtlGoes DEF Receiver!PurgeFlush
  <2> QED
    BY <1>1, <1>5, <2>1, GatesGo DEF Receiver!PurgeFlush, Receiver!Steps, GateProgress
<1>6. CASE Receiver!AnchorSet
  <2>1. ctl' = [req |-> "none", step |-> "idle", rtp |-> 0, armed |-> FALSE]
    BY <1>6 DEF Receiver!AnchorSet, Receiver!Done, Receiver!NoRequest
  <2> QED
    BY <1>1, <1>6, <2>1, GatesGo DEF Receiver!AnchorSet, Receiver!Steps
<1>7. CASE Receiver!AnchorGates /\ ~gates.arm
  <2>1. PICK s \in {"b_buffer", "a_open"} : Receiver!Goto(s)
    BY <1>7 DEF Receiver!AnchorGates
  <2>2. ctl' = [req |-> ctl.req, step |-> s, rtp |-> ctl.rtp, armed |-> ctl.armed]
    BY <1>1, <2>1, CtlGoes
  <2> QED
    BY <1>1, <1>7, <2>2, GatesGo DEF Receiver!AnchorGates, Receiver!Steps
<1>8. CASE Receiver!PurgeArm /\ ctl.armed
  <2>1. ctl' = [req |-> ctl.req, step |-> "a_anchor", rtp |-> ctl.rtp, armed |-> ctl.armed]
    BY <1>1, <1>8, CtlGoes DEF Receiver!PurgeArm
  <2> QED
    BY <1>1, <1>8, <2>1, GatesGo DEF Receiver!PurgeArm, Receiver!Steps, GateProgress
<1> QED
  BY <1>2, <1>3, <1>4, <1>5, <1>6, <1>7, <1>8

\* The steps that arm the window.
LEMMA GatesArmed ==
  ASSUME GateInv,
         \/ (Receiver!AnchorGates /\ gates.arm) \/ Receiver!JumpArm
         \/ Receiver!PurgeArm /\ ~ctl.armed
  PROVE  GateInv'
<1>1. GateFields /\ GateProgress /\ GateBlanket
  BY DEF GateInv
<1>2. /\ ctl.step \in {"a_gates", "b_gates", "p_gates"}
      /\ gates' = Receiver!GatesAt(gates, ctl.rtp)
      /\ excuse' = excuse \cup Receiver!Excuses(ctl.rtp)
      /\ UNCHANGED <<sender, sock, feed>>
  BY DEF Receiver!AnchorGates, Receiver!JumpArm, Receiver!PurgeArm
<1>3. PICK s \in {"a_open", "a_anchor"}, a \in {TRUE, ctl.armed} :
        /\ ctl' = [req |-> ctl.req, step |-> s, rtp |-> ctl.rtp, armed |-> a]
        /\ s = "a_anchor" => ctl.step = "p_gates"
  <2>1. CASE Receiver!PurgeArm
    BY <1>1, <2>1, CtlGoes DEF Receiver!PurgeArm
  <2>2. CASE (Receiver!AnchorGates /\ gates.arm) \/ Receiver!JumpArm
    <3>1. ctl' = [ctl EXCEPT !.step = "a_open", !.armed = TRUE]
      BY <2>2 DEF Receiver!AnchorGates, Receiver!JumpArm
    <3>2. ctl' = [req |-> ctl.req, step |-> "a_open", rtp |-> ctl.rtp, armed |-> TRUE]
      BY <1>1, <3>1 DEF GateFields
    <3> QED
      BY <3>2
  <2> QED
    BY <2>1, <2>2
<1>4. /\ gates' = [all |-> gates.all, before |-> ctl.rtp, before_valid |-> TRUE,
                   above_valid |-> TRUE, arm |-> FALSE, closed |-> gates.closed,
                   armed |-> sender.ep]
      /\ GateOrder' /\ GateOld' /\ GateFresh'
  BY <1>2, GatesArm
<1>5. GateFields'
  BY <1>1, <1>2, <1>3, <1>4 DEF GateFields, Receiver!Steps
<1>6. GateProgress'
  BY <1>1, <1>2, <1>3, <1>4 DEF GateFields, GateProgress
<1>7. GateBlanket'
  BY <1>1, <1>2, <1>3, <1>4 DEF GateBlanket, GateProgress
<1> QED
  BY <1>4, <1>5, <1>6, <1>7 DEF GateInv

\* audio_receiver_seek_flush opens every gate, then shuts the blanket gate.
LEMMA GatesFlush ==
  ASSUME GateInv, Receiver!FlushReset \/ Receiver!FlushClose
  PROVE  GateInv'
<1>1. GateFields /\ GateProgress /\ GateBlanket /\ GateOrder
  BY DEF GateInv
<1>2. CASE Receiver!FlushReset
  <2>1. gates' = [all |-> FALSE, before |-> gates.before, before_valid |-> FALSE,
                  above_valid |-> FALSE, arm |-> FALSE, closed |-> 0,
                  armed |-> gates.armed]
    <3>1. PICK g : g = gates
      OBVIOUS
    <3>2. g = [all |-> g.all, before |-> g.before,
               before_valid |-> g.before_valid, above_valid |-> g.above_valid,
               arm |-> g.arm, closed |-> g.closed, armed |-> g.armed]
      BY <1>1, <3>1 DEF GateFields
    <3>3. gates' = [g EXCEPT !.before_valid = FALSE, !.above_valid = FALSE,
                             !.arm = FALSE, !.all = FALSE, !.closed = 0]
      BY <1>2, <3>1 DEF Receiver!FlushReset
    <3> QED
      BY <3>1, <3>2, <3>3
  <2>2. ctl' = [req |-> ctl.req, step |-> "f_close", rtp |-> ctl.rtp, armed |-> ctl.armed]
    BY <1>1, <1>2, CtlGoes DEF Receiver!FlushReset
  <2>3. ctl.step = "f_reset" /\ UNCHANGED <<sender, sock, feed, excuse>>
    BY <1>2 DEF Receiver!FlushReset
  <2>4. GateFields'
    BY <1>1, <2>1, <2>2, <2>3 DEF GateFields, Receiver!Steps
  <2>5. GateProgress'
    BY <1>1, <2>1, <2>2, <2>3 DEF GateFields, GateProgress
  <2>6. GateBlanket' /\ GateOrder' /\ GateOld' /\ GateFresh'
    BY <1>1, <2>1, <2>3 DEF GateBlanket, GateOrder, GateOld, GateFresh, Held
  <2> QED
    BY <2>4, <2>5, <2>6 DEF GateInv
<1>3. CASE Receiver!FlushClose
  <2>1. gates' = [all |-> TRUE, before |-> gates.before,
                  before_valid |-> gates.before_valid, above_valid |-> FALSE,
                  arm |-> TRUE, closed |-> sender.ep, armed |-> gates.armed]
    <3>1. PICK g : g = gates
      OBVIOUS
    <3>2. g = [all |-> g.all, before |-> g.before,
               before_valid |-> g.before_valid, above_valid |-> g.above_valid,
               arm |-> g.arm, closed |-> g.closed, armed |-> g.armed]
      BY <1>1, <3>1 DEF GateFields
    <3>3. gates' = [g EXCEPT !.arm = TRUE, !.all = TRUE, !.closed = sender.ep]
      BY <1>3, <3>1 DEF Receiver!FlushClose, Receiver!BlanketClosed
    <3>4. g.above_valid = FALSE
      BY <1>1, <1>3, <3>1 DEF GateFields, GateProgress, Receiver!FlushClose
    <3> QED
      BY <3>1, <3>2, <3>3, <3>4
  <2>2. ctl' = [req |-> "none", step |-> "idle", rtp |-> 0, armed |-> FALSE]
    BY <1>3 DEF Receiver!FlushClose, Receiver!Done, Receiver!NoRequest
  <2>3. ctl.step = "f_close" /\ UNCHANGED <<sender, sock, feed>>
    BY <1>3 DEF Receiver!FlushClose
  <2>4. GateFields'
    BY <1>1, <2>1, <2>2, <2>3 DEF GateFields, Receiver!Steps
  <2>5. GateProgress'
    BY <1>1, <2>1, <2>2, <2>3 DEF GateFields, GateProgress
  <2>6. GateBlanket' /\ GateOrder' /\ GateOld' /\ GateFresh'
    BY <1>1, <2>1, <2>3 DEF GateFields, GateProgress, GateBlanket, GateOrder, GateOld,
       GateFresh, Held
  <2> QED
    BY <2>4, <2>5, <2>6 DEF GateInv
<1> QED
  BY <1>2, <1>3

\* The blanket gate opens: the window behind it is the anchor's.
LEMMA GatesOpen ==
  ASSUME GateInv, Receiver!AnchorOpen
  PROVE  GateInv'
<1>1. GateFields /\ GateProgress /\ GateBlanket /\ GateOrder /\ GateOld /\ GateFresh
  BY DEF GateInv
<1>2. gates' = [all |-> FALSE, before |-> gates.before,
                before_valid |-> gates.before_valid, above_valid |-> gates.above_valid,
                arm |-> gates.arm, closed |-> gates.closed, armed |-> gates.armed]
  <2>1. PICK g : g = gates
    OBVIOUS
  <2>2. g = [all |-> g.all, before |-> g.before,
             before_valid |-> g.before_valid, above_valid |-> g.above_valid,
             arm |-> g.arm, closed |-> g.closed, armed |-> g.armed]
    BY <1>1, <2>1 DEF GateFields
  <2>3. gates' = [g EXCEPT !.all = FALSE]
    BY <2>1 DEF Receiver!AnchorOpen
  <2> QED
    BY <2>1, <2>2, <2>3
<1>3. ctl' = [req |-> ctl.req, step |-> "p_peek", rtp |-> ctl.rtp, armed |-> ctl.armed]
  BY <1>1, CtlGoes DEF Receiver!AnchorOpen
<1>4. ctl.step = "a_open" /\ UNCHANGED <<sender, sock, feed, excuse>>
  BY DEF Receiver!AnchorOpen
<1>5. GateFields'
  BY <1>1, <1>2, <1>3, <1>4 DEF GateFields, Receiver!Steps
<1>6. GateProgress'
  BY <1>1, <1>2, <1>3, <1>4 DEF GateFields, GateProgress
<1>7. GateBlanket' /\ GateOrder'
  BY <1>1, <1>2, <1>4 DEF GateProgress, GateBlanket, GateOrder, Held
<1>8. GateOld'
  BY <1>1, <1>2, <1>4 DEF GateOld, OldBelow, OldAbove, Held, AtGates, Receiver!UpperGate
<1>9. GateFresh'
  <2>1. CASE gates.all
    <3>1. gates.before = ctl.rtp /\ ctl.rtp = sender.pos
      BY <1>1, <1>4, <2>1 DEF GateProgress, GateBlanket
    <3>2. sender.next <= gates.before + gate_window
      BY <1>1, <3>1, SpeakerAssumption DEF SpeakerAssumption, GateFields, GateProgress
    <3> QED
      BY <1>2, <1>4, <3>2 DEF GateFresh, FreshToCome, Receiver!UpperGate
  <2>2. CASE ~gates.all
    BY <1>1, <1>2, <1>4, <2>2 DEF GateFresh, FreshToCome, AtGates, Receiver!UpperGate
  <2> QED
    BY <2>1, <2>2
<1> QED
  BY <1>5, <1>6, <1>7, <1>8, <1>9 DEF GateInv

\* The sender sends its next frame.
LEMMA GatesSend ==
  ASSUME GateInv, Receiver!Send
  PROVE  GateInv'
<1>1. GateFields /\ GateProgress /\ GateBlanket /\ GateOrder /\ GateOld /\ GateFresh
  BY DEF GateInv
<1>2. /\ sock' = Append(sock, [ep |-> sender.ep, ts |-> sender.next])
      /\ sender.next - sender.pos < MaxLead
      /\ UNCHANGED <<feed, gates, ctl, excuse>>
  BY DEF Receiver!Send
<1>3. sender' = [ep |-> sender.ep, next |-> sender.next + 1, pos |-> sender.pos,
                 playing |-> sender.playing, owes |-> sender.owes]
  <2>1. PICK x : x = sender
    OBVIOUS
  <2>2. x = [ep |-> x.ep, next |-> x.next, pos |-> x.pos, playing |-> x.playing,
             owes |-> x.owes]
    BY <1>1, <2>1 DEF GateFields
  <2>3. sender' = [x EXCEPT !.next = x.next + 1]
    BY <2>1 DEF Receiver!Send
  <2> QED
    BY <2>1, <2>2, <2>3
<1>4. sender.ep \in Nat /\ sender.next \in Nat /\ sender.pos \in Nat /\ MaxLead \in Nat
  BY <1>1, SpeakerAssumption DEF GateFields, SpeakerAssumption
<1>5. /\ sock' \in Seq([ep : Nat, ts : Nat])
      /\ Len(sock') = Len(sock) + 1 /\ DOMAIN sock' = 1 .. (Len(sock) + 1)
      /\ \A i \in DOMAIN sock : sock'[i] = sock[i]
      /\ sock'[Len(sock) + 1].ep = sender.ep /\ sock'[Len(sock) + 1].ts = sender.next
  BY <1>1, <1>2, <1>4, SockGrows
<1>6. Len(sock) \in Nat /\ DOMAIN sock = 1 .. Len(sock)
      /\ \A i \in DOMAIN sock : sock[i].ep \in Nat /\ sock[i].ts \in Nat
  BY <1>1, SockIs
<1>7. GateFields'
  BY <1>1, <1>2, <1>3, <1>4, <1>5, SMTT(30) DEF GateFields
<1>8. GateProgress' /\ GateBlanket'
  BY <1>1, <1>2, <1>3, <1>4 DEF GateProgress, GateBlanket
<1>9. ASSUME NEW i \in DOMAIN sock'
      PROVE  i \in DOMAIN sock \/ i = Len(sock) + 1
  BY <1>5, <1>6
<1>10. GateOrder'
  <2>1. ASSUME NEW i \in DOMAIN sock'
        PROVE  /\ sock'[i].ep <= sender.ep
               /\ Held => feed.frame.ep <= sock'[i].ep
               /\ sock'[i].ep = sender.ep =>
                    sock'[i].ts + Len(sock') + 1 = (sender.next + 1) + i
    <3>1. CASE i \in DOMAIN sock
      <4>1. /\ sock[i].ep <= sender.ep /\ (Held => feed.frame.ep <= sock[i].ep)
            /\ sock[i].ep = sender.ep => sock[i].ts + Len(sock) + 1 = sender.next + i
        BY <1>1, <3>1 DEF GateOrder
      <4>2. /\ sock'[i].ep = sock[i].ep /\ sock'[i].ts = sock[i].ts
            /\ i \in Nat /\ sock[i].ts \in Nat
        BY <1>5, <1>6, <3>1
      <4>3. Len(sock') = Len(sock) + 1 /\ Len(sock) \in Nat
        BY <1>5, <1>6
      <4>4. sock'[i].ep <= sender.ep
        BY <4>1, <4>2
      <4>5. Held => feed.frame.ep <= sock'[i].ep
        BY <4>1, <4>2
      <4>6. ASSUME sock[i].ep = sender.ep
            PROVE  sock[i].ts + (Len(sock) + 1) + 1 = (sender.next + 1) + i
        <5>1. PICK t \in Nat, l \in Nat, k \in Nat, m \in Nat :
                t = sock[i].ts /\ l = Len(sock) /\ k = i /\ m = sender.next
          BY <1>4, <4>2, <4>3
        <5>2. t + l + 1 = m + k
          BY <4>1, <4>6, <5>1
        <5>3. t + (l + 1) + 1 = (m + 1) + k
          BY <5>2
        <5> QED
          BY <5>1, <5>3
      <4> QED
        BY <4>2, <4>3, <4>4, <4>5, <4>6
    <3>2. CASE i = Len(sock) + 1
      BY <1>1, <1>4, <1>5, <1>6, <3>2 DEF GateOrder
    <3> QED
      BY <1>9, <3>1, <3>2
  <2>2. ASSUME NEW i \in DOMAIN sock', NEW j \in DOMAIN sock', i < j
        PROVE  sock'[i].ep <= sock'[j].ep
    <3>1. i \in DOMAIN sock
      BY <1>5, <1>6, <2>2
    <3> QED
      BY <1>1, <1>5, <1>9, <2>2, <3>1 DEF GateOrder
  <2>3. /\ Held => feed.frame.ep <= sender.ep
        /\ Held /\ feed.frame.ep = sender.ep =>
             feed.frame.ts + Len(sock') + 1 = sender.next + 1
    <3>1. /\ Held => feed.frame.ep <= sender.ep
          /\ Held /\ feed.frame.ep = sender.ep =>
               feed.frame.ts + Len(sock) + 1 = sender.next
          /\ feed.frame.ts \in Nat
      BY <1>1 DEF GateOrder, GateFields
    <3>2. PICK t \in Nat, l \in Nat, n \in Nat :
            t = feed.frame.ts /\ l = Len(sock) /\ n = sender.next
      BY <1>4, <1>6, <3>1
    <3>3. t + l + 1 = n => t + (l + 1) + 1 = n + 1
      OBVIOUS
    <3>4. Len(sock') = l + 1
      BY <1>5, <3>2
    <3> QED
      BY <3>1, <3>2, <3>3, <3>4
  <2>4. sender'.ep = sender.ep /\ sender'.next = sender.next + 1 /\ Held' = Held /\ feed' = feed
    BY <1>2, <1>3 DEF Held
  <2> QED
    BY <2>1, <2>2, <2>3, <2>4 DEF GateOrder
<1>11. GateOld'
  <2>1. gates.closed <= sender.ep /\ gates.closed \in Nat
    BY <1>1 DEF GateFields, GateProgress
  <2>2. ASSUME NEW i \in DOMAIN sock', sock'[i].ep < gates.closed
        PROVE  i \in DOMAIN sock /\ sock'[i] = sock[i]
    BY <1>4, <1>5, <1>9, <2>1, <2>2
  <2>3. (OldBelow => OldBelow') /\ (OldAbove => OldAbove')
    BY <1>2, <2>2 DEF OldBelow, OldAbove, AtGates
  <2> QED
    BY <1>1, <1>2, <2>3 DEF GateOld, Held, AtGates
<1>12. GateFresh'
  <2> SUFFICES ASSUME FreshToCome PROVE FreshToCome'
    BY <1>1, <1>2, <1>3 DEF GateFresh
  <2>1. gates.before + gate_window \in Nat
    BY <1>1, SpeakerAssumption DEF GateFields, SpeakerAssumption
  <2>2. CASE sender.next <= Receiver!UpperGate(gates.before)
    <3>1. Len(sock) + 1 \in DOMAIN sock'
      BY <1>5, <1>6
    <3> QED
      BY <1>2, <1>3, <1>5, <2>2, <3>1 DEF FreshToCome
  <2>3. ASSUME NEW i \in DOMAIN sock, sock[i].ep = sender.ep,
               sock[i].ts <= Receiver!UpperGate(gates.before)
        PROVE  FreshToCome'
    <3>1. i \in DOMAIN sock' /\ sock'[i] = sock[i]
      BY <1>5, <1>6
    <3> QED
      BY <1>2, <1>3, <2>3, <3>1 DEF FreshToCome
  <2>4. CASE AtGates /\ feed.frame.ep = sender.ep
             /\ feed.frame.ts <= Receiver!UpperGate(gates.before)
    BY <1>2, <1>3, <2>4 DEF FreshToCome, AtGates
  <2> QED
    BY <2>2, <2>3, <2>4 DEF FreshToCome
<1> QED
  BY <1>7, <1>8, <1>10, <1>11, <1>12 DEF GateInv

\* What the sender changes of itself in a request, or as it plays on.
LEMMA GatesSpeak ==
  ASSUME GateInv, UNCHANGED <<sock, feed, gates, excuse>>,
         NEW e \in Nat, NEW n \in Nat, NEW p \in Nat, NEW y, NEW o,
         sender' = [ep |-> e, next |-> n, pos |-> p, playing |-> y, owes |-> o],
         NEW x, x = sender,
         \/ e = x.ep /\ n = x.next /\ p >= x.pos
         \/ e = x.ep + 1 /\ n = p,
         ctl.step = "idle",
         NEW q, NEW s \in {"idle", "a_gates", "f_buffer"}, NEW r \in Nat, NEW a,
         ctl' = [req |-> q, step |-> s, rtp |-> r, armed |-> a],
         s # "idle" => r = p,
         s = "f_buffer" => e = x.ep + 1
  PROVE  GateInv'
<1>1. GateFields /\ GateProgress /\ GateBlanket /\ GateOrder /\ GateOld /\ GateFresh
  BY DEF GateInv
<1>2. sender'.ep = e /\ sender'.next = n /\ sender'.pos = p /\ sender'.playing = y
      /\ sender'.owes = o
  OBVIOUS
<1>3. ctl'.req = q /\ ctl'.step = s /\ ctl'.rtp = r /\ ctl'.armed = a
  OBVIOUS
<1>4. GateFields'
  BY <1>1, <1>2, <1>3 DEF GateFields, Receiver!Steps
<1>5. GateProgress'
  <2>1. /\ gates.closed \in Nat /\ feed.closed \in Nat /\ gates.armed \in Nat
        /\ sender.ep \in Nat /\ sender.next \in Nat /\ sender.pos \in Nat /\ MaxLead \in Nat
    BY <1>1, SpeakerAssumption DEF SpeakerAssumption, GateFields
  <2>2. gates.closed <= sender.ep /\ feed.closed <= sender.ep /\ gates.armed <= sender.ep
        /\ sender.next <= sender.pos + MaxLead
    BY <1>1 DEF GateProgress
  <2>3. n <= p + MaxLead
    BY <2>1, <2>2
  <2>4. /\ gates.closed <= e /\ feed.closed <= e /\ gates.armed <= e
        /\ e = sender.ep + 1 => gates.closed < e /\ feed.closed < e
    BY <2>1, <2>2
  <2> QED
    BY <1>2, <1>3, <2>3, <2>4 DEF GateProgress
<1>6. GateBlanket' /\ GateOld'
  BY <1>1 DEF GateBlanket, GateOld, OldBelow, OldAbove, Held, AtGates
<1>7. GateOrder'
  <2>1. sender.ep \in Nat /\ Len(sock) \in Nat
        /\ \A i \in DOMAIN sock : sock[i].ep \in Nat
    BY <1>1, SockIs DEF GateFields
  <2>2. feed.frame.ep \in Nat
    BY <1>1 DEF GateFields
  <2>3. CASE e = sender.ep /\ n = sender.next
    BY <1>1, <1>2, <2>3 DEF GateOrder, Held
  <2>4. CASE e = sender.ep + 1
    <3>1. \A i \in DOMAIN sock :
            /\ sock[i].ep <= e /\ sock[i].ep # e
            /\ \A j \in DOMAIN sock : i < j => sock[i].ep <= sock[j].ep
            /\ Held => feed.frame.ep <= sock[i].ep
      BY <1>1, <2>1, <2>4 DEF GateOrder
    <3>2. Held => feed.frame.ep <= e /\ feed.frame.ep # e
      BY <1>1, <2>1, <2>2, <2>4 DEF GateOrder
    <3> QED
      BY <1>2, <3>1, <3>2 DEF GateOrder, Held
  <2> QED
    BY <2>3, <2>4
<1>8. GateFresh'
  <2>1. CASE e = sender.ep /\ n = sender.next
    BY <1>1, <1>2, <2>1 DEF GateFresh, FreshToCome, AtGates, Receiver!UpperGate
  <2>2. CASE e = sender.ep + 1
    BY <1>1, <1>2, <2>2 DEF GateFresh, GateProgress, GateFields
  <2> QED
    BY <2>1, <2>2
<1> QED
  BY <1>4, <1>5, <1>6, <1>7, <1>8 DEF GateInv

\* Time passes, or the sender jumps, resumes or pauses.
LEMMA GatesSender ==
  ASSUME GateInv,
         \/ Receiver!Tick \/ Receiver!SendAnchor \/ Receiver!Pause
         \/ \E pos \in Targets : Receiver!Seek(pos) \/ Receiver!ChangeTrack(pos)
  PROVE  GateInv'
<1>1. PICK x : x = sender
  OBVIOUS
<1>2. PICK c : c = ctl
  OBVIOUS
<1>3. /\ x = [ep |-> x.ep, next |-> x.next, pos |-> x.pos, playing |-> x.playing,
              owes |-> x.owes]
      /\ c = [req |-> c.req, step |-> c.step, rtp |-> c.rtp, armed |-> c.armed]
      /\ x.ep \in Nat /\ x.next \in Nat /\ x.pos \in Nat /\ c.rtp \in Nat
  BY <1>1, <1>2 DEF GateInv, GateFields
<1>4. x.ep + 1 \in Nat /\ x.pos + 1 \in Nat /\ x.pos + 1 >= x.pos /\ x.pos >= x.pos
      /\ \A pos \in Targets : pos \in Nat
  BY <1>3, SpeakerAssumption DEF SpeakerAssumption
<1>5. CASE Receiver!Tick
  <2>1. /\ sender' = [x EXCEPT !.pos = IF x.playing THEN x.pos + 1 ELSE x.pos]
        /\ c.step = "idle" /\ UNCHANGED <<sock, feed, gates, excuse>> /\ ctl' = c
    BY <1>1, <1>2, <1>5 DEF Receiver!Tick
  <2>2. PICK p \in {x.pos, x.pos + 1} :
          sender' = [ep |-> x.ep, next |-> x.next, pos |-> p, playing |-> x.playing,
                     owes |-> x.owes]
    BY <1>3, <2>1
  <2>3. p \in Nat /\ p >= x.pos
    BY <1>3, <1>4, <2>2
  <2>4. ctl' = [req |-> c.req, step |-> "idle", rtp |-> c.rtp, armed |-> c.armed]
    BY <1>3, <2>1
  <2> QED
    BY <1>1, <1>2, <1>3, <2>1, <2>2, <2>3, <2>4, GatesSpeak
<1>6. CASE Receiver!Pause
  <2>1. /\ sender' = [x EXCEPT !.playing = FALSE]
        /\ c.step = "idle" /\ UNCHANGED <<sock, feed, gates, excuse>> /\ ctl' = c
    BY <1>1, <1>2, <1>6 DEF Receiver!Pause
  <2>2. sender' = [ep |-> x.ep, next |-> x.next, pos |-> x.pos, playing |-> FALSE,
                   owes |-> x.owes]
    BY <1>3, <2>1
  <2>3. ctl' = [req |-> c.req, step |-> "idle", rtp |-> c.rtp, armed |-> c.armed]
    BY <1>3, <2>1
  <2> QED
    BY <1>1, <1>2, <1>3, <1>4, <2>1, <2>2, <2>3, GatesSpeak
<1>7. CASE Receiver!SendAnchor
  <2>1. /\ sender' = [x EXCEPT !.playing = TRUE, !.owes = "none"]
        /\ c.step = "idle" /\ UNCHANGED <<sock, feed, gates, excuse>>
    BY <1>1, <1>2, <1>7 DEF Receiver!SendAnchor, Receiver!Request
  <2>2. sender' = [ep |-> x.ep, next |-> x.next, pos |-> x.pos, playing |-> TRUE,
                   owes |-> "none"]
    BY <1>3, <2>1
  <2>3. PICK q \in {"seek", "resume"}, p \in Nat :
          /\ ctl' = [req |-> q, step |-> "a_gates", rtp |-> p, armed |-> FALSE]
          /\ p = x.pos
    BY <1>1, <1>3, <1>7 DEF Receiver!SendAnchor, Receiver!Request
  <2>4. /\ sender' = [ep |-> x.ep, next |-> x.next, pos |-> p, playing |-> TRUE,
                      owes |-> "none"]
        /\ p >= x.pos /\ x.ep \in Nat /\ x.next \in Nat
    BY <1>3, <1>4, <2>2, <2>3
  <2>5. ctl.step = "idle" /\ UNCHANGED <<sock, feed, gates, excuse>>
    BY <1>2, <2>1
  <2> QED
    BY <1>1, <2>3, <2>4, <2>5, GatesSpeak
<1>8. ASSUME NEW pos \in Targets, Receiver!Seek(pos)  PROVE GateInv'
  <2>1. /\ sender' = [x EXCEPT !.ep = x.ep + 1, !.next = pos, !.pos = pos,
                               !.playing = FALSE, !.owes = "seek"]
        /\ c.step = "idle" /\ UNCHANGED <<sock, feed, gates, excuse>>
    BY <1>1, <1>2, <1>8 DEF Receiver!Seek, Receiver!Request
  <2>2. PICK e \in Nat :
          /\ sender' = [ep |-> e, next |-> pos, pos |-> pos, playing |-> FALSE,
                        owes |-> "seek"]
          /\ e = x.ep + 1
    BY <1>3, <1>4, <2>1
  <2>3. ctl' = [req |-> "seek", step |-> "f_buffer", rtp |-> pos, armed |-> FALSE]
    BY <1>8 DEF Receiver!Seek, Receiver!Request
  <2>4. pos \in Nat /\ ctl.step = "idle" /\ UNCHANGED <<sock, feed, gates, excuse>>
    BY <1>2, <1>4, <2>1
  <2> QED
    BY <1>1, <2>2, <2>3, <2>4, GatesSpeak
<1>9. ASSUME NEW pos \in Targets, Receiver!ChangeTrack(pos)  PROVE GateInv'
  <2>1. /\ sender' = [x EXCEPT !.ep = x.ep + 1, !.next = pos, !.pos = pos,
                               !.playing = TRUE]
        /\ c.step = "idle" /\ UNCHANGED <<sock, feed, gates, excuse>>
    BY <1>1, <1>2, <1>9 DEF Receiver!ChangeTrack, Receiver!Request
  <2>2. PICK e \in Nat :
          /\ sender' = [ep |-> e, next |-> pos, pos |-> pos, playing |-> TRUE,
                        owes |-> x.owes]
          /\ e = x.ep + 1
    BY <1>3, <1>4, <2>1
  <2>3. ctl' = [req |-> "change", step |-> "a_gates", rtp |-> pos, armed |-> FALSE]
    BY <1>9 DEF Receiver!ChangeTrack, Receiver!Request
  <2>4. pos \in Nat /\ ctl.step = "idle" /\ UNCHANGED <<sock, feed, gates, excuse>>
    BY <1>2, <1>4, <2>1
  <2> QED
    BY <1>1, <2>2, <2>3, <2>4, GatesSpeak
<1> QED
  BY <1>5, <1>6, <1>7, <1>8, <1>9

\* The record of the TCP task once it is at another place with its frame.
LEMMA FeedGoes ==
  ASSUME GateFields, NEW s, Receiver!FeedTo(s)
  PROVE  feed' = [at |-> s, frame |-> [ep |-> feed.frame.ep, ts |-> feed.frame.ts],
                  closed |-> feed.closed]
<1>1. PICK f : f = feed
  OBVIOUS
<1>2. f = [at |-> f.at, frame |-> [ep |-> f.frame.ep, ts |-> f.frame.ts],
           closed |-> f.closed]
  BY <1>1 DEF GateFields
<1>3. feed' = [f EXCEPT !.at = s]
  BY <1>1 DEF Receiver!FeedTo
<1> QED
  BY <1>1, <1>2, <1>3

\* A frame is stopped by a gate, or queued: the TCP task comes for the next one.
LEMMA GatesDrop ==
  ASSUME GateInv, feed' = Receiver!NoFrame, UNCHANGED <<sender, sock, gates, ctl, excuse>>,
         \/ feed.at = "lower" /\ Receiver!BelowGate
         \/ feed.at = "upper" /\ Receiver!AboveGate
         \/ feed.at = "queue"
  PROVE  GateInv'
<1>1. GateFields /\ GateProgress /\ GateBlanket /\ GateOrder /\ GateOld /\ GateFresh
  BY DEF GateInv
<1>2. feed' = [at |-> "recv", frame |-> [ep |-> 0, ts |-> 0], closed |-> 0]
  BY DEF Receiver!NoFrame
<1>3. GateFields'
  BY <1>1, <1>2 DEF GateFields
<1>4. GateProgress'
  <2>1. sender.ep \in Nat /\ gates.closed \in Nat /\ gates.closed <= sender.ep
        /\ (ctl.step \in {"f_buffer", "f_reset", "f_close"} => gates.closed < sender.ep)
    BY <1>1 DEF GateFields, GateProgress
  <2>2. 0 <= sender.ep /\ (ctl.step \in {"f_buffer", "f_reset", "f_close"} => 0 < sender.ep)
    BY <2>1
  <2> QED
    BY <1>1, <1>2, <2>2 DEF GateProgress
<1>5. GateBlanket' /\ GateOrder'
  BY <1>1, <1>2 DEF GateBlanket, GateOrder, Held
<1>6. GateOld'
  BY <1>1, <1>2 DEF GateOld, OldBelow, OldAbove, Held, AtGates
<1>7. GateFresh'
  <2> SUFFICES ASSUME FreshToCome, gates.above_valid PROVE FreshToCome'
    BY <1>1 DEF GateFresh
  <2>1. CASE sender.next <= Receiver!UpperGate(gates.before)
    BY <2>1 DEF FreshToCome
  <2>2. CASE \E i \in DOMAIN sock :
               sock[i].ep = sender.ep /\ sock[i].ts <= Receiver!UpperGate(gates.before)
    BY <2>2 DEF FreshToCome
  <2>3. CASE AtGates /\ feed.frame.ep = sender.ep
             /\ feed.frame.ts <= Receiver!UpperGate(gates.before)
    <3>1. /\ feed.frame.ts \in Nat /\ gates.before \in Nat /\ gate_window \in Nat
          /\ sender.next \in Nat /\ sender.ep \in Nat
      BY <1>1, SpeakerAssumption DEF SpeakerAssumption, GateFields
    <3>2. feed.at # "queue" /\ ~(feed.frame.ts > Receiver!UpperGate(gates.before))
      BY <2>3, <3>1 DEF AtGates, Receiver!UpperGate
    <3>3. feed.at = "lower" /\ feed.frame.ts < gates.before
      BY <3>2 DEF Receiver!AboveGate, Receiver!BelowGate
    <3>4. feed.frame.ts + 1 <= Receiver!UpperGate(gates.before)
      BY <3>1, <3>3 DEF Receiver!UpperGate
    <3>5. feed.frame.ts + Len(sock) + 1 = sender.next
      BY <1>1, <2>3, <3>3 DEF GateOrder, Held
    <3>6. CASE Len(sock) = 0
      BY <3>1, <3>4, <3>5, <3>6 DEF FreshToCome
    <3>7. CASE Len(sock) # 0
      <4>1. 1 \in DOMAIN sock /\ sock[1].ep \in Nat /\ sock[1].ts \in Nat /\ Len(sock) \in Nat
        BY <1>1, <3>7, SockIs
      <4>2. /\ sock[1].ep <= sender.ep /\ feed.frame.ep <= sock[1].ep
            /\ sock[1].ep = sender.ep => sock[1].ts + Len(sock) + 1 = sender.next + 1
        BY <1>1, <3>3, <4>1 DEF GateOrder, Held
      <4>3. sock[1].ep = sender.ep
        BY <2>3, <3>1, <4>1, <4>2
      <4>4. PICK t \in Nat, f \in Nat, l \in Nat, n \in Nat :
              t = sock[1].ts /\ f = feed.frame.ts /\ l = Len(sock) /\ n = sender.next
        BY <3>1, <4>1
      <4>5. t + l + 1 = n + 1 /\ f + l + 1 = n
        BY <3>5, <4>2, <4>3, <4>4
      <4>6. t = f + 1
        BY <4>5
      <4> QED
        BY <3>4, <4>1, <4>3, <4>4, <4>6 DEF FreshToCome
    <3> QED
      BY <3>6, <3>7
  <2> QED
    BY <2>1, <2>2, <2>3 DEF FreshToCome
<1> QED
  BY <1>3, <1>4, <1>5, <1>6, <1>7 DEF GateInv

\* A frame passes a gate.
LEMMA GatesPass ==
  ASSUME GateInv,
         \/ Receiver!FeedLower /\ ~Receiver!BelowGate
         \/ Receiver!FeedUpper /\ ~Receiver!AboveGate
  PROVE  GateInv'
<1>1. GateFields /\ GateProgress /\ GateBlanket /\ GateOrder /\ GateOld /\ GateFresh
  BY DEF GateInv
<1>2. PICK s \in {"disarm_lower", "upper", "disarm_upper", "queue"} :
        /\ Receiver!FeedTo(s) /\ feed.at \in {"lower", "upper"}
        /\ s = "disarm_lower" => feed.at = "lower" /\ ~Receiver!BelowGate
        /\ s = "upper" => feed.at = "lower" /\ ~gates.before_valid
        /\ s = "disarm_upper" => feed.at = "upper" /\ ~Receiver!AboveGate
        /\ s = "queue" => feed.at = "upper" /\ ~gates.above_valid
        /\ s \in {"disarm_upper", "queue"} => ~Receiver!AboveGate
        /\ UNCHANGED <<sender, sock, gates, ctl, excuse>>
  BY DEF Receiver!FeedLower, Receiver!FeedUpper
<1>3. feed' = [at |-> s, frame |-> [ep |-> feed.frame.ep, ts |-> feed.frame.ts],
               closed |-> feed.closed]
  BY <1>1, <1>2, FeedGoes
<1>4. /\ feed'.at = s /\ feed'.closed = feed.closed
      /\ feed'.frame.ep = feed.frame.ep /\ feed'.frame.ts = feed.frame.ts
  BY <1>3
<1>5. Held /\ Held' /\ AtGates /\ (AtGates' <=> s # "queue")
  BY <1>2, <1>4 DEF Held, AtGates
<1>6. GateFields'
  BY <1>1, <1>2, <1>3 DEF GateFields
<1>7. GateProgress' /\ GateBlanket'
  BY <1>1, <1>2, <1>4 DEF GateProgress, GateBlanket
<1>8. GateOrder'
  BY <1>1, <1>2, <1>4, <1>5 DEF GateOrder
<1>9. GateOld'
  <2> SUFFICES ASSUME excuse = {}, gates.closed # 0, ~gates.arm PROVE GateOld'
    BY <1>2 DEF GateOld
  <2>1. CASE feed.frame.ep < gates.closed
    <3>1. /\ feed.closed = gates.closed
          /\ \/ OldBelow /\ feed.at = "lower" /\ Receiver!BelowGate
             \/ OldAbove /\ Receiver!AboveGate
      BY <1>1, <1>5, <2>1 DEF GateOld, OldBelow, OldAbove, Receiver!BelowGate,
         Receiver!AboveGate
    <3>2. feed.at = "lower" /\ s \in {"disarm_lower", "upper"} /\ ~Receiver!BelowGate
      BY <1>2, <3>1 DEF Receiver!BelowGate
    <3>3. OldAbove
      BY <3>1, <3>2
    <3>4. OldAbove'
      BY <1>2, <1>4, <1>5, <3>3 DEF OldAbove
    <3> QED
      BY <1>2, <1>4, <1>5, <3>1, <3>2, <3>4 DEF GateOld
  <2>2. CASE ~(feed.frame.ep < gates.closed)
    <3>1. (OldBelow => OldBelow') /\ (OldAbove => OldAbove')
      BY <1>2, <1>4, <1>5, <2>2 DEF OldBelow, OldAbove
    <3> QED
      BY <1>1, <1>2, <1>4, <1>5, <2>2, <3>1 DEF GateOld
  <2> QED
    BY <2>1, <2>2
<1>10. GateFresh'
  <2>1. CASE s = "queue"
    BY <1>2, <2>1 DEF GateFresh
  <2>2. CASE s # "queue"
    BY <1>1, <1>2, <1>4, <1>5, <2>2 DEF GateFresh, FreshToCome
  <2> QED
    BY <2>1, <2>2
<1> QED
  BY <1>6, <1>7, <1>8, <1>9, <1>10 DEF GateInv

\* The gate disarms itself: no frame of an earlier stream can still be behind
\* the one that passed it.
LEMMA GatesDisarm ==
  ASSUME GateInv, Receiver!FeedDisarmLower \/ Receiver!FeedDisarmUpper
  PROVE  GateInv'
<1>1. GateFields /\ GateProgress /\ GateBlanket /\ GateOrder /\ GateOld /\ GateFresh
  BY DEF GateInv
<1>2. PICK g : g = gates
  OBVIOUS
<1>3. g = [all |-> g.all, before |-> g.before,
           before_valid |-> g.before_valid, above_valid |-> g.above_valid,
           arm |-> g.arm, closed |-> g.closed, armed |-> g.armed]
  BY <1>1, <1>2 DEF GateFields
<1>4. PICK s \in {"upper", "queue"}, b \in BOOLEAN, a \in BOOLEAN :
        /\ gates' = [all |-> g.all, before |-> g.before, before_valid |-> b,
                     above_valid |-> a, arm |-> g.arm, closed |-> g.closed,
                     armed |-> g.armed]
        /\ Receiver!FeedTo(s) /\ UNCHANGED <<sender, sock, ctl, excuse>>
        /\ s = "upper" => feed.at = "disarm_lower" /\ a = g.above_valid
        /\ s = "queue" => feed.at = "disarm_upper" /\ ~a
        /\ a => g.above_valid
  <2>1. g.before_valid \in BOOLEAN /\ g.above_valid \in BOOLEAN
    BY <1>1, <1>2 DEF GateFields
  <2>2. CASE Receiver!FeedDisarmLower
    <3>1. gates' = [g EXCEPT !.before_valid = FALSE]
      BY <1>2, <2>2 DEF Receiver!FeedDisarmLower
    <3>2. gates' = [all |-> g.all, before |-> g.before, before_valid |-> FALSE,
                    above_valid |-> g.above_valid, arm |-> g.arm, closed |-> g.closed,
                    armed |-> g.armed]
      BY <1>3, <3>1
    <3>3. /\ Receiver!FeedTo("upper") /\ UNCHANGED <<sender, sock, ctl, excuse>>
          /\ feed.at = "disarm_lower"
      BY <2>2 DEF Receiver!FeedDisarmLower
    <3> QED
      BY <2>1, <3>2, <3>3
  <2>3. CASE Receiver!FeedDisarmUpper
    <3>1. gates' = [g EXCEPT !.above_valid = FALSE]
      BY <1>2, <2>3 DEF Receiver!FeedDisarmUpper
    <3>2. gates' = [all |-> g.all, before |-> g.before, before_valid |-> g.before_valid,
                    above_valid |-> FALSE, arm |-> g.arm, closed |-> g.closed,
                    armed |-> g.armed]
      BY <1>3, <3>1
    <3>3. /\ Receiver!FeedTo("queue") /\ UNCHANGED <<sender, sock, ctl, excuse>>
          /\ feed.at = "disarm_upper"
      BY <2>3 DEF Receiver!FeedDisarmUpper
    <3> QED
      BY <2>1, <3>2, <3>3
  <2> QED
    BY <2>2, <2>3
<1>5. feed' = [at |-> s, frame |-> [ep |-> feed.frame.ep, ts |-> feed.frame.ts],
               closed |-> feed.closed]
  BY <1>1, <1>4, FeedGoes
<1>6. /\ feed'.at = s /\ feed'.closed = feed.closed
      /\ feed'.frame.ep = feed.frame.ep /\ feed'.frame.ts = feed.frame.ts
  BY <1>5
<1>7. Held /\ Held' /\ AtGates /\ (AtGates' <=> s # "queue")
  BY <1>4, <1>6 DEF Held, AtGates
<1>8. /\ gates'.all = gates.all /\ gates'.before = gates.before /\ gates'.arm = gates.arm
      /\ gates'.closed = gates.closed /\ gates'.armed = gates.armed
      /\ gates'.before_valid = b /\ gates'.above_valid = a
  BY <1>2, <1>4
<1>9. GateFields'
  BY <1>1, <1>2, <1>4, <1>5 DEF GateFields
<1>10. GateProgress' /\ GateBlanket'
  BY <1>1, <1>2, <1>4, <1>6, <1>8 DEF GateProgress, GateBlanket
<1>11. GateOrder'
  BY <1>1, <1>4, <1>6, <1>7 DEF GateOrder
<1>12. GateOld'
  <2> SUFFICES ASSUME excuse = {}, gates.closed # 0, ~gates.arm PROVE GateOld'
    BY <1>4, <1>8 DEF GateOld
  <2>1. ASSUME feed.frame.ep < gates.closed
        PROVE  OldAbove /\ feed.at = "disarm_lower" /\ feed.closed = gates.closed
    BY <1>1, <1>4, <1>7, <2>1 DEF GateOld, OldBelow
  <2>2. CASE feed.frame.ep < gates.closed
    <3>1. s = "upper" /\ a = gates.above_valid
      BY <1>2, <1>4, <2>1, <2>2
    <3>2. OldAbove'
      BY <1>4, <1>6, <1>7, <1>8, <2>1, <2>2, <3>1 DEF OldAbove
    <3> QED
      BY <1>6, <1>7, <1>8, <2>1, <2>2, <3>1, <3>2 DEF GateOld
  <2>3. CASE ~(feed.frame.ep < gates.closed)
    <3>1. ASSUME NEW i \in DOMAIN sock PROVE ~(sock[i].ep < gates.closed)
      <4>1. feed.frame.ep <= sock[i].ep
        BY <1>1, <1>7, <3>1 DEF GateOrder
      <4>2. feed.frame.ep \in Nat /\ sock[i].ep \in Nat /\ gates.closed \in Nat
        BY <1>1, <3>1, SockIs DEF GateFields
      <4> QED
        BY <2>3, <4>1, <4>2
    <3>2. OldBelow'
      BY <1>4, <1>6, <1>8, <2>3, <3>1 DEF OldBelow
    <3> QED
      BY <1>6, <1>8, <2>3, <3>2 DEF GateOld
  <2> QED
    BY <2>2, <2>3
<1>13. GateFresh'
  <2>1. CASE s = "queue"
    BY <1>4, <1>8, <2>1 DEF GateFresh
  <2>2. CASE s # "queue"
    <3>1. FreshToCome => FreshToCome'
      BY <1>4, <1>6, <1>7, <1>8, <2>2 DEF FreshToCome
    <3> QED
      BY <1>1, <1>2, <1>4, <1>8, <3>1 DEF GateFresh
  <2> QED
    BY <2>1, <2>2
<1> QED
  BY <1>9, <1>10, <1>11, <1>12, <1>13 DEF GateInv

\* The next frame comes from the socket, to meet the blanket gate.
LEMMA GatesRecv ==
  ASSUME GateInv, Receiver!FeedRecv
  PROVE  GateInv'
<1>1. GateFields /\ GateProgress /\ GateBlanket /\ GateOrder /\ GateOld /\ GateFresh
  BY DEF GateInv
<1>2. /\ feed.at = "recv" /\ sock # << >> /\ sock' = Tail(sock)
      /\ UNCHANGED <<sender, gates, ctl, excuse>>
  BY DEF Receiver!FeedRecv
<1>3. /\ sock' \in Seq([ep : Nat, ts : Nat])
      /\ 1 \in DOMAIN sock /\ Head(sock) = sock[1]
      /\ Len(sock') = Len(sock) - 1 /\ DOMAIN sock' = 1 .. (Len(sock) - 1)
      /\ \A i \in DOMAIN sock' : i + 1 \in DOMAIN sock /\ sock'[i] = sock[i + 1]
  BY <1>1, <1>2, SockShrinks
<1>4. /\ Len(sock) \in Nat /\ DOMAIN sock = 1 .. Len(sock)
      /\ \A i \in DOMAIN sock : sock[i].ep \in Nat /\ sock[i].ts \in Nat
  BY <1>1, SockIs
<1>5. /\ gates.closed \in Nat /\ sender.ep \in Nat /\ sender.next \in Nat
      /\ gates.closed <= sender.ep
      /\ ctl.step \in {"f_buffer", "f_reset", "f_close"} => gates.closed < sender.ep
  BY <1>1 DEF GateFields, GateProgress
\* the order of what is left, and the frame that was taken
<1>6. ASSUME NEW i \in DOMAIN sock'
      PROVE  /\ sock'[i].ep <= sender.ep /\ sock[1].ep <= sock'[i].ep
             /\ \A j \in DOMAIN sock' : i < j => sock'[i].ep <= sock'[j].ep
             /\ sock'[i].ep = sender.ep => sock'[i].ts + Len(sock') + 1 = sender.next + i
  <2>1. i + 1 \in DOMAIN sock /\ sock'[i] = sock[i + 1] /\ i \in Nat /\ 1 < i + 1
    BY <1>3, <1>4
  <2>2. sock[i + 1].ep <= sender.ep /\ sock[1].ep <= sock[i + 1].ep
    BY <1>1, <1>3, <2>1 DEF GateOrder
  <2>3. ASSUME NEW j \in DOMAIN sock', i < j PROVE sock'[i].ep <= sock'[j].ep
    <3>1. j + 1 \in DOMAIN sock /\ sock'[j] = sock[j + 1] /\ i + 1 < j + 1
      BY <1>3, <1>4, <2>1, <2>3
    <3> QED
      BY <1>1, <2>1, <3>1 DEF GateOrder
  <2>4. ASSUME sock[i + 1].ep = sender.ep
        PROVE  sock[i + 1].ts + Len(sock') + 1 = sender.next + i
    <3>1. sock[i + 1].ts + Len(sock) + 1 = sender.next + (i + 1)
      BY <1>1, <2>1, <2>4 DEF GateOrder
    <3>2. PICK t \in Nat, l \in Nat, k \in Nat, n \in Nat :
            t = sock[i + 1].ts /\ l = Len(sock') /\ k = i /\ n = sender.next
      <4>1. Len(sock') \in Nat
        BY <1>3, LenProperties
      <4>2. sock[i + 1].ts \in Nat
        BY <1>4, <2>1
      <4> QED
        BY <1>5, <2>1, <4>1, <4>2
    <3>3. Len(sock) = l + 1
      BY <1>3, <1>4, <3>2
    <3>4. t + (l + 1) + 1 = n + (k + 1)
      BY <3>1, <3>2, <3>3
    <3>5. t + l + 1 = n + k
      BY <3>4
    <3> QED
      BY <3>2, <3>5
  <2> QED
    BY <2>1, <2>2, <2>3, <2>4
<1>7. /\ sock[1].ep <= sender.ep
      /\ sock[1].ep = sender.ep => sock[1].ts + Len(sock') + 1 = sender.next
  <2>1. /\ sock[1].ep <= sender.ep
        /\ sock[1].ep = sender.ep => sock[1].ts + Len(sock) + 1 = sender.next + 1
    BY <1>1, <1>3 DEF GateOrder
  <2>2. PICK t \in Nat, l \in Nat, n \in Nat :
          t = sock[1].ts /\ l = Len(sock') /\ n = sender.next
    BY <1>3, <1>4, <1>5
  <2>3. Len(sock) = l + 1
    BY <1>3, <1>4, <2>2
  <2>4. t + (l + 1) + 1 = n + 1 => t + l + 1 = n
    OBVIOUS
  <2> QED
    BY <2>1, <2>2, <2>3, <2>4
<1>8. GateProgress' /\ GateBlanket' /\ GateFields' /\ GateOrder'
  <2>1. PICK a \in {"recv", "lower"}, e \in Nat, t \in Nat, c \in Nat :
          /\ feed' = [at |-> a, frame |-> [ep |-> e, ts |-> t], closed |-> c]
          /\ a = "lower" => ~gates.all /\ e = sock[1].ep /\ t = sock[1].ts
          /\ c \in {0, gates.closed}
          /\ gates.all => c = 0
    <3>1. CASE gates.all
      BY <3>1 DEF Receiver!FeedRecv, Receiver!NoFrame
    <3>2. CASE ~gates.all
      <4>1. sock[1] = [ep |-> sock[1].ep, ts |-> sock[1].ts]
        <5>1. sock[1] \in [ep : Nat, ts : Nat]
          BY <1>1, <1>3, <1>4, ElementOfSeq DEF GateFields
        <5> QED
          BY <5>1
      <4>2. PICK c \in {0, gates.closed} :
              feed' = [at |-> "lower", frame |-> sock[1], closed |-> c]
        BY <1>3, <3>2 DEF Receiver!FeedRecv
      <4> QED
        BY <1>3, <1>4, <1>5, <3>2, <4>1, <4>2
    <3> QED
      BY <3>1, <3>2
  <2>2. feed'.at = a /\ feed'.frame.ep = e /\ feed'.frame.ts = t /\ feed'.closed = c
    BY <2>1
  <2>3. c <= sender.ep /\ (ctl.step \in {"f_buffer", "f_reset", "f_close"} => c < sender.ep)
    BY <1>5, <2>1
  <2>4. GateFields'
    BY <1>1, <1>2, <1>3, <2>1 DEF GateFields
  <2>5. GateProgress' /\ GateBlanket'
    BY <1>1, <1>2, <2>1, <2>2, <2>3 DEF GateProgress, GateBlanket
  <2>6. Held' => a = "lower" /\ e = sock[1].ep /\ t = sock[1].ts
    BY <2>1, <2>2 DEF Held
  <2>7. GateOrder'
    BY <1>2, <1>6, <1>7, <2>2, <2>6 DEF GateOrder
  <2> QED
    BY <2>4, <2>5, <2>7
<1>9. CASE gates.all
  <2>1. feed' = Receiver!NoFrame /\ feed'.at = "recv"
    BY <1>9 DEF Receiver!FeedRecv, Receiver!NoFrame
  <2>2. (OldBelow => OldBelow') /\ (OldAbove => OldAbove')
    BY <1>2, <1>3, <2>1 DEF OldBelow, OldAbove, AtGates
  <2>3. GateOld'
    BY <1>1, <1>2, <2>1, <2>2 DEF GateOld, Held
  <2>4. GateFresh'
    BY <1>2, <1>9 DEF GateFresh
  <2> QED
    BY <1>8, <2>3, <2>4 DEF GateInv
<1>10. CASE ~gates.all
  <2>1. feed' = [at |-> "lower", frame |-> sock[1],
                 closed |-> IF sock[1].ep < gates.closed THEN gates.closed ELSE 0]
    BY <1>3, <1>10 DEF Receiver!FeedRecv
  <2>2. /\ feed'.at = "lower" /\ feed'.frame.ep = sock[1].ep /\ feed'.frame.ts = sock[1].ts
        /\ sock[1].ep < gates.closed => feed'.closed = gates.closed
        /\ AtGates'
    BY <2>1 DEF AtGates
  <2>3. (OldBelow => OldBelow') /\ (OldAbove => OldAbove')
    BY <1>2, <1>3, <2>2 DEF OldBelow, OldAbove
  <2>4. GateOld'
    BY <1>1, <1>2, <2>2, <2>3 DEF GateOld
  <2>5. FreshToCome => FreshToCome'
    <3>1. CASE sender.next <= Receiver!UpperGate(gates.before)
      BY <1>2, <3>1 DEF FreshToCome
    <3>2. ASSUME NEW i \in DOMAIN sock, sock[i].ep = sender.ep,
                 sock[i].ts <= Receiver!UpperGate(gates.before)
          PROVE  FreshToCome'
      <4>1. CASE i = 1
        BY <1>2, <2>2, <3>2, <4>1 DEF FreshToCome
      <4>2. CASE i # 1
        <5>1. PICK k \in DOMAIN sock' : k + 1 = i
          <6>1. i - 1 \in 1 .. (Len(sock) - 1) /\ (i - 1) + 1 = i
            BY <1>4, <4>2
          <6> QED
            BY <1>3, <6>1
        <5>2. sock'[k] = sock[i]
          BY <1>3, <5>1
        <5> QED
          BY <1>2, <3>2, <5>2 DEF FreshToCome
      <4> QED
        BY <4>1, <4>2
    <3> QED
      BY <1>2, <3>1, <3>2 DEF FreshToCome, AtGates
  <2>6. GateFresh'
    BY <1>1, <1>2, <2>5 DEF GateFresh
  <2> QED
    BY <1>8, <2>4, <2>6 DEF GateInv
<1> QED
  BY <1>9, <1>10

\* The gates keep the old stream out and let the new one in, wherever the RTSP
\* task, the TCP task and the sender are: for any positions and number of jumps,
\* any socket and buffer, as long as the sender stays within the window.
THEOREM GatesAreExact == Steps => []GatesExact
<1>1. Init => GateInv
  <2> SUFFICES ASSUME Init PROVE GateInv
    OBVIOUS
  <2>1. PICK pos \in Targets :
          /\ sender = [ep |-> 0, next |-> pos, pos |-> pos, playing |-> TRUE,
                       owes |-> "none"]
          /\ pos \in Nat
    BY SpeakerAssumption DEF Init, Receiver!Init, SpeakerAssumption
  <2>2. /\ sock = << >> /\ feed = [at |-> "recv", frame |-> [ep |-> 0, ts |-> 0], closed |-> 0]
        /\ gates = [all |-> FALSE, before |-> 0, before_valid |-> FALSE,
                    above_valid |-> FALSE, arm |-> FALSE, closed |-> 0, armed |-> 0]
        /\ ctl = [req |-> "none", step |-> "idle", rtp |-> 0, armed |-> FALSE]
    BY DEF Init, Receiver!Init, Receiver!NoFrame, Receiver!NoRequest
  <2>3. GateFields
    BY <2>1, <2>2 DEF GateFields, Receiver!Steps
  <2>4. GateProgress
    BY <2>1, <2>2, SpeakerAssumption DEF GateProgress, SpeakerAssumption
  <2>5. GateBlanket /\ GateOrder /\ GateOld /\ GateFresh
    BY <2>1, <2>2 DEF GateBlanket, GateOrder, GateOld, GateFresh, Held
  <2> QED
    BY <2>3, <2>4, <2>5 DEF GateInv
<1>2. GateInv /\ [Next]_vars => GateInv'
  <2> SUFFICES ASSUME GateInv, [Next]_vars PROVE GateInv'
    OBVIOUS
  <2>1. CASE GatesNext
    <3>1. CASE Receiver!Environment
      BY <3>1, GatesSend, GatesSender DEF Receiver!Environment
    <3>2. CASE Receiver!Control
      BY <3>2, GatesLook, GatesArmed, GatesFlush, GatesOpen DEF Receiver!Control
    <3>3. CASE Receiver!FeedLower \/ Receiver!FeedUpper \/ Receiver!FeedQueue
      <4>1. CASE \/ Receiver!FeedLower /\ ~Receiver!BelowGate
                 \/ Receiver!FeedUpper /\ ~Receiver!AboveGate
        BY <4>1, GatesPass
      <4>2. CASE \/ Receiver!FeedLower /\ Receiver!BelowGate
                 \/ Receiver!FeedUpper /\ Receiver!AboveGate
                 \/ Receiver!FeedQueue
        BY <4>2, GatesDrop DEF Receiver!FeedLower, Receiver!FeedUpper, Receiver!FeedQueue
      <4> QED
        BY <3>3, <4>1, <4>2
    <3>4. CASE Receiver!FeedRecv \/ Receiver!FeedDisarmLower \/ Receiver!FeedDisarmUpper
      BY <3>4, GatesRecv, GatesDisarm
    <3>5. CASE Receiver!Read
      BY <3>5, GatesRest DEF Receiver!Read, GateInv, GateFields, GateProgress, GateBlanket
    <3> QED
      BY <2>1, <3>1, <3>2, <3>3, <3>4, <3>5 DEF GatesNext, Receiver!Next, Receiver!Feed
  <2>2. CASE UNCHANGED gateVars
    BY <2>2, GatesRest DEF gateVars, GateInv, GateFields, GateProgress, GateBlanket
  <2> QED
    BY <2>1, <2>2 DEF Next, AmpNext, DacNext, BtEnvironment, BtFirmware, vars
<1>3. GateInv => GatesExact
  <2> SUFFICES ASSUME GateInv PROVE GatesExact
    OBVIOUS
  <2>1. GateFields /\ GateBlanket /\ GateOld /\ GateFresh
    BY DEF GateInv
  <2>2. Receiver!FarSeekAdmitsNothingStale
    <3> SUFFICES ASSUME excuse = {}, Receiver!StaleAdmitted PROVE FALSE
      BY DEF Receiver!FarSeekAdmitsNothingStale
    <3>1. /\ feed.at = "queue" /\ feed.closed = gates.closed
          /\ feed.frame.ep < gates.closed
      BY DEF Receiver!StaleAdmitted
    <3>2. gates.closed # 0
      BY <2>1, <3>1 DEF GateFields
    <3>3. ~gates.arm
      BY <2>1, <3>1, <3>2 DEF GateBlanket
    <3> QED
      BY <2>1, <3>1, <3>2, <3>3 DEF GateOld, Held, AtGates
  <2>3. Receiver!GatesLetStreamIn
    BY <2>1 DEF GateFresh, FreshToCome, AtGates, Receiver!GatesLetStreamIn
  <2> QED
    BY <2>2, <2>3 DEF GatesExact, Receiver!GatesExact
<1> QED
  BY <1>1, <1>2, <1>3, PTL DEF Steps
=============================================================================
