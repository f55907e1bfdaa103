------------------------------ MODULE DacBoard ------------------------------
(* The two boards with an I2C amplifier: the Esparagus brick with a         *)
(* TAS5825M (components/dac_tas58xx, boards/esparagus-audio-brick) and the  *)
(* SqueezeAMP with a TAS5756M (components/dac_tas57xx, boards/squeezeamp).  *)
(* Three tasks use the chip: the one that emits a playback event, the one   *)
(* that changes the equaliser, and the task woken by the fault and the      *)
(* headphone interrupts.  A driver call that holds the register mutex       *)
(* throughout is one step; an equaliser update, during which the output is  *)
(* muted, is several under the lock.  Leaving deep sleep loses the chip's   *)
(* registers, the worst case the drivers' comments allow.                   *)
EXTENDS Naturals, Sequences, FiniteSets

CONSTANTS Bands,     \* the equaliser's bands
          Gains,     \* the gains a band may have, 0 included
          MaxEqChanges, MaxEdges

VARIABLES
  chip,      \* which board: "tas58xx" or "tas57xx"
  dac,       \* the chip's registers, and the driver's s_dsp_defaults_written
  regLock,   \* s_reg_mutex: the task that holds it, or "free"
  saved,     \* the gains in the settings, or NoEq
  board,     \* the input pins, the pending notification, the board's flags
  dacTodo,   \* the calls each task still has to make
  dacLocal,  \* its locals: the gains it read, the mute bit it saved
  eqHist,    \* whether an equaliser change overlapped a PLAYING handler
  dacCount   \* changes and edges so far (bounds of the model)

dacVars == <<chip, dac, regLock, saved, board, dacTodo, dacLocal, eqHist, dacCount>>

DacTasks == {"events", "web", "pins"}
NoEq == << >>
Flat == [b \in Bands |-> 0]
Curves == [Bands -> Gains]
NoBand == 0

\* programmed: the registers written after a wake-up; custom: the
\* coefficient RAM is in use; path: its signal-path defaults are valid
Registers == [state : {"PLAY", "HIZ", "SLEEP"}, mute : BOOLEAN, programmed : BOOLEAN,
              custom : BOOLEAN, path : BOOLEAN, eq : Curves, written : BOOLEAN]

DacIdle(t) == dacTodo[t] = << >>
AllIdle == \A t \in DacTasks : DacIdle(t)

\* iot_board_init: the chip is configured, then switched off
Init ==
  /\ chip \in {"tas58xx", "tas57xx"}
  /\ dac = [state |-> "SLEEP", mute |-> FALSE, programmed |-> FALSE,
            custom |-> FALSE, path |-> FALSE, eq |-> Flat, written |-> FALSE]
  /\ regLock = "free"
  /\ saved = NoEq
  /\ board = [faultPin |-> FALSE, jackPin |-> FALSE, notified |-> {},
              fault |-> FALSE, headphone |-> FALSE]
  /\ dacTodo = [t \in DacTasks |-> << >>]
  /\ dacLocal = [t \in DacTasks |-> [gains |-> Flat, band |-> NoBand, mute |-> FALSE]]
  /\ eqHist = FALSE
  /\ dacCount = [eq |-> 0, edges |-> 0]

Calls(t, calls) == dacTodo' = [dacTodo EXCEPT ![t] = calls]
Returns(t) == dacTodo' = [dacTodo EXCEPT ![t] = Tail(@)]
Read(t, gains, band) ==
  dacLocal' = [dacLocal EXCEPT ![t].gains = gains, ![t].band = band]

\* tas58xx_eq_set_all and tas58xx_eq_flat, a single band being a short case
EqUpdate == <<"lock", "program", "unlock">>

\* on_rtsp_event of the boards
RtspEvent(event) ==
  /\ DacIdle("events")
  /\ Calls("events",
       CASE event \in {"CLIENT_CONNECTED", "PAUSED"} -> <<"standby">>
         [] event = "DISCONNECTED" -> <<"off">>
         [] event = "PLAYING" ->
              IF chip = "tas58xx" THEN <<"on", "restore">> \o EqUpdate ELSE <<"on">>)
  /\ eqHist' = (eqHist \/ (event = "PLAYING" /\ ~DacIdle("web")))
  /\ UNCHANGED <<chip, dac, regLock, saved, board, dacLocal, dacCount>>

\* on_eq_event: the settings before the chip, except for a band or a reset
EqEvent(calls, gains, band) ==
  /\ chip = "tas58xx"
  /\ dacCount.eq < MaxEqChanges
  /\ DacIdle("web")
  /\ Calls("web", calls)
  /\ Read("web", gains, band)
  /\ eqHist' = (eqHist \/ Len(dacTodo["events"]) > 1)
  /\ dacCount' = [dacCount EXCEPT !.eq = @ + 1]
  /\ UNCHANGED <<chip, dac, regLock, saved, board>>

EqAllBands == \E gains \in Curves : EqEvent(<<"save">> \o EqUpdate, gains, NoBand)

EqFlat == EqEvent(EqUpdate \o <<"clear">>, Flat, NoBand)

\* one band: the chip keeps the others, the settings are read and written back
EqBand ==
  \E b \in Bands, g \in Gains :
     EqEvent(<<"lock", "programBand", "unlock", "saveBand">>,
             [Flat EXCEPT ![b] = g], b)

\* ---- the driver -----------------------------------------------------------
\* power-on reset: what leaving deep sleep does to the registers
Woken(d) ==
  IF d.state = "SLEEP"
    THEN [d EXCEPT !.programmed = FALSE, !.custom = FALSE, !.path = FALSE, !.eq = Flat]
    ELSE d

\* tas58xx_set_power_mode: re-programs the chip only from deep sleep itself
PowerOn58 ==
  [Woken(dac) EXCEPT !.state = "PLAY", !.mute = FALSE,
     !.programmed = @ \/ dac.state = "SLEEP",
     !.written = @ /\ dac.state # "SLEEP"]

\* tas57xx_set_power_mode: the configuration is restored on the way to standby
PowerOn57 == [Woken(dac) EXCEPT !.state = "PLAY", !.mute = FALSE]

Standby57 == [Woken(dac) EXCEPT !.state = "HIZ", !.mute = TRUE,
                !.programmed = @ \/ dac.state = "SLEEP"]

Powered(mode) ==
  CASE mode = "on"      -> IF chip = "tas58xx" THEN PowerOn58 ELSE PowerOn57
    [] mode = "standby" -> IF chip = "tas58xx"
                             THEN [Woken(dac) EXCEPT !.state = "HIZ", !.mute = FALSE]
                             ELSE Standby57
    [] mode = "off"     -> [dac EXCEPT !.state = "SLEEP", !.written = FALSE,
                              !.mute = (chip = "tas57xx")]

SetPowerMode(mode) ==
  /\ dacTodo["events"] # << >> /\ Head(dacTodo["events"]) = mode
  /\ regLock = "free"
  /\ dac' = Powered(mode)
  /\ Returns("events")
  /\ eqHist' = (eqHist /\ ~(mode = "off" /\ DacIdle("web")))
  /\ UNCHANGED <<chip, regLock, saved, board, dacLocal, dacCount>>

Doing(t, call) == dacTodo[t] # << >> /\ Head(dacTodo[t]) = call

\* restore_eq_from_nvs
RestoreEq ==
  /\ Doing("events", "restore")
  /\ IF saved = NoEq
       THEN Calls("events", << >>) /\ UNCHANGED dacLocal
       ELSE Returns("events") /\ Read("events", saved, NoBand)
  /\ UNCHANGED <<chip, dac, regLock, saved, board, eqHist, dacCount>>

\* Mutant: the equaliser update mutes the output without taking the lock
LockFreeAlways(t) == TRUE

LockFree(t) == regLock = "free"

\* REG_LOCK, then the mute bit saved and set
EqLock(t) ==
  /\ Doing(t, "lock")
  /\ LockFree(t)
  /\ regLock' = t
  /\ dacLocal' = [dacLocal EXCEPT ![t].mute = dac.mute]
  /\ dac' = [dac EXCEPT !.mute = TRUE]
  /\ Returns(t)
  /\ UNCHANGED <<chip, saved, board, eqHist, dacCount>>

\* ensure_custom_coeffs_mode with write_dsp_signal_path_defaults: the whole
\* RAM is written once, unless the driver believes that it has been
Custom ==
  IF dac.custom THEN dac
  ELSE [dac EXCEPT !.custom = TRUE, !.written = TRUE,
          !.path = @ \/ ~dac.written,
          !.eq = IF dac.written THEN @ ELSE Flat]

\* program_biquad_raw for every band; nothing is kept while asleep
Programmed(curve) ==
  IF dac.state = "SLEEP" THEN [dac EXCEPT !.written = TRUE]
  ELSE [Custom EXCEPT !.eq = curve]

\* a single band changed in a curve
WithBand(curve, l) == [curve EXCEPT ![l.band] = l.gains[l.band]]

EqProgram(t) ==
  /\ \/ Doing(t, "program") /\ dac' = Programmed(dacLocal[t].gains)
     \/ Doing(t, "programBand")
          /\ dac' = Programmed(WithBand(Custom.eq, dacLocal[t]))
  /\ Returns(t)
  /\ UNCHANGED <<chip, regLock, saved, board, dacLocal, eqHist, dacCount>>

\* the mute bit written back, then REG_UNLOCK
EqUnlock(t) ==
  /\ Doing(t, "unlock")
  /\ dac' = [dac EXCEPT !.mute = dacLocal[t].mute]
  /\ regLock' = "free"
  /\ Returns(t)
  /\ UNCHANGED <<chip, saved, board, dacLocal, eqHist, dacCount>>

\* Mutant: the gains of the other bands are not read back first
BandSavedAlone(l) == l.gains

\* EQ_EVENT_BAND_CHANGED's read-modify-write of the settings
BandSaved(l) == WithBand(IF saved = NoEq THEN Flat ELSE saved, l)

\* settings_set_eq_gains, settings_clear_eq
SaveEq ==
  /\ \/ Doing("web", "save") /\ saved' = dacLocal["web"].gains
     \/ Doing("web", "clear") /\ saved' = NoEq
     \/ Doing("web", "saveBand") /\ saved' = BandSaved(dacLocal["web"])
  /\ Returns("web")
  /\ UNCHANGED <<chip, dac, regLock, board, dacLocal, eqHist, dacCount>>

\* ---- the interrupts and the task behind them -------------------------------
\* spkfault_isr_handler: the level at the time of the edge
FaultEdge ==
  /\ dacCount.edges < MaxEdges
  /\ board' = [board EXCEPT !.faultPin = ~@,
                 !.notified = @ \cup {IF board.faultPin THEN "CLEAR" ELSE "FAULT"}]
  /\ dacCount' = [dacCount EXCEPT !.edges = @ + 1]
  /\ UNCHANGED <<chip, dac, regLock, saved, dacTodo, dacLocal, eqHist>>

\* jack_isr_handler, on the SqueezeAMP only
JackEdge ==
  /\ chip = "tas57xx"
  /\ dacCount.edges < MaxEdges
  /\ board' = [board EXCEPT !.jackPin = ~@, !.notified = @ \cup {"JACK"}]
  /\ dacCount' = [dacCount EXCEPT !.edges = @ + 1]
  /\ UNCHANGED <<chip, dac, regLock, saved, dacTodo, dacLocal, eqHist>>

\* spkfault_task: every bit is taken at once and handled in this order
TakeNotification ==
  /\ DacIdle("pins") /\ board.notified # {}
  /\ Calls("pins", SelectSeq(<<"FAULT", "CLEAR", "JACK">>,
                             LAMBDA bit : bit \in board.notified))
  /\ board' = [board EXCEPT !.notified = {}]
  /\ UNCHANGED <<chip, dac, regLock, saved, dacLocal, eqHist, dacCount>>

Muted(on) == dac' = [dac EXCEPT !.mute = on]

\* enable_speaker takes the mutex on the TAS5825M, not on the TAS5756M
SpeakerFree == chip = "tas57xx" \/ regLock = "free"

FaultSeen ==
  /\ Doing("pins", "FAULT") /\ SpeakerFree
  /\ board' = [board EXCEPT !.fault = TRUE]
  /\ IF board.fault THEN UNCHANGED dac ELSE Muted(TRUE)
  /\ Returns("pins")
  /\ UNCHANGED <<chip, regLock, saved, dacLocal, eqHist, dacCount>>

FaultCleared ==
  /\ Doing("pins", "CLEAR") /\ SpeakerFree
  /\ board' = [board EXCEPT !.fault = FALSE]
  /\ IF board.fault /\ ~board.headphone THEN Muted(FALSE) ELSE UNCHANGED dac
  /\ Returns("pins")
  /\ UNCHANGED <<chip, regLock, saved, dacLocal, eqHist, dacCount>>

\* after the debounce delay the pin is read again
JackSettled ==
  /\ Doing("pins", "JACK")
  /\ board' = [board EXCEPT !.headphone = board.jackPin]
  /\ CASE board.jackPin /\ ~board.headphone -> Muted(TRUE)
       [] ~board.jackPin /\ board.headphone /\ ~board.fault -> Muted(FALSE)
       [] OTHER -> UNCHANGED dac
  /\ Returns("pins")
  /\ UNCHANGED <<chip, regLock, saved, dacLocal, eqHist, dacCount>>

PlaybackEvents == {"CLIENT_CONNECTED", "PLAYING", "PAUSED", "DISCONNECTED"}

Next ==
  \/ \E event \in PlaybackEvents : RtspEvent(event)
  \/ \E mode \in {"on", "standby", "off"} : SetPowerMode(mode)
  \/ RestoreEq
  \/ EqAllBands \/ EqFlat \/ EqBand
  \/ \E t \in {"events", "web"} : EqLock(t) \/ EqProgram(t) \/ EqUnlock(t)
  \/ SaveEq
  \/ FaultEdge \/ JackEdge \/ TakeNotification
  \/ FaultSeen \/ FaultCleared \/ JackSettled

Spec == Init /\ [][Next]_dacVars

TypeOK ==
  /\ chip \in {"tas58xx", "tas57xx"}
  /\ dac \in Registers
  /\ regLock \in {"free", "events", "web"}
  /\ saved \in Curves \cup {NoEq}
  /\ board \in [faultPin : BOOLEAN, jackPin : BOOLEAN, fault : BOOLEAN, headphone : BOOLEAN,
                notified : SUBSET {"FAULT", "CLEAR", "JACK"}]
  /\ dacLocal \in [DacTasks -> [gains : Curves, mute : BOOLEAN, band : Bands \cup {NoBand}]]
  /\ eqHist \in BOOLEAN

EqHeard == IF dac.custom THEN dac.eq ELSE Flat

\* The equaliser that is heard is the one in the settings whenever the chip
\* plays and no handler is under way, through pauses, deep sleep and changes
\* made while the chip is asleep (on_rtsp_event, on_eq_event,
\* restore_eq_from_nvs).  Excluded, until the chip sleeps again: a change made
\* while a PLAYING handler runs, because a band and a reset reach the settings
\* after the chip, and the handler's own read and write are not one step.
EqFollowsSettings ==
  AllIdle /\ dac.state = "PLAY" /\ chip = "tas58xx" /\ ~eqHist =>
     EqHeard = IF saved = NoEq THEN Flat ELSE saved

\* The speaker is not left muted: with no fault, no headphone and no handler
\* under way, a playing chip is audible, however equaliser updates (which mute
\* and restore), fault edges, the jack and power changes interleave
\* (tas58xx_eq_set_all, tas58xx_enable_speaker, spkfault_task).
NotLeftMuted ==
  AllIdle /\ board.notified = {} /\ dac.state = "PLAY"
          /\ ~board.fault /\ ~board.headphone
     => ~dac.mute

\* What is heard through the board is what the settings ask for: the equaliser
\* applied and the speaker on, whatever slept, failed or was unplugged meanwhile.
BoardFollowsSettings == EqFollowsSettings /\ NotLeftMuted

\* What tas58xx_set_power_mode says of a wake-up: the DSP registers are
\* programmed again before the chip plays.  It looks only at the state it is
\* called in, and the standby that precedes every session has already left
\* deep sleep.
ProgrammedWhenPlaying ==
  AllIdle /\ dac.state = "PLAY" => dac.programmed
=============================================================================
