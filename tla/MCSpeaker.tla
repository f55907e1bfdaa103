------------------------------ MODULE MCSpeaker ------------------------------
(* The parts between the stream and the loudspeaker.  They share no         *)
(* variables, so one of them, the focus, moves in a behaviour while the     *)
(* others rest: the state space is their sum, not their product.            *)
EXTENDS Integers, Sequences, FiniteSets

CONSTANTS Parts,  \* bound: the parts that a run looks at
          Bands, Gains, MaxEqChanges, MaxEdges,
          QueueLen, MaxLinks, MaxNetEdges, MaxClients,
          MaxRtp, Targets, MaxSeeks, MaxSock, Capacity, MaxExpected, MaxLead,
          SeekThreshold, gate_window

\* The equaliser has bands, and a flat curve is one of its curves.  A sender
\* runs ahead of what it plays by no more than the window of the gates.
ASSUME SpeakerAssumption ==
  /\ Bands # {} /\ 0 \in Gains
  /\ Targets \subseteq Nat /\ MaxLead \in Nat /\ gate_window \in Nat
  /\ MaxLead =< gate_window

VARIABLES focus,
  amp, ampTodo,
  chip, dac, regLock, saved, board, dacTodo, dacLocal, eqHist, dacCount,
  phone, queue, btTodo, bt, writer, player, airplay, clients, net, callback, btHist,
  sender, sock, feed, buf, gates, timing, ctl, excuse

Amp == INSTANCE AmpCtrl
Dac == INSTANCE DacBoard
Bt == INSTANCE Bluetooth
Receiver == INSTANCE AudioReceiver

ampVars == <<amp, ampTodo>>
dacVars == <<chip, dac, regLock, saved, board, dacTodo, dacLocal, eqHist, dacCount>>
btVars == <<phone, queue, btTodo, bt, writer, player, airplay, clients, net, callback, btHist>>
gateVars == <<sender, sock, feed, buf, gates, timing, ctl, excuse>>
vars == <<focus, ampVars, dacVars, btVars, gateVars>>

\* a part that rests has one of its initial states
Init ==
  /\ focus \in Parts \cap {"amp", "dac", "bluetooth", "gates"}
  /\ Amp!Init /\ (focus # "amp" => ~amp.gpio /\ ~amp.auto)
  /\ Dac!Init /\ (focus # "dac" => chip = "tas58xx")
  /\ Bt!Init /\ (focus # "bluetooth" => net.up /\ net.seen)
  /\ Receiver!Init
  /\ focus # "gates" => \A pos \in Targets : sender.pos =< pos

AmpNext == focus = "amp" /\ Amp!Next /\ UNCHANGED <<focus, dacVars, btVars, gateVars>>
DacNext == focus = "dac" /\ Dac!Next /\ UNCHANGED <<focus, ampVars, btVars, gateVars>>
BtEnvironment ==
  focus = "bluetooth" /\ Bt!Environment /\ UNCHANGED <<focus, ampVars, dacVars, gateVars>>
BtFirmware ==
  focus = "bluetooth" /\ Bt!Firmware /\ UNCHANGED <<focus, ampVars, dacVars, gateVars>>
GatesNext ==
  focus = "gates" /\ Receiver!Next /\ UNCHANGED <<focus, ampVars, dacVars, btVars>>

Next == AmpNext \/ DacNext \/ BtEnvironment \/ BtFirmware \/ GatesNext

\* What may happen, without a word on what must.
Steps == Init /\ [][Next]_vars

Fairness == WF_vars(BtFirmware)

Spec == Steps /\ Fairness

\* An amplifier left on with nothing playing will be put in standby
\* (AmpCtrl!NeverStranded; main/amp_ctrl.c).
AmpNeverStranded == Amp!NeverStranded

\* What is heard through the board is what the settings ask for
\* (DacBoard!BoardFollowsSettings; both boards and the TAS5825M driver).
BoardFollowsSettings == Dac!BoardFollowsSettings

\* Two tasks never write to the I2S channel at once (Bluetooth!OneWriter;
\* main.c, a2dp_sink.c, audio_output.c).
OneWriter == Bt!OneWriter

\* A phone that leaves gives the device back (Bluetooth!GivenBack).
GivenBack == focus = "bluetooth" => Bt!GivenBack

\* The gates keep the old stream out and let the new one in
\* (AudioReceiver!GatesExact; audio_receiver.c, audio_stream.c).
GatesExact == Receiver!GatesExact

\* The DSP registers are programmed before the chip plays, as
\* tas58xx_set_power_mode says (DacBoard!ProgrammedWhenPlaying).
ProgrammedWhenPlaying == Dac!ProgrammedWhenPlaying
=============================================================================
