------------------------------- MODULE MCHome -------------------------------
(* The device and the house: setting it up over Bluetooth LE, enrolling it   *)
(* with pog Home and keeping the link, the lights that follow a leader, Home *)
(* Assistant, and the turns with POG AI.  One of them, the focus, moves in a *)
(* behaviour while the others rest: the state space is their sum.            *)
EXTENDS Naturals, Sequences, FiniteSets

CONSTANTS Parts,  \* bound: the parts that a run looks at
          Phones, MaxParts, MaxFrames, MaxLinks, MaxFaults, MaxCuts,
          Addresses, MaxMishaps, MaxSecrets, Wrap, Groups, MaxCommands,
          MaxChanges,
          SeqWrap, Capacity, Timeout, Lead, Window, MaxFrame, MaxTime,
          MaxRequests, MaxMessages

\* No group has the name that stands for being in none.  Frames overtake each
\* other by less than half the numbers there are, and a number is a number of
\* frames.
ASSUME HomeAssumption ==
  /\ "none" \notin Groups
  /\ SeqWrap \in Nat \ {0} /\ Window \in Nat /\ Window < SeqWrap \div 2
  /\ Capacity \in Nat \ {0} /\ MaxFrame \in Nat

VARIABLES focus,
  link, incoming, granted, saved, apply, onbStatus, restart, onbHist,
  nvs, ram, task, starter, found, home, mishaps,
  client, status, mqtt, lock, dirty, speaker, retry, orders, soin, broker, effect, busHist,
  config, gain, playing, haClient, mqttTask, web, held, shown, haHist,
  sync, sent, clock, drawn,
  turn, paired, ring, wake, mic, cap, told, live, worker, timer, control, page,
  online, heard, asked

Onboard == INSTANCE Onboarding WITH status <- onbStatus
Pog == INSTANCE PogBus
Ha == INSTANCE HaMqtt
Lights == INSTANCE EffectSync
Talk == INSTANCE Voice WITH web <- page

onbVars == <<link, incoming, granted, saved, apply, onbStatus, restart, onbHist>>
pogVars == <<nvs, ram, task, starter, found, home, mishaps, client, status, mqtt, lock,
             dirty, speaker, retry, orders, soin, broker, effect, busHist>>
haVars == <<config, gain, playing, haClient, mqttTask, web, held, shown, haHist>>
syncVars == <<sync, sent, clock, drawn>>
talkVars == <<turn, paired, ring, wake, mic, cap, told, live, worker, timer, control,
              page, online, heard, asked>>
vars == <<focus, onbVars, pogVars, haVars, syncVars, talkVars>>

Init ==
  /\ focus \in Parts \cap {"onboarding", "pog", "ha", "lights", "voice"}
  /\ Onboard!Init
  /\ Pog!Init /\ (focus # "pog" => ~nvs.proof)
  /\ Ha!Init /\ (focus # "ha" => ~config)
  /\ Lights!Init
  /\ Talk!Init /\ (focus # "voice" => ~paired /\ ~wake.enabled)

InPog == focus = "pog" /\ UNCHANGED <<focus, onbVars, haVars, syncVars, talkVars>>
InHa == focus = "ha" /\ UNCHANGED <<focus, onbVars, pogVars, syncVars, talkVars>>

OnboardingNext ==
  /\ focus = "onboarding" /\ Onboard!Next
  /\ UNCHANGED <<focus, pogVars, haVars, syncVars, talkVars>>
LightsNext ==
  /\ focus = "lights" /\ Lights!Next
  /\ UNCHANGED <<focus, onbVars, pogVars, haVars, talkVars>>
TalkNext ==
  /\ focus = "voice" /\ Talk!Next
  /\ UNCHANGED <<focus, onbVars, pogVars, haVars, syncVars>>
StarterRuns == InPog /\ Pog!StarterRuns
EnrolRuns == InPog /\ Pog!EnrolRuns
DiscoveryRuns == InPog /\ Pog!DiscoveryRuns
MqttRuns == InPog /\ Pog!MqttRuns
StateTaskRuns == InPog /\ Pog!StateTaskRuns
StateTicks == InPog /\ Pog!StateTicks
SoinRuns == InPog /\ Pog!SoinRuns
HomeActs == InPog /\ Pog!HomeActs
PogEnvironment == InPog /\ Pog!Environment
HaClientRuns == InHa /\ Ha!ClientRuns
HaWebRuns == InHa /\ Ha!WebRuns
HaTimerRuns == InHa /\ Ha!TimerRuns
HaRtspRuns == InHa /\ Ha!RtspPublishes
HaEnvironment == InHa /\ Ha!Environment

Next ==
  \/ OnboardingNext \/ LightsNext \/ TalkNext
  \/ StarterRuns \/ EnrolRuns \/ DiscoveryRuns \/ MqttRuns \/ StateTaskRuns \/ StateTicks
  \/ SoinRuns \/ HomeActs \/ PogEnvironment
  \/ HaClientRuns \/ HaWebRuns \/ HaTimerRuns \/ HaRtspRuns \/ HaEnvironment

\* what any part may do, however late its tasks run
Steps == Init /\ [][Next]_vars

\* each task runs when it can; a person adopts what is announced, a row that
\* nobody collects expires, and the restart that was asked for comes
Spec ==
  /\ Steps
  /\ WF_vars(StarterRuns) /\ WF_vars(EnrolRuns) /\ WF_vars(DiscoveryRuns)
  /\ WF_vars(MqttRuns) /\ WF_vars(StateTaskRuns) /\ WF_vars(StateTicks)
  /\ WF_vars(SoinRuns) /\ WF_vars(HomeActs)
  /\ WF_vars(ram.forgetting /\ InPog /\ Pog!Restart)
  /\ WF_vars(HaClientRuns) /\ WF_vars(HaWebRuns) /\ WF_vars(HaTimerRuns)
  /\ WF_vars(HaRtspRuns)

\* the same of the voice, in a run that looks at nothing else
VoiceSpec == Steps /\ Talk!Fairness

\* A network comes with the authority of the phone that sent it (Onboarding).
NetworkAuthorised == Onboard!NetworkAuthorised

\* A device takes no part in a home or a group it has left (Enrol, PogBus).
KeepsToItsOwn == Pog!KeepsToItsOwn

\* The device ends up enrolled (PogBus).
Enrols == focus = "pog" => Pog!Enrols

\* The link to pog Home mends itself and catches up (PogBus).
BusRecovers == focus = "pog" => Pog!BusRecovers

\* Home Assistant comes to show what the device has (HaMqtt).
HaCatchesUp == focus = "ha" => Ha!HaCatchesUp

\* The lamp never goes back to an earlier moment (EffectSync).
DrawsForward == Lights!DrawsForward

\* An adopted device has its bus running (PogBus).
BusStarts == Pog!BusStarts

\* A device without a claim secret announces itself at its next start (PogBus).
AnnouncesAgain == Pog!AnnouncesAgain

\* No callback into freed memory (Voice).
CallbackContextAlive == Talk!CallbackContextAlive

\* The microphone is closed to the device's own voice, and a word heard before
\* a mute starts nothing (Voice).
MicrophoneObeys == Talk!MicrophoneObeys

\* Turns end and the wake word is listened for again (Voice).
TurnsFollow == Talk!TurnsFollow
=============================================================================
