------------------------------ MODULE MCControl ------------------------------
(* The parts that change what the device does: settings, access to the web   *)
(* page, the remote control, the buttons and the now-playing page, in one    *)
(* run.  They share no variables, so one of them, the focus, moves in a      *)
(* behaviour while the others rest: the state space is their sum.            *)
EXTENDS Naturals, Sequences, FiniteSets

CONSTANTS MaxRequests, MaxFaults, MaxCuts,
          MaxTokens, Ttl, MaxFailures, Lockout, MaxTime, MaxWrong, MaxIssued, MaxRestarts,
          Sources, CmdQueueLen, MaxSessions, MaxCommands,
          MaxLevel, QueueLen, MaxEdges, MaxEvents,
          MaxClock, Duration

ASSUME ControlAssumption ==
  /\ Duration \in Nat
  /\ MaxTokens \in Nat \ {0} /\ Ttl \in Nat
  /\ MaxFailures \in Nat \ {0} /\ Lockout \in Nat

VARIABLES focus,
  setting, flash, durable, live, writer, asked, setHist,
  now, hasPw, slots, login, authHist,
  session, cmdQueue, worker, dacpHist,
  button, actions, doing, play, volume, pbHist,
  clock, shown, sender, npHist

Set == INSTANCE Settings
Auth == INSTANCE WebAuth
Remote == INSTANCE Dacp
Player == INSTANCE Playback
Page == INSTANCE NowPlaying

setVars == <<setting, flash, durable, live, writer, asked, setHist>>
authVars == <<now, hasPw, slots, login, authHist>>
dacpVars == <<session, cmdQueue, worker, dacpHist>>
pbVars == <<button, actions, doing, play, volume, pbHist>>
npVars == <<clock, shown, sender, npHist>>
vars == <<focus, setVars, authVars, dacpVars, pbVars, npVars>>

Init ==
  /\ focus \in {"settings", "auth", "dacp", "playback", "page"}
  /\ Set!Init /\ (focus # "settings" => setting = "name")
  /\ Auth!Init /\ (focus # "auth" => hasPw)
  /\ Remote!Init
  /\ Player!Init /\ (focus # "playback" => volume.set = 0)
  /\ Page!Init

SettingsNext ==
  focus = "settings" /\ Set!Next /\ UNCHANGED <<focus, authVars, dacpVars, pbVars, npVars>>
AuthNext ==
  focus = "auth" /\ Auth!Next /\ UNCHANGED <<focus, setVars, dacpVars, pbVars, npVars>>
DacpNext ==
  focus = "dacp" /\ Remote!Next /\ UNCHANGED <<focus, setVars, authVars, pbVars, npVars>>
PlaybackNext ==
  focus = "playback" /\ Player!Next /\ UNCHANGED <<focus, setVars, authVars, dacpVars, npVars>>
PageNext ==
  focus = "page" /\ Page!Next /\ UNCHANGED <<focus, setVars, authVars, dacpVars, pbVars>>

Next == SettingsNext \/ AuthNext \/ DacpNext \/ PlaybackNext \/ PageNext

Spec == Init /\ [][Next]_vars

\* What was answered, what is saved and what the device runs with agree
\* (Settings).
SettingsHold == Set!SettingsHold

\* Sessions last as long as they should, and guessing is slowed (WebAuth).
AccessKept == Auth!AccessKept

\* A command goes to the source it was meant for (Dacp).
CommandsReachSource == Remote!CommandsReachSource

\* What is heard is what is set (Playback).
HeardAsSet == Player!HeardAsSet

\* The page shows where the sender is (NowPlaying).
PositionHonest == Page!PositionHonest

\* A port that was lost is looked up again, as dacp_client.c says (Dacp).
Rediscovers == Remote!Rediscovers
=============================================================================
