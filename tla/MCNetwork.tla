----------------------------- MODULE MCNetwork ------------------------------
(* The device's way to the network, the pairing, the clock and the services  *)
(* of a session, the updates and the log stream, in one run.  They share no  *)
(* variables, so one of them, the focus, moves in a behaviour while the      *)
(* others rest: the state space is their sum.                                *)
EXTENDS Naturals, Sequences, FiniteSets

CONSTANTS AccessPoints, Threshold, MaxChanges, MaxRefusals,
          Chunks, MaxUpdates, MaxCuts,
          RingSize, MaxWsClients, Fds, Chunk, MaxLogged, MaxOpened, MaxTimeouts,
          Masters, Tolerance, Delays, MinSamples, MaxCalls,
          Slots, MaxClients,
          MaxConnections, MaxExchanges, MaxCommands, MaxBlocks, MaxOom

\* what the proofs need: a try before the setup network, a ring with a cell,
\* answers of some blocks
ASSUME NetworkAssumption ==
  /\ Threshold \in Nat \ {0}
  /\ RingSize \in Nat \ {0} /\ Chunk \in Nat /\ MaxBlocks \in Nat

VARIABLES focus,
  air, creds, wifi, cable, monitor, dns, netHist,
  flash, bootSlot, running, pending, update, service, otaHist,
  ring, clients, open, sweep, caster, logHist,
  clk, ear, caller, calm, ptpHist,
  client, ptp, ntp, event, svcHist,
  hap, link, wire, replies, peer, pairHist

Link == INSTANCE NetLink
Firmware == INSTANCE Ota
Logs == INSTANCE LogStream
Ptp == INSTANCE PtpClock
Services == INSTANCE SessionServices
Pair == INSTANCE Pairing

linkVars == <<air, creds, wifi, cable, monitor, dns, netHist>>
otaVars == <<flash, bootSlot, running, pending, update, service, otaHist>>
logVars == <<ring, clients, open, sweep, caster, logHist>>
ptpVars == <<clk, ear, caller, calm, ptpHist>>
svcVars == <<client, ptp, ntp, event, svcHist>>
pairVars == <<hap, link, wire, replies, peer, pairHist>>
vars == <<focus, linkVars, otaVars, logVars, ptpVars, svcVars, pairVars>>

Init ==
  /\ focus \in {"link", "update", "logs", "clock", "session", "pairing"}
  /\ Link!Init /\ (focus # "link" => air = {} /\ creds)
  /\ Firmware!Init /\ (focus # "update" => ~service.voice)
  /\ Logs!Init /\ Ptp!Init /\ Services!Init /\ Pair!Init

Only(f, rest) == focus = f /\ UNCHANGED <<focus, rest>>
LinkRests == <<otaVars, logVars, ptpVars, svcVars, pairVars>>
PtpRests == <<linkVars, otaVars, logVars, svcVars, pairVars>>

LinkEnvironment == Only("link", LinkRests) /\ Link!Environment
LinkDevice == Only("link", LinkRests) /\ Link!Device
UpdateNext == Only("update", <<linkVars, logVars, ptpVars, svcVars, pairVars>>) /\ Firmware!Next
LogsNext == Only("logs", <<linkVars, otaVars, ptpVars, svcVars, pairVars>>) /\ Logs!Next
ClockNext == Only("clock", PtpRests) /\ Ptp!Next
SessionNext == Only("session", <<linkVars, otaVars, logVars, ptpVars, pairVars>>) /\ Services!Next
PairingNext == Only("pairing", <<linkVars, otaVars, logVars, ptpVars, svcVars>>) /\ Pair!Next

Next ==
  LinkEnvironment \/ LinkDevice \/ UpdateNext \/ LogsNext \/ ClockNext \/ SessionNext \/ PairingNext

\* the driver, the handlers and the tasks run when they can; masters go on
\* sending
Spec == Init /\ [][Next]_vars /\ WF_vars(LinkDevice) /\ Ptp!Fairness

\* The device stays in service: it can be reached or is on its way (NetLink), it
\* boots a whole image, and a failed update gives its services back (Ota).
StaysInService == Link!NeverUnreachable /\ Firmware!UpdateSafe

\* A known network is joined again (NetLink).
Rejoins == focus = "link" => Link!Rejoins

\* The newest lines are streamed, once to each client (LogStream).
LogStreamedOnce == Logs!LogStreamedOnce

\* Sessions are kept apart: the offset is the named master's and nobody else's
\* (PtpClock), and the last client leaves nothing switched on (SessionServices).
SessionsKeptApart == Ptp!NamedMasterOnly /\ Services!LeavesNothing

\* The named master is locked to (PtpClock).
LocksOn == focus = "clock" => Ptp!LocksOn

\* Whatever the first sample was, the clock locks (PtpClock).
ConvergesAnyway == focus = "clock" => Ptp!ConvergesAnyway

\* An AirPlay 2 session finds the PTP clock running (SessionServices).
PtpServes == Services!PtpServes

\* Sender and device agree on keys, numbers and mode (Pairing).
InStep == Pair!InStep

\* Any access point of a known network is joined (NetLink).
RejoinsAny == focus = "link" => Link!RejoinsAny
=============================================================================
