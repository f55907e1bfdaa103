---------------------------- MODULE NetworkProofs ----------------------------
(* Theorems about the ways into the device (MCNetwork), for any number of    *)
(* access points, masters, client slots and descriptors, any size of an      *)
(* image and of the log ring, and behaviours of any length.                  *)
EXTENDS MCNetwork, SequenceTheorems, WellFoundedInduction, TLAPS

-----------------------------------------------------------------------------
(* The way into the network (NetLink).                                       *)
LinkFields ==
  /\ wifi = [on |-> wifi.on, ap |-> wifi.ap, sta |-> wifi.sta, retry |-> wifi.retry,
             timer |-> wifi.timer, lock |-> wifi.lock, joined |-> wifi.joined,
             connected |-> wifi.connected]
  /\ wifi.retry \in Nat
  /\ cable = [link |-> cable.link, connected |-> cable.connected]
  /\ monitor = [at |-> monitor.at, hadNetwork |-> monitor.hadNetwork,
                hadEth |-> monitor.hadEth, wifiStarted |-> monitor.wifiStarted,
                dns |-> monitor.dns]
  /\ netHist = [changes |-> netHist.changes, refusals |-> netHist.refusals,
                pulled |-> netHist.pulled]

\* A device without a network's name never leaves its setup network; one with a
\* name always has a try under way, or a timer for the next.
StationTries ==
  /\ ~wifi.on => wifi.sta = "rest" /\ ~wifi.timer /\ wifi.joined = Link!NoAp
  /\ wifi.on /\ ~creds => wifi.ap /\ wifi.sta \in {"start", "scan", "rest"}
                          /\ wifi.joined = Link!NoAp
  /\ wifi.on /\ creds => wifi.sta # "rest" \/ wifi.timer
  /\ wifi.sta \in {"start", "scan", "joining", "address", "lost", "up", "rest"}
  /\ wifi.timer => wifi.sta = "rest" /\ wifi.joined = Link!NoAp
  /\ wifi.connected => wifi.sta \in {"up", "lost"}
  /\ wifi.retry >= Threshold => wifi.ap

\* Wi-Fi is off only before app_main chose it, or when a cable carries the device.
WifiOffForCable ==
  /\ monitor.at = "boot" => ~wifi.on
  /\ monitor.at = "wait" /\ ~wifi.on => cable.connected \/ netHist.pulled
  /\ monitor.at = "run" /\ ~wifi.on => monitor.hadEth \/ netHist.pulled

LinkInv == LinkFields /\ StationTries /\ WifiOffForCable

-----------------------------------------------------------------------------
(* Firmware updates (Ota).                                                   *)
SlotNow(image) == image = [chunks |-> image.chunks, sound |-> image.sound]

OtaFields ==
  /\ flash = [a |-> flash.a, b |-> flash.b] /\ SlotNow(flash.a) /\ SlotNow(flash.b)
  /\ bootSlot \in {"a", "b"} /\ running \in {"a", "b"}
  /\ update = [at |-> update.at, by |-> update.by, got |-> update.got, sound |-> update.sound]
  /\ service = [airplay |-> service.airplay, suspended |-> service.suspended,
                voice |-> service.voice]
  /\ otaHist = [updates |-> otaHist.updates, cuts |-> otaHist.cuts, stopped |-> otaHist.stopped]

\* The image that runs is never written to; while it is on trial nothing is.
ImagesWhole ==
  /\ Firmware!Whole(flash[running]) /\ Firmware!Whole(flash[bootSlot])
  /\ pending => Firmware!Whole(flash.a) /\ Firmware!Whole(flash.b)
  /\ update.at \in {"write", "restart"} => ~pending
  /\ update.at # "restart" => bootSlot = running

ServicesKept ==
  /\ update.at \in {"none", "quiesce"} => service.airplay \/ otaHist.stopped
  /\ update.at = "none" => ~service.suspended

OtaInv == OtaFields /\ ImagesWhole /\ ServicesKept
-----------------------------------------------------------------------------
(* The clock's master (PtpClock).                                            *)
ClockFields ==
  /\ clk = [expect |-> clk.expect, locked |-> clk.locked, cand |-> clk.cand,
            recent |-> clk.recent, samples |-> clk.samples, prev |-> clk.prev,
            off |-> clk.off, await |-> clk.await, sync |-> clk.sync]
  /\ clk.off = [of |-> clk.off.of, late |-> clk.off.late]
  /\ clk.sync = [of |-> clk.sync.of, late |-> clk.sync.late]
  /\ ear = [at |-> ear.at, kind |-> ear.kind, of |-> ear.of, late |-> ear.late]
  /\ ear.at \in {"idle", "handle"}
  /\ caller \in [Ptp!Callers -> {"idle", "name", "clear"}]
  /\ ptpHist = [calls |-> ptpHist.calls, slipped |-> ptpHist.slipped]

\* Between two resets that no message crosses, all that is heard, waited with
\* and kept is of the master that is named.
OneMaster ==
  ~ptpHist.slipped /\ caller["session"] # "name" /\ clk.expect # Ptp!NoClock =>
    /\ clk.prev => clk.off.of = clk.expect
    /\ clk.await => clk.sync.of = clk.expect
    /\ ear.at = "handle" => ear.of = clk.expect

ClockInv == ClockFields /\ OneMaster
-----------------------------------------------------------------------------
(* What a session switches on (SessionServices).                             *)
SessionFields ==
  /\ client = [s \in Slots |-> client[s]]
  /\ \A s \in Slots :
       client[s] = [at |-> client[s].at, sender |-> client[s].sender,
                    is_old |-> client[s].is_old, stop |-> client[s].stop,
                    ready |-> client[s].ready, socket |-> client[s].socket]
  /\ ntp = [running |-> ntp.running, of |-> ntp.of, handle |-> ntp.handle, tasks |-> ntp.tasks]
  /\ ptp = [running |-> ptp.running, expect |-> ptp.expect]
  /\ event = [handle |-> event.handle, stop |-> event.stop, listen |-> event.listen,
              tasks |-> event.tasks]

\* Whatever runs, somebody is there who will stop it.
SomebodyStops ==
  /\ ntp.running => \E s \in Slots : client[s].at \in {"run", "event", "ntp", "ntpwait", "ptp"}
  /\ ptp.expect # Services!Nobody => \E s \in Slots : client[s].at # "free"
  /\ event.tasks # {} /\ ~event.stop =>
       /\ event.handle
       /\ \E s \in Slots :
            /\ event.listen = s /\ client[s].socket
            /\ client[s].at \in {"run", "event", "ntp", "ntpwait", "ptp", "leave", "old?",
                                 "init", "stop"}
  /\ \A s \in Slots : client[s].at = "event" => client[s].socket

SessionInv == SessionFields /\ SomebodyStops

-----------------------------------------------------------------------------
(* Steps of the way into the network.                                        *)

LEMMA LinkStep ==
  ASSUME LinkInv, Link!Next
  PROVE  LinkInv'
<1> USE NetworkAssumption
<1> USE DEF LinkInv, LinkFields, StationTries, WifiOffForCable, Link!NoAp
<1>1. CASE Link!StationStarts
  BY <1>1 DEF Link!StationStarts
<1>2. CASE Link!ScanAndConnect
  BY <1>2 DEF Link!ScanAndConnect, Link!Connect
<1>3. CASE Link!Join
  BY <1>3 DEF Link!Join
<1>4. CASE Link!JoinFails
  BY <1>4 DEF Link!JoinFails
<1>5. CASE Link!HandleLost
  <2> DEFINE n == IF wifi.retry > Threshold THEN wifi.retry ELSE wifi.retry + 1
  <2>1. wifi.on /\ creds /\ n \in Nat /\ wifi.retry \in Nat /\ ~wifi.timer
    BY <1>5 DEF Link!HandleLost
  <2>2. n > Threshold => wifi.ap
    BY <2>1
  <2>3. UNCHANGED <<creds, cable, monitor, netHist>> /\ wifi' = Link!StationLost(wifi)
    BY <1>5 DEF Link!HandleLost
  <2> HIDE DEF n
  <2>4. CASE n < Threshold
    <3>1. wifi' = [wifi EXCEPT !.connected = FALSE, !.joined = "none", !.retry = n,
                               !.sta = "joining"]
      BY <2>1, <2>3, <2>4 DEF Link!StationLost, Link!Connect, n
    <3>2. wifi' = [on |-> wifi.on, ap |-> wifi.ap, sta |-> "joining", retry |-> n,
                   timer |-> wifi.timer, lock |-> wifi.lock, joined |-> "none",
                   connected |-> FALSE]
      BY <3>1
    <3>3. LinkFields' /\ WifiOffForCable'
      BY <2>1, <2>3, <3>2
    <3>4. StationTries'
      BY <2>1, <2>3, <2>4, <3>2
    <3> QED
      BY <3>3, <3>4
  <2>5. CASE ~(n < Threshold)
    <3>1. /\ n = Threshold => wifi' = [wifi EXCEPT !.connected = FALSE, !.joined = "none",
                                !.retry = n, !.ap = TRUE, !.sta = "rest", !.timer = TRUE]
          /\ n > Threshold => wifi' = [wifi EXCEPT !.connected = FALSE, !.joined = "none",
                                !.retry = n, !.sta = "rest", !.timer = TRUE]
      BY <2>1, <2>3, <2>5 DEF Link!StationLost, Link!ScheduleRetry, Link!EnableAp, n
    <3>2. n = Threshold \/ n > Threshold
      BY <2>1, <2>5
    <3>3. wifi' = [on |-> wifi.on, ap |-> wifi'.ap, sta |-> "rest", retry |-> n,
                   timer |-> TRUE, lock |-> wifi.lock, joined |-> "none",
                   connected |-> FALSE]
      <4>1. CASE n = Threshold
        <5>1. wifi' = [on |-> wifi.on, ap |-> TRUE, sta |-> "rest", retry |-> n,
                       timer |-> TRUE, lock |-> wifi.lock, joined |-> "none",
                       connected |-> FALSE]
          BY <3>1, <4>1
        <5> QED
          BY <5>1
      <4>2. CASE n > Threshold
        <5>1. wifi' = [on |-> wifi.on, ap |-> wifi.ap, sta |-> "rest", retry |-> n,
                       timer |-> TRUE, lock |-> wifi.lock, joined |-> "none",
                       connected |-> FALSE]
          BY <3>1, <4>2, ZenonT(40)
        <5> QED
          BY <5>1
      <4> QED
        BY <3>2, <4>1, <4>2
    <3>4. wifi'.ap
      BY <2>2, <3>1, <3>2
    <3>5. LinkFields' /\ WifiOffForCable'
      BY <2>1, <2>3, <3>3
    <3>6. StationTries'
      BY <2>1, <2>3, <3>3, <3>4
    <3> QED
      BY <3>5, <3>6
  <2> QED
    BY <2>4, <2>5
<1>6. CASE Link!HandleAddress
  <2>1. /\ wifi.on /\ creds /\ UNCHANGED <<creds, cable, monitor, netHist>>
        /\ ~wifi.timer
        /\ wifi' = [on |-> wifi.on, ap |-> FALSE, sta |-> "up", retry |-> 0,
                    timer |-> wifi.timer, lock |-> wifi.lock, joined |-> wifi.joined,
                    connected |-> TRUE]
    BY <1>6 DEF Link!HandleAddress
  <2>2. LinkFields' /\ WifiOffForCable'
    BY <2>1
  <2>3. StationTries'
    BY <2>1
  <2> QED
    BY <2>2, <2>3
<1>7. CASE Link!RetryTimerFires
  BY <1>7 DEF Link!RetryTimerFires, Link!RetryTimer, Link!Connect
<1>8. CASE Link!AirChanges
  BY <1>8 DEF Link!AirChanges
<1>9. CASE Link!CableChanges
  BY <1>9 DEF Link!CableChanges
<1>10. CASE Link!CableAddress
  BY <1>10 DEF Link!CableAddress
<1>11. CASE Link!DnsTaskEnds
  BY <1>11 DEF Link!DnsTaskEnds
<1>12. CASE Link!Boot
  BY <1>12 DEF Link!Boot, Link!Started, Link!Off
<1>13. CASE Link!MonitorStarts
  BY <1>13 DEF Link!MonitorStarts
<1>14. CASE Link!MonitorAborts
  BY <1>14 DEF Link!MonitorAborts, Link!Off
<1>15. CASE Link!MonitorLooks
  <2> DEFINE eth == cable.connected
             network == eth \/ wifi'.connected
  <2>1. /\ UNCHANGED <<creds, cable>> /\ wifi' = Link!LinksAfter(eth)
        /\ monitor.at = "run" /\ monitor'.at = "run" /\ (monitor'.hadEth <=> eth)
        /\ monitor' = [at |-> monitor'.at, hadNetwork |-> monitor'.hadNetwork,
                       hadEth |-> monitor'.hadEth, wifiStarted |-> monitor'.wifiStarted,
                       dns |-> monitor'.dns]
    BY <1>15 DEF Link!MonitorLooks
  <2>2. /\ netHist' = [changes |-> netHist'.changes, refusals |-> netHist'.refusals,
                       pulled |-> netHist'.pulled]
        /\ netHist'.pulled <=> (netHist.pulled /\ ~eth)
    BY <1>15 DEF Link!MonitorLooks
  <2>3. CASE wifi' = wifi /\ ~(~eth /\ monitor.hadEth)
    <3>1. LinkFields' /\ StationTries'
      BY <2>1, <2>2, <2>3
    <3> QED
      BY <2>1, <2>2, <2>3, <3>1
  <2>4. CASE wifi' = Link!Off /\ eth
    <3>1. wifi' = [on |-> FALSE, ap |-> FALSE, sta |-> "rest", retry |-> 0, timer |-> FALSE,
                   lock |-> "none", joined |-> "none", connected |-> FALSE]
      BY <2>4 DEF Link!Off
    <3>2. LinkFields'
      BY <2>1, <2>2, <3>1
    <3>3. StationTries'
      BY <2>1, <3>1
    <3> QED
      BY <2>1, <2>4, <3>2, <3>3
  <2>5. CASE wifi' = Link!Started
    <3>1. wifi' = [on |-> TRUE, ap |-> TRUE, sta |-> "start", retry |-> 0, timer |-> FALSE,
                   lock |-> "none", joined |-> "none", connected |-> FALSE]
      BY <2>5 DEF Link!Off, Link!Started
    <3>2. LinkFields'
      BY <2>1, <2>2, <3>1
    <3>3. StationTries'
      BY <2>1, <3>1
    <3> QED
      BY <2>1, <3>1, <3>2, <3>3
  <2>6. CASE wifi.on /\ wifi' = [wifi EXCEPT !.ap = TRUE, !.retry = 0, !.lock = Link!NoAp]
    <3>1. wifi' = [on |-> wifi.on, ap |-> TRUE, sta |-> wifi.sta, retry |-> 0,
                   timer |-> wifi.timer, lock |-> "none", joined |-> wifi.joined,
                   connected |-> wifi.connected]
      BY <2>6
    <3>2. LinkFields'
      BY <2>1, <2>2, <3>1
    <3>3. StationTries'
      BY <2>1, <2>6, <3>1
    <3> QED
      BY <2>1, <2>6, <3>1, <3>2, <3>3
  <2> QED
    BY <2>1, <2>3, <2>4, <2>5, <2>6 DEF Link!LinksAfter, Link!Fallback, Link!StartedAgain
<1> QED
  BY <1>1, <1>2, <1>3, <1>4, <1>5, <1>6, <1>7, <1>8, <1>9, <1>10, <1>11, <1>12, <1>13,
     <1>14, <1>15 DEF Link!Next, Link!Environment, Link!Device

-----------------------------------------------------------------------------
(* Steps of an update.                                                       *)

\* esp_ota_begin spares the image that runs.
LEMMA ErasedIs ==
  ASSUME OtaFields
  PROVE  /\ Firmware!Erased = [a |-> Firmware!Erased.a, b |-> Firmware!Erased.b]
         /\ SlotNow(Firmware!Erased.a) /\ SlotNow(Firmware!Erased.b)
         /\ Firmware!Erased[running] = flash[running]
<1>1. Firmware!Other \in {"a", "b"} /\ Firmware!Other # running
  BY DEF Firmware!Other, Firmware!BootSlots, OtaFields
<1> DEFINE blank == [chunks |-> 0, sound |-> FALSE]
<1>2. SlotNow(blank)
  BY DEF SlotNow
<1> HIDE DEF blank
<1>3. Firmware!Erased = [flash EXCEPT ![Firmware!Other] = blank]
  BY DEF Firmware!Erased, blank
<1>4. \/ running = "b" /\ Firmware!Erased = [a |-> blank, b |-> flash.b]
      \/ running = "a" /\ Firmware!Erased = [a |-> flash.a, b |-> blank]
  <2>1. \/ running = "b" /\ Firmware!Other = "a"
        \/ running = "a" /\ Firmware!Other = "b"
    BY <1>1 DEF OtaFields
  <2> DEFINE fa == flash.a
             fb == flash.b
  <2>2. flash = [a |-> fa, b |-> fb]
    BY DEF OtaFields
  <2> HIDE DEF fa, fb
  <2>3. CASE running = "b" /\ Firmware!Other = "a"
    <3>1. Firmware!Erased = [a |-> blank, b |-> fb]
      BY <1>3, <2>2, <2>3
    <3> QED
      BY <2>3, <3>1 DEF fb
  <2>4. CASE running = "a" /\ Firmware!Other = "b"
    <3>1. Firmware!Erased = [a |-> fa, b |-> blank]
      BY <1>3, <2>2, <2>4
    <3> QED
      BY <2>4, <3>1 DEF fa
  <2> QED
    BY <2>1, <2>3, <2>4
<1> QED
  BY <1>2, <1>4 DEF OtaFields

LEMMA OtaStep ==
  ASSUME OtaInv, Firmware!Next
  PROVE  OtaInv'
<1> USE DEF OtaInv, OtaFields, SlotNow, ImagesWhole, ServicesKept, Firmware!Whole
<1>0. Firmware!Other \in {"a", "b"} /\ Firmware!Other # running
  BY DEF Firmware!Other, Firmware!BootSlots
<1>1. CASE Firmware!Request
  <2>1. PICK by \in {"buffer", "stream", "release"}, ok \in BOOLEAN :
          update' = [at |-> "quiesce", by |-> by, got |-> 0, sound |-> ok]
    BY <1>1 DEF Firmware!Request
  <2>2. /\ update.at = "none" /\ UNCHANGED <<flash, bootSlot, running, pending>>
        /\ service' = [service EXCEPT !.suspended = TRUE]
        /\ otaHist' = [otaHist EXCEPT !.updates = @ + 1]
    BY <1>1 DEF Firmware!Request
  <2> QED
    BY <2>1, <2>2
<1>2. CASE Firmware!VoiceStops
  BY <1>2 DEF Firmware!VoiceStops
<1>3. CASE Firmware!QuiesceTimesOut
  BY <1>3 DEF Firmware!QuiesceTimesOut, Firmware!NoUpdate
<1>4. CASE Firmware!VoiceBegins
  BY <1>4 DEF Firmware!VoiceBegins
<1>5. CASE Firmware!Begin
  <2>1. /\ UNCHANGED <<bootSlot, running, pending, otaHist>>
        /\ service' = [service EXCEPT !.airplay = FALSE] /\ update.at = "quiesce"
    BY <1>5 DEF Firmware!Begin
  <2>2. \/ update' = [update EXCEPT !.at = "receive"] /\ flash' = flash
        \/ update' = [update EXCEPT !.at = "refused"] /\ flash' = flash
        \/ ~pending /\ update' = [update EXCEPT !.at = "write"] /\ flash' = Firmware!Erased
    BY <1>5 DEF Firmware!Begin
  <2> QED
    BY <1>0, <2>1, <2>2, ErasedIs, ZenonT(40)
<1>6. CASE Firmware!Receive
  BY <1>6 DEF Firmware!Receive
<1>7. CASE Firmware!Validate
  <2>1. /\ UNCHANGED <<bootSlot, running, pending, service, otaHist>>
        /\ update.at = "receive"
    BY <1>7 DEF Firmware!Validate
  <2>2. \/ update' = [update EXCEPT !.at = "refused"] /\ flash' = flash
        \/ /\ ~pending /\ update' = [update EXCEPT !.at = "write", !.got = 0]
           /\ flash' = Firmware!Erased
    BY <1>7 DEF Firmware!Validate
  <2> QED
    BY <1>0, <2>1, <2>2, ErasedIs, ZenonT(40)
<1>8. CASE Firmware!Write
  BY <1>0, <1>8 DEF Firmware!Write
<1>9. CASE Firmware!Finish
  BY <1>0, <1>9 DEF Firmware!Finish, Firmware!End
<1>10. CASE Firmware!Fail
  BY <1>10 DEF Firmware!Fail, Firmware!Restored, Firmware!NoUpdate
<1>11. CASE Firmware!Restart
  BY <1>11 DEF Firmware!Restart, Firmware!Booted, Firmware!NoUpdate
<1>12. CASE Firmware!Confirm
  BY <1>12 DEF Firmware!Confirm
<1>13. CASE Firmware!PowerCut
  BY <1>0, <1>13 DEF Firmware!PowerCut, Firmware!Booted, Firmware!NoUpdate
<1> QED
  BY <1>1, <1>2, <1>3, <1>4, <1>5, <1>6, <1>7, <1>8, <1>9, <1>10, <1>11, <1>12, <1>13
     DEF Firmware!Next

-----------------------------------------------------------------------------
(* Steps of the clock.                                                       *)

\* After a reset nothing is left of another master, and only a message that was
\* being handled can bring it back.
LEMMA ResetTaken ==
  ASSUME ClockFields, UNCHANGED ear, clk' = Ptp!Resets(clk),
         NEW c \in Ptp!Callers, NEW k \in {"idle", "clear"}, caller' = [caller EXCEPT ![c] = k],
         ptpHist' = Ptp!Slips(ptpHist) \/ ptpHist' = Ptp!Slips(Ptp!Begun)
  PROVE  ClockInv'
<1>1. /\ ptpHist' = [calls |-> ptpHist'.calls, slipped |-> ptpHist'.slipped]
      /\ ptpHist'.slipped <=> ear.at # "idle"
  BY DEF ClockFields, Ptp!Slips, Ptp!Begun
<1>2. /\ clk' = [expect |-> clk.expect, locked |-> FALSE, cand |-> "none",
                 recent |-> clk.recent, samples |-> 0, prev |-> FALSE, off |-> Ptp!Zero,
                 await |-> FALSE, sync |-> Ptp!Zero]
  BY DEF ClockFields, Ptp!Resets
<1>3. caller' \in [Ptp!Callers -> {"idle", "name", "clear"}]
  BY DEF ClockFields
<1>4. ClockFields'
  BY <1>1, <1>2, <1>3 DEF ClockFields, Ptp!Zero
<1>5. OneMaster'
  BY <1>1, <1>2 DEF ClockFields, OneMaster
<1> QED
  BY <1>4, <1>5 DEF ClockInv

\* What a message, a sample and the lock change of the clock.
ClockNow(k) == k = [expect |-> k.expect, locked |-> k.locked, cand |-> k.cand,
                    recent |-> k.recent, samples |-> k.samples, prev |-> k.prev,
                    off |-> k.off, await |-> k.await, sync |-> k.sync]

LEMMA LockTaken ==
  ASSUME NEW k, ClockNow(k), NEW d, d = [k EXCEPT !.locked = TRUE, !.cand = "none"]
  PROVE  /\ ClockNow(d) /\ d.expect = k.expect /\ d.off = k.off /\ d.await = k.await
         /\ d.sync = k.sync
BY DEF ClockNow

LEMMA CandidateTaken ==
  ASSUME NEW k, ClockNow(k), NEW d, d = [k EXCEPT !.cand = "new"]
  PROVE  /\ ClockNow(d) /\ d.expect = k.expect /\ d.off = k.off /\ d.await = k.await
         /\ d.sync = k.sync
BY DEF ClockNow

LEMMA LockKeeps ==
  ASSUME NEW k, ClockNow(k), NEW d, d = Ptp!Locked(k)
  PROVE  /\ ClockNow(d) /\ d.expect = k.expect /\ d.off = k.off /\ d.await = k.await
         /\ d.sync = k.sync
<1>1. \/ d = k
      \/ d = [k EXCEPT !.locked = TRUE, !.cand = "none"]
      \/ d = [k EXCEPT !.cand = "new"]
  BY DEF Ptp!Locked
<1> QED
  BY <1>1, LockTaken, CandidateTaken, ZenonT(40)

LEMMA ClockStep ==
  ASSUME ClockInv, Ptp!Next
  PROVE  ClockInv'
<1> USE DEF ClockInv, ClockFields, OneMaster, Ptp!NoClock, Ptp!Zero, Ptp!Callers
<1>1. CASE Ptp!Hears
  BY <1>1 DEF Ptp!Hears, Ptp!FollowUp, Ptp!Sync, Ptp!Arrives, Ptp!Heeds
<1>2. CASE Ptp!Listens
  <2>1. ASSUME NEW s, s = [of |-> s.of, late |-> s.late], Ptp!Update(s),
               ~ptpHist.slipped /\ caller["session"] # "name" /\ clk.expect # Ptp!NoClock
                 => s.of = clk.expect
        PROVE  ClockInv'
    <3>1. UNCHANGED <<caller, ptpHist>> /\ ear' = Ptp!Deaf
      BY <1>2 DEF Ptp!Listens
    <3> DEFINE n == IF clk.samples = MinSamples THEN clk.samples ELSE clk.samples + 1
               heard == [clk EXCEPT !.recent = TRUE, !.await = FALSE, !.sync = Ptp!Zero,
                                    !.samples = n]
               of(late) == [s EXCEPT !.late = late]
               k(late) == [heard EXCEPT !.prev = TRUE, !.off = of(late)]
    <3>2. clk' = heard \/ \E late : clk' = Ptp!Locked(k(late))
      BY <2>1 DEF Ptp!Update
    <3>3. ClockNow(clk)
      BY DEF ClockNow
    <3>4. \A late : of(late) = [of |-> s.of, late |-> late]
      BY <2>1
    <3> HIDE DEF ClockInv, ClockFields, OneMaster, Ptp!Zero, n
    <3>5. /\ ClockNow(heard) /\ heard.expect = clk.expect /\ heard.prev = clk.prev
          /\ heard.off = clk.off /\ ~heard.await /\ heard.sync = Ptp!Zero
      <4> DEFINE c == clk
                 z == Ptp!Zero
      <4>1. /\ ClockNow(c)
            /\ heard = [c EXCEPT !.recent = TRUE, !.await = FALSE, !.sync = z, !.samples = n]
        BY <3>3
      <4> HIDE DEF c, z, heard
      <4>2. /\ ClockNow(heard) /\ heard.expect = c.expect /\ heard.prev = c.prev
            /\ heard.off = c.off /\ ~heard.await /\ heard.sync = z
        BY <4>1 DEF ClockNow
      <4> QED
        BY <4>2 DEF c, z
    <3> HIDE DEF heard, of
    <3>6. ASSUME NEW late, clk' = Ptp!Locked(k(late))
          PROVE  /\ ClockNow(clk') /\ clk'.expect = clk.expect /\ clk'.off = of(late)
                 /\ ~clk'.await /\ clk'.sync = Ptp!Zero
      <4>1. /\ ClockNow(k(late)) /\ k(late).expect = heard.expect /\ k(late).off = of(late)
            /\ k(late).await = heard.await /\ k(late).sync = heard.sync
        <5> DEFINE kl == k(late)
                   o == of(late)
        <5>1. kl = [heard EXCEPT !.prev = TRUE, !.off = o]
          OBVIOUS
        <5> HIDE DEF kl, o, k
        <5>2. /\ ClockNow(kl) /\ kl.expect = heard.expect /\ kl.off = o
              /\ kl.await = heard.await /\ kl.sync = heard.sync
          BY <3>5, <5>1 DEF ClockNow
        <5> QED
          BY <5>2 DEF kl, o
      <4> HIDE DEF k
      <4>2. /\ ClockNow(clk') /\ clk'.expect = k(late).expect /\ clk'.off = k(late).off
            /\ clk'.await = k(late).await /\ clk'.sync = k(late).sync
        BY <3>6, <4>1, LockKeeps, Zenon
      <4> QED
        BY <3>5, <4>1, <4>2, Zenon
    <3> HIDE DEF k
    <3>7. /\ ClockNow(clk') /\ clk'.expect = clk.expect /\ ~clk'.await /\ clk'.sync = Ptp!Zero
          /\ \/ clk'.prev = clk.prev /\ clk'.off = clk.off
             \/ \E late : clk'.off = [of |-> s.of, late |-> late]
      BY <3>2, <3>4, <3>5, <3>6, Zenon
    <3>8. clk'.off = [of |-> clk'.off.of, late |-> clk'.off.late]
      BY <3>7 DEF ClockInv, ClockFields
    <3>9. \/ clk'.prev = clk.prev /\ clk'.off.of = clk.off.of
          \/ clk'.off.of = s.of
      <4>1. CASE clk'.prev = clk.prev /\ clk'.off = clk.off
        BY <4>1
      <4>2. ASSUME NEW late, clk'.off = [of |-> s.of, late |-> late]
            PROVE  clk'.off.of = s.of
        BY <4>2
      <4> QED
        BY <3>7, <4>1, <4>2
    <3>10. ClockFields'
      BY <3>1, <3>7, <3>8 DEF Ptp!Deaf, Ptp!Zero, ClockNow, ClockInv, ClockFields
    <3>11. OneMaster'
      BY <2>1, <3>1, <3>7, <3>9 DEF Ptp!Deaf, ClockInv, OneMaster
    <3> QED
      BY <3>10, <3>11 DEF ClockInv
  <2>2. CASE Ptp!ProcessSync
    <3>1. CASE ear.kind = "one_step"
      BY <1>2, <2>1, <2>2, <3>1 DEF Ptp!ProcessSync, Ptp!Listens
    <3>2. CASE ear.kind # "one_step"
      <4>1. UNCHANGED <<caller, ptpHist>> /\ ear' = Ptp!Deaf /\ ear.at = "handle"
        BY <1>2 DEF Ptp!Listens
      <4>2. clk' = [clk EXCEPT !.await = TRUE, !.sync = [of |-> ear.of, late |-> ear.late]]
        BY <2>2, <3>2 DEF Ptp!ProcessSync
      <4>3. ClockFields'
        BY <4>1, <4>2 DEF Ptp!Deaf
      <4>4. OneMaster'
        BY <4>1, <4>2 DEF Ptp!Deaf
      <4> QED
        BY <4>3, <4>4
    <3> QED
      BY <3>1, <3>2
  <2>3. CASE Ptp!ProcessFollowUp
    <3>1. CASE clk.await
      BY <1>2, <2>1, <2>3, <3>1 DEF Ptp!ProcessFollowUp, Ptp!Listens
    <3>2. CASE ~clk.await
      BY <1>2, <2>3, <3>2 DEF Ptp!ProcessFollowUp, Ptp!Listens, Ptp!Deaf
    <3> QED
      BY <3>1, <3>2
  <2> QED
    BY <1>2, <2>2, <2>3 DEF Ptp!Listens
<1>3. CASE Ptp!Time
  BY <1>3 DEF Ptp!Time, Ptp!StableTime, Ptp!Silence, Ptp!CalmsDown
<1>4. CASE Ptp!IsLocked
  BY <1>4 DEF Ptp!IsLocked
<1>5. CASE Ptp!Users
  <2>1. ASSUME NEW m \in Masters, Ptp!SetMaster(m)  PROVE ClockInv'
    <3>1. /\ UNCHANGED ear /\ clk' = [clk EXCEPT !.expect = m]
          /\ caller' = [caller EXCEPT !["session"] = "name"]
          /\ ptpHist' = [ptpHist EXCEPT !.calls = @ + 1]
      BY <2>1 DEF Ptp!SetMaster, Ptp!Calls, Ptp!Begun
    <3>2. caller'["session"] = "name" /\ caller' \in [Ptp!Callers -> {"idle", "name", "clear"}]
      BY <3>1
    <3>3. ClockFields'
      BY <3>1, <3>2
    <3> QED
      BY <3>2, <3>3
  <2>2. ASSUME NEW c \in Ptp!Callers, Ptp!Clear(c)  PROVE ClockInv'
    <3>1. /\ UNCHANGED ear /\ clk' = Ptp!Resets(clk) /\ caller' = [caller EXCEPT ![c] = "clear"]
          /\ ptpHist' = Ptp!Slips(Ptp!Begun)
      BY <2>2 DEF Ptp!Clear, Ptp!Calls
    <3> QED
      BY <3>1, ResetTaken
  <2> QED
    BY <1>5, <2>1, <2>2 DEF Ptp!Users
<1>6. CASE Ptp!Carries
  <2>1. CASE Ptp!SetMasterResets
    <3>1. /\ UNCHANGED ear /\ clk' = Ptp!Resets(clk)
          /\ caller' = [caller EXCEPT !["session"] = "idle"] /\ ptpHist' = Ptp!Slips(ptpHist)
      BY <2>1 DEF Ptp!SetMasterResets, Ptp!Called
    <3> QED
      BY <3>1, ResetTaken
  <2>2. ASSUME NEW c \in Ptp!Callers, Ptp!ClearUnpins(c)  PROVE ClockInv'
    <3>1. /\ UNCHANGED <<ear, ptpHist>> /\ clk' = [clk EXCEPT !.expect = "none"]
          /\ caller' = [caller EXCEPT ![c] = "idle"]
      BY <2>2 DEF Ptp!ClearUnpins, Ptp!Called
    <3>2. clk'.expect = "none" /\ caller' \in [Ptp!Callers -> {"idle", "name", "clear"}]
      BY <3>1
    <3>3. ClockFields'
      BY <3>1, <3>2
    <3> QED
      BY <3>2, <3>3
  <2> QED
    BY <1>6, <2>1, <2>2 DEF Ptp!Carries
<1> QED
  BY <1>1, <1>2, <1>3, <1>4, <1>5, <1>6 DEF Ptp!Next

-----------------------------------------------------------------------------
(* Steps of a session.                                                       *)

\* One client changes, what it is otherwise stays.
ClientNow(c) == c = [at |-> c.at, sender |-> c.sender, is_old |-> c.is_old,
                     stop |-> c.stop, ready |-> c.ready, socket |-> c.socket]

LEMMA ClientSetUp ==
  ASSUME NEW c, ClientNow(c), NEW d, d = [c EXCEPT !.at = "event", !.socket = TRUE]
  PROVE  ClientNow(d) /\ d.at = "event" /\ d.socket
BY DEF ClientNow

LEMMA ClientReplaced ==
  ASSUME NEW c, ClientNow(c), NEW d, d = [c EXCEPT !.is_old = TRUE, !.stop = TRUE]
  PROVE  ClientNow(d) /\ d.at = c.at /\ d.socket = c.socket
BY DEF ClientNow

LEMMA ClientMoves ==
  ASSUME SessionFields, NEW s \in Slots, NEW c, ClientNow(c), client' = [client EXCEPT ![s] = c]
  PROVE  /\ client' = [t \in Slots |-> client'[t]]
         /\ \A t \in Slots : ClientNow(client'[t])
         /\ client'[s] = c
         /\ \A t \in Slots : t # s => client'[t] = client[t]
<1>1. client' = [t \in Slots |-> IF t = s THEN c ELSE client[t]]
  BY DEF SessionFields
<1>2. client'[s] = c /\ \A t \in Slots : t # s => client'[t] = client[t]
  BY <1>1
<1>3. \A t \in Slots : ClientNow(client[t])
  BY DEF SessionFields, ClientNow
<1>4. \A t \in Slots : ClientNow(client'[t])
  BY <1>2, <1>3
<1> QED
  BY <1>1, <1>2, <1>4

LEMMA SessionStep ==
  ASSUME SessionInv, Services!Next
  PROVE  SessionInv'
<1> USE DEF SessionInv, SessionFields, SomebodyStops, Services!Nobody, Services!At,
            Services!Go, Services!Free
<1>1. CASE Services!Tasks
  <2>1. CASE Services!NtpTaskEnds
    <3>1. /\ client' = client /\ ptp' = ptp /\ event' = event
          /\ ntp' = [ntp EXCEPT !.tasks = @ - 1, !.handle = FALSE]
      BY <2>1 DEF Services!NtpTaskEnds
    <3>2. ntp' = [running |-> ntp.running, of |-> ntp.of, handle |-> FALSE, tasks |-> ntp.tasks - 1]
      BY <3>1
    <3>3. ntp'.running = ntp.running
      BY <3>2
    <3>4. ntp' = [running |-> ntp'.running, of |-> ntp'.of, handle |-> ntp'.handle,
                  tasks |-> ntp'.tasks]
      BY <3>2
    <3> QED
      BY <3>1, <3>3, <3>4, Zenon
  <2>2. CASE Services!EventTaskEnds
    <3>1. PICK s \in event.tasks :
            event' = [event EXCEPT !.tasks = @ \ {s}, !.listen = Services!Nobody, !.handle = FALSE]
      BY <2>2 DEF Services!EventTaskEnds
    <3>2. event.stop /\ client' = client /\ ptp' = ptp /\ ntp' = ntp
      BY <2>2 DEF Services!EventTaskEnds
    <3>3. event' = [handle |-> FALSE, stop |-> event.stop, listen |-> Services!Nobody,
                    tasks |-> event.tasks \ {s}]
      BY <3>1
    <3> QED
      BY <3>2, <3>3
  <2> QED
    BY <1>1, <2>1, <2>2 DEF Services!Tasks
<1>2. ASSUME NEW s \in Slots, Services!Connects(s) PROVE SessionInv'
  <2>1. PICK v \in {"v1", "v2"} :
          client' = [t \in Slots |->
                       IF t = s THEN [Services!Free EXCEPT !.at = "run", !.sender = v]
                       ELSE IF Services!At(t, "free") THEN Services!Free
                       ELSE [client[t] EXCEPT !.is_old = TRUE, !.stop = TRUE]]
    BY <1>2 DEF Services!Connects
  <2>2. client[s].at = "free" /\ UNCHANGED <<ptp, ntp, event>>
    BY <1>2 DEF Services!Connects
  <2>3. client' = [t \in Slots |-> client'[t]]
    BY <2>1
  <2>4. client'[s] = [Services!Free EXCEPT !.at = "run", !.sender = v]
    BY <2>1
  <2>5. ClientNow(client'[s]) /\ client'[s].at = "run"
    BY <2>4, ZenonT(40) DEF ClientNow
  <2>6. ASSUME NEW t \in Slots, t # s
        PROVE  /\ ClientNow(client'[t]) /\ client'[t].at = client[t].at
               /\ client[t].at # "free" => client'[t].socket = client[t].socket
    <3>1. CASE client[t].at = "free"
      <4>1. client'[t] = Services!Free
        BY <2>1, <2>6, <3>1
      <4>2. ClientNow(client'[t])
        BY <4>1 DEF ClientNow
      <4>3. client'[t].at = "free"
        BY <4>1
      <4> QED
        BY <3>1, <4>2, <4>3, Zenon
    <3>2. CASE client[t].at # "free"
      <4>1. client'[t] = [client[t] EXCEPT !.is_old = TRUE, !.stop = TRUE]
        BY <2>1, <2>6, <3>2
      <4>2. ClientNow(client[t])
        BY DEF ClientNow
      <4> HIDE DEF SessionInv, SessionFields, SomebodyStops
      <4> QED
        BY <4>1, <4>2, ClientReplaced, Zenon
    <3> QED
      BY <3>1, <3>2
  <2>7. \A t \in Slots : ClientNow(client'[t])
    BY <2>5, <2>6
  <2>8. SessionFields'
    BY <2>2, <2>3, <2>7 DEF ClientNow
  <2>9. SomebodyStops'
    BY <2>2, <2>5, <2>6
  <2> QED
    BY <2>8, <2>9
<1>3. ASSUME NEW s \in Slots, Services!Setup(s) PROVE SessionInv'
  <2> DEFINE c == [client[s] EXCEPT !.at = "event", !.socket = TRUE]
  <2>1. client' = [client EXCEPT ![s] = c] /\ UNCHANGED <<ptp, ntp>> /\ client[s].at = "run"
    BY <1>3 DEF Services!Setup
  <2>2. event' = IF event.handle THEN [event EXCEPT !.stop = TRUE] ELSE event
    BY <1>3 DEF Services!Setup, Services!StopEvent
  <2>3. ClientNow(c) /\ c.at = "event" /\ c.socket
    <3>1. ClientNow(client[s]) /\ c = [client[s] EXCEPT !.at = "event", !.socket = TRUE]
      BY DEF ClientNow
    <3> HIDE DEF SessionInv, SessionFields, SomebodyStops, c
    <3> QED
      BY <3>1, ClientSetUp, Zenon
  <2> HIDE DEF c
  <2>4. /\ client' = [t \in Slots |-> client'[t]]
        /\ \A t \in Slots : ClientNow(client'[t])
        /\ client'[s] = c
        /\ \A t \in Slots : t # s => client'[t] = client[t]
    BY <2>1, <2>3, ClientMoves
  <2>5. SessionFields'
    BY <2>1, <2>2, <2>4 DEF ClientNow
  <2>6. SomebodyStops'
    BY <2>1, <2>2, <2>3, <2>4
  <2> QED
    BY <2>5, <2>6
<1>4. ASSUME NEW s \in Slots, Services!StartEvent(s) PROVE SessionInv'
  <2>1. PICK a \in {"ntp", "run"}, r \in BOOLEAN :
          client' = [client EXCEPT ![s] = [client[s] EXCEPT !.at = a, !.ready = r]]
    BY <1>4 DEF Services!StartEvent
  <2> DEFINE c == [client[s] EXCEPT !.at = a, !.ready = r]
  <2>2. /\ event' = [handle |-> TRUE, stop |-> FALSE, listen |-> s,
                    tasks |-> event.tasks \union {s}]
        /\ UNCHANGED <<ptp, ntp>> /\ client[s].at = "event"
    BY <1>4 DEF Services!StartEvent
  <2>3. ClientNow(c) /\ c.at = a /\ c.socket = client[s].socket /\ client[s].socket
    <3>1. /\ ClientNow(client[s]) /\ client[s].socket
      BY <2>2 DEF ClientNow
    <3> DEFINE x == client[s]
    <3>2. ClientNow(x) /\ c = [x EXCEPT !.at = a, !.ready = r]
      BY <3>1
    <3> HIDE DEF SessionInv, SessionFields, SomebodyStops, c, x
    <3>3. ClientNow(c) /\ c.at = a /\ c.socket = x.socket
      BY <3>2 DEF ClientNow
    <3> QED
      BY <3>1, <3>3 DEF x
  <2> HIDE DEF c
  <2>4. /\ client' = [t \in Slots |-> client'[t]]
        /\ \A t \in Slots : ClientNow(client'[t])
        /\ client'[s] = c
        /\ \A t \in Slots : t # s => client'[t] = client[t]
    BY <2>1, <2>3, ClientMoves DEF c
  <2>5. SessionFields'
    BY <2>2, <2>4 DEF ClientNow
  <2>6. SomebodyStops'
    BY <2>2, <2>3, <2>4
  <2> QED
    BY <2>5, <2>6
<1>5. ASSUME NEW s \in Slots, Services!SetupNtp(s) PROVE SessionInv'
  <2>1. PICK a \in {"ntpwait", "ptp"} : client' = [client EXCEPT ![s].at = a]
    BY <1>5 DEF Services!SetupNtp
  <2>2. /\ UNCHANGED <<ptp, event>> /\ client[s].at = "ntp"
        /\ ntp' = [running |-> ntp'.running, of |-> ntp'.of, handle |-> ntp'.handle,
                   tasks |-> ntp'.tasks]
    BY <1>5 DEF Services!SetupNtp
  <2> DEFINE c == [client[s] EXCEPT !.at = a]
  <2>3. /\ client' = [client EXCEPT ![s] = c]
        /\ ClientNow(c) /\ c.at = a /\ c.socket = client[s].socket
    BY <2>1 DEF ClientNow
  <2> HIDE DEF c
  <2>4. /\ client' = [t \in Slots |-> client'[t]]
        /\ \A t \in Slots : ClientNow(client'[t])
        /\ client'[s] = c
        /\ \A t \in Slots : t # s => client'[t] = client[t]
    BY <2>3, ClientMoves
  <2>5. SessionFields'
    BY <2>2, <2>4 DEF ClientNow
  <2>6. SomebodyStops'
    BY <2>1, <2>2, <2>3, <2>4
  <2> QED
    BY <2>5, <2>6
<1>6. ASSUME NEW s \in Slots, Services!NtpRestarts(s) PROVE SessionInv'
  BY <1>6 DEF Services!NtpRestarts
<1>7. ASSUME NEW s \in Slots, Services!SetupPtp(s) PROVE SessionInv'
  <2> DEFINE c == [client[s] EXCEPT !.at = "run", !.ready = TRUE]
  <2>1. /\ client' = [client EXCEPT ![s] = c] /\ UNCHANGED <<ntp, event>>
        /\ client[s].at = "ptp" /\ ptp' = [ptp EXCEPT !.running = FALSE]
    BY <1>7 DEF Services!SetupPtp
  <2>2. ClientNow(c) /\ c.at = "run" /\ c.socket = client[s].socket
    <3>1. ClientNow(client[s])
      BY DEF ClientNow
    <3> DEFINE x == client[s]
    <3>2. ClientNow(x) /\ c = [x EXCEPT !.at = "run", !.ready = TRUE]
      BY <3>1
    <3> HIDE DEF SessionInv, SessionFields, SomebodyStops, c, x
    <3>3. ClientNow(c) /\ c.at = "run" /\ c.socket = x.socket
      BY <3>2 DEF ClientNow
    <3> QED
      BY <3>1, <3>3 DEF x
  <2> HIDE DEF c
  <2>3. /\ client' = [t \in Slots |-> client'[t]]
        /\ \A t \in Slots : ClientNow(client'[t])
        /\ client'[s] = c
        /\ \A t \in Slots : t # s => client'[t] = client[t]
    BY <2>1, <2>2, ClientMoves
  <2>4. SessionFields'
    BY <2>1, <2>3 DEF ClientNow
  <2>5. SomebodyStops'
    BY <2>1, <2>2, <2>3
  <2> QED
    BY <2>4, <2>5
<1>8. ASSUME NEW s \in Slots, Services!Anchor(s) \/ Services!Teardown(s) PROVE SessionInv'
  BY <1>8 DEF Services!Anchor, Services!Teardown
<1>9. ASSUME NEW s \in Slots, Services!Leaves(s) PROVE SessionInv'
  BY <1>9, SMTT(30) DEF Services!Leaves, Services!StopsNtp
<1>10. ASSUME NEW s \in Slots, Services!NtpStopped(s) PROVE SessionInv'
  BY <1>10 DEF Services!NtpStopped
<1>11. ASSUME NEW s \in Slots, Services!LooksWhetherOld(s) PROVE SessionInv'
  BY <1>11 DEF Services!LooksWhetherOld
<1>12. ASSUME NEW s \in Slots, Services!PtpInit(s) PROVE SessionInv'
  BY <1>12 DEF Services!PtpInit
<1>13. ASSUME NEW s \in Slots, Services!EventStops(s) PROVE SessionInv'
  BY <1>13, ZenonT(40) DEF Services!EventStops, Services!StopEvent
<1>14. ASSUME NEW s \in Slots, Services!EventStopped(s) PROVE SessionInv'
  BY <1>14 DEF Services!EventStopped
<1>15. ASSUME NEW s \in Slots, Services!Closes(s) PROVE SessionInv'
  BY <1>15 DEF Services!Closes
<1> QED
  BY <1>1, <1>2, <1>3, <1>4, <1>5, <1>6, <1>7, <1>8, <1>9, <1>10, <1>11, <1>12, <1>13,
     <1>14, <1>15 DEF Services!Next, Services!Requests, Services!Leaving


-----------------------------------------------------------------------------
(* The theorems.                                                             *)

\* Whatever the air, the cable and the credentials do, a running device can be
\* reached or is on its way to a network, and whatever is uploaded and whenever
\* the power goes it boots a whole image with its services back (wifi.c's
\* event_handler, network_monitor_task, ota.c).
THEOREM DeviceStaysInService == Spec => []StaysInService
<1> DEFINE Inv == LinkInv /\ OtaInv
<1>1. Init => Inv
  <2> SUFFICES ASSUME Init PROVE Inv
    OBVIOUS
  <2>1. LinkInv
    BY NetworkAssumption
    DEF Init, Link!Init, Link!Off, LinkInv, LinkFields, StationTries, WifiOffForCable
  <2>2. OtaInv
    <3>1. service.airplay /\ ~service.suspended
          /\ service = [airplay |-> service.airplay, suspended |-> service.suspended,
                        voice |-> service.voice]
      BY DEF Init, Firmware!Init
    <3> QED
      BY <3>1 DEF Init, Firmware!Init, Firmware!NoUpdate, Firmware!Whole, OtaInv, OtaFields,
         ImagesWhole, ServicesKept, SlotNow
  <2> QED
    BY <2>1, <2>2
<1>2. Inv /\ [Next]_vars => Inv'
  <2> SUFFICES ASSUME Inv, [Next]_vars PROVE Inv'
    OBVIOUS
  <2>3. LinkInv'
    <3>1. CASE Link!Next
      BY <3>1, LinkStep
    <3>2. Link!Next \/ UNCHANGED linkVars
      BY DEF Next, vars, LinkEnvironment, LinkDevice, UpdateNext, LogsNext, ClockNext,
             SessionNext, PairingNext, Only, PtpRests, Link!Next
    <3> QED
      BY <3>1, <3>2 DEF linkVars, LinkInv, LinkFields, StationTries, WifiOffForCable
  <2>4. OtaInv'
    <3>1. CASE Firmware!Next
      BY <3>1, OtaStep
    <3>2. Firmware!Next \/ UNCHANGED otaVars
      BY DEF Next, vars, LinkEnvironment, LinkDevice, UpdateNext, LogsNext, ClockNext,
             SessionNext, PairingNext, Only, LinkRests, PtpRests
    <3> QED
      BY <3>1, <3>2
      DEF otaVars, OtaInv, OtaFields, ImagesWhole, ServicesKept, SlotNow, Firmware!Whole
  <2> QED
    BY <2>3, <2>4
<1>3. Inv => StaysInService
  <2> SUFFICES ASSUME Inv PROVE StaysInService
    OBVIOUS
  <2>1. Link!NeverUnreachable
    BY DEF LinkInv, StationTries, WifiOffForCable, Link!NeverUnreachable, Link!Seeking
  <2>2. Firmware!Other \in {"a", "b"}
    <3>1. \E s \in {"a", "b"} : s # running
      BY DEF OtaInv, OtaFields
    <3> QED
      BY <3>1 DEF Firmware!Other, Firmware!BootSlots
  <2>3. Firmware!UpdateSafe
    BY <2>2 DEF OtaInv, OtaFields, ImagesWhole, ServicesKept, Firmware!UpdateSafe,
           Firmware!BootsWhole, Firmware!ServicesReturn
  <2> QED
    BY <2>1, <2>3 DEF StaysInService
<1> QED
  BY <1>1, <1>2, <1>3, PTL DEF Spec

\* Sessions are kept apart, however messages, masters, callers, replacements
\* and clean-ups interleave: the offset is the named master's, and the last
\* client leaves nothing switched on (ptp_clock.c, rtsp_server.c's cleanup).
THEOREM SessionsStayApart == Spec => []SessionsKeptApart
<1> DEFINE Inv == ClockInv /\ SessionInv
<1>1. Init => Inv
  <2> SUFFICES ASSUME Init PROVE Inv
    OBVIOUS
  <2>1. ClockInv
    BY DEF Init, Ptp!Init, Ptp!Deaf, Ptp!Zero, ClockInv, ClockFields, OneMaster
  <2>2. SessionInv
    BY DEF Init, Services!Init, Services!Free, SessionInv, SessionFields, SomebodyStops
  <2> QED
    BY <2>1, <2>2
<1>2. Inv /\ [Next]_vars => Inv'
  <2> SUFFICES ASSUME Inv, [Next]_vars PROVE Inv'
    OBVIOUS
  <2>3. ClockInv'
    <3>1. CASE Ptp!Next
      BY <3>1, ClockStep
    <3>2. Ptp!Next \/ UNCHANGED ptpVars
      BY DEF Next, vars, LinkEnvironment, LinkDevice, UpdateNext, LogsNext, ClockNext,
             SessionNext, PairingNext, Only, LinkRests
    <3> QED
      BY <3>1, <3>2 DEF ptpVars, ClockInv, ClockFields, OneMaster
  <2>4. SessionInv'
    <3>1. CASE Services!Next
      BY <3>1, SessionStep
    <3>2. Services!Next \/ UNCHANGED svcVars
      BY DEF Next, vars, LinkEnvironment, LinkDevice, UpdateNext, LogsNext, ClockNext,
             SessionNext, PairingNext, Only, LinkRests, PtpRests
    <3> QED
      BY <3>1, <3>2 DEF svcVars, SessionInv, SessionFields, SomebodyStops
  <2> QED
    BY <2>3, <2>4
<1>3. Inv => SessionsKeptApart
  <2> SUFFICES ASSUME Inv PROVE SessionsKeptApart
    OBVIOUS
  <2>1. Ptp!NamedMasterOnly
    BY DEF ClockInv, OneMaster, Ptp!NamedMasterOnly, Ptp!Named, Ptp!Callers
  <2>2. Services!LeavesNothing
    BY DEF SessionInv, SomebodyStops, Services!LeavesNothing, Services!Gone, Services!At
  <2> QED
    BY <2>1, <2>2 DEF SessionsKeptApart
<1> QED
  BY <1>1, <1>2, <1>3, PTL DEF Spec

-----------------------------------------------------------------------------
(* A sender and the device agree (Pairing).                                  *)
HapNow(h) ==
  /\ h = [exists |-> h.exists, srp |-> h.srp, verified |-> h.verified, setup |-> h.setup,
          verify |-> h.verify, secret |-> h.secret, established |-> h.established,
          ekey |-> h.ekey, dkey |-> h.dkey, enonce |-> h.enonce, dnonce |-> h.dnonce]
  /\ h.exists \in BOOLEAN /\ h.established \in BOOLEAN
  /\ h.enonce \in Nat /\ h.dnonce \in Nat /\ h.verify \in {0, 2, 4}

PairHistNow(p) ==
  p = [conns |-> p.conns, exchanges |-> p.exchanges, commands |-> p.commands,
       oom |-> p.oom, garbled |-> p.garbled]

PairFields ==
  /\ HapNow(hap) /\ PairHistNow(pairHist) /\ pairHist.garbled \in BOOLEAN
  /\ link = [open |-> link.open, encrypted |-> link.encrypted, header |-> link.header]
  /\ link.open \in BOOLEAN /\ link.encrypted \in BOOLEAN /\ link.header \in BOOLEAN
  /\ peer = [path |-> peer.path, stage |-> peer.stage, secret |-> peer.secret,
             encrypted |-> peer.encrypted, wnonce |-> peer.wnonce, rnonce |-> peer.rnonce]
  /\ peer.encrypted \in BOOLEAN /\ peer.wnonce \in Nat /\ peer.rnonce \in Nat
  /\ peer.path \in {"none", "setup", "verify", "raw"}
  /\ peer.stage \in {"away", "new", "first", "answered", "second", "ready", "commanded", "lost"}

\* What is on its way to the device is what the device is ready to read, whoever
\* sent it: a request in clear, or a block under its key and number.
WireFits ==
  \/ wire = << >> /\ ~link.header
  \/ Len(wire) = 1 /\ wire = <<wire[1]>> /\ ~link.header /\ ~link.encrypted /\ wire[1].part = "plain"
  \/ /\ Len(wire) = 2 /\ wire = <<wire[1], wire[2]>> /\ ~link.header /\ link.encrypted
     /\ wire[1].part = "length" /\ wire[2].part = "block"
     /\ wire[2].key = hap.dkey /\ wire[2].nonce = hap.dnonce
  \/ /\ Len(wire) = 1 /\ wire = <<wire[1]>> /\ link.header /\ link.encrypted /\ wire[1].part = "block"
     /\ wire[1].key = hap.dkey /\ wire[1].nonce = hap.dnonce

\* The sender asks one thing at a time, and the device answers it in one piece
\* until the channel is encrypted.
Plain(says) ==
  [part |-> "plain", says |-> says, key |-> Pair!NoKey, nonce |-> 0, last |-> TRUE]

OneAnswer == replies = << >> \/ (Len(replies) = 1 /\ replies = <<replies[1]>> /\ replies[1].last)

TakesTurns ==
  /\ ~link.open => peer.stage = "away" /\ wire = << >> /\ replies = << >>
  /\ peer.stage = "away" <=> peer.path = "none"
  /\ peer.stage # "away" /\ wire # << >> => replies = << >>
  /\ peer.stage \in {"new", "answered", "ready", "lost"} => wire = << >> /\ replies = << >>
  /\ peer.stage \in {"new", "first", "answered"} => ~link.encrypted
  /\ peer.stage \in {"first", "second"} =>
       /\ OneAnswer
       /\ wire # << >> => /\ ~link.encrypted /\ wire[1].secret = peer.secret
                          /\ peer.stage = "first" <=> wire[1].req = "m1"
                          /\ wire[1].req # "command"
  /\ peer.stage = "first" /\ replies # << >> => replies[1].part = "plain"
  /\ peer.stage \in {"new", "first", "answered", "second"} => 
       ~peer.encrypted /\ peer.rnonce = 0 /\ peer.wnonce = 0

\* Once the sender takes itself for paired, both have the same keys and numbers.
SetupKeyed ==
  /\ hap.exists /\ link.encrypted /\ hap.established /\ hap.secret = peer.secret
  /\ hap.ekey = Pair!Key(peer.secret, "read") /\ hap.dkey = Pair!Key(peer.secret, "write")

Sealed(key, nonce, n, whole) ==
  [i \in 1 .. n |-> [part |-> "block", says |-> "ok", key |-> key,
                     nonce |-> nonce + i - 1, last |-> whole /\ i = n]]

PairedBySetup ==
  /\ ~link.encrypted => ~hap.established
  /\ \/ peer.stage = "first" /\ replies # << >> /\ replies[1].says = "m2"
     \/ peer.stage = "answered"
     \/ peer.stage = "second" /\ wire # << >>
     => hap.exists /\ hap.srp = peer.secret
  /\ peer.stage = "second" /\ replies # << >> =>
       /\ replies[1].part = "plain"
       /\ IF replies[1].says = "m4" THEN SetupKeyed /\ hap.enonce = 0 /\ hap.dnonce = 0
          ELSE ~link.encrypted
  /\ peer.stage \in {"ready", "commanded"} => SetupKeyed /\ peer.encrypted
  /\ peer.stage = "ready" => hap.enonce = peer.rnonce /\ hap.dnonce = peer.wnonce
  /\ peer.stage = "commanded" /\ wire # << >> =>
       /\ hap.enonce = peer.rnonce /\ hap.dnonce + 1 = peer.wnonce
       /\ wire[Len(wire)].req = "command"
  /\ peer.stage = "commanded" /\ wire = << >> =>
       /\ hap.dnonce = peer.wnonce
       /\ \E whole \in BOOLEAN : replies = Sealed(hap.ekey, peer.rnonce, Len(replies), whole)
       /\ Len(replies) \in Nat /\ hap.enonce = peer.rnonce + Len(replies)

PairedRaw ==
  /\ ~link.encrypted /\ ~peer.encrypted
  /\ \/ peer.stage = "first" /\ replies # << >> /\ replies[1].says = "m2"
     \/ peer.stage = "answered"
     \/ peer.stage = "second" /\ wire # << >>
     => hap.exists /\ hap.verify = 2 /\ hap.secret = peer.secret
  /\ peer.stage \in {"second", "commanded"} =>
       OneAnswer /\ (replies # << >> => replies[1].part = "plain")
  /\ \/ peer.stage = "second" /\ replies # << >> /\ replies[1].says # "busy"
     \/ peer.stage \in {"ready", "commanded"}
     => hap.exists /\ hap.established /\ hap.secret = peer.secret
  /\ peer.stage = "commanded" /\ wire # << >> => wire[1].req = "command"

PairVerified ==
  /\ peer.stage \notin {"ready", "commanded"}
  /\ ~link.encrypted => hap.verify # 4
  /\ peer.stage = "second" /\ replies # << >> =>
       \/ replies[1].part # "plain"
       \/ replies[1].says # "m4" /\ ~link.encrypted

PairInv ==
  /\ PairFields /\ WireFits /\ TakesTurns
  /\ peer.path = "setup" => PairedBySetup
  /\ peer.path = "raw" => PairedRaw
  /\ peer.path = "verify" => PairVerified
  /\ pairHist.garbled \/ peer.stage = "lost" => peer.path \in {"none", "verify"}

-----------------------------------------------------------------------------
(* Steps of the pairing.                                                     *)

LEMMA OneIs ==
  ASSUME NEW x
  PROVE  /\ Tail(<<x>>) = << >> /\ Head(<<x>>) = x /\ <<x>> # << >> /\ Len(<<x>>) = 1
         /\ <<x>>[1] = x /\ << >> \o <<x>> = <<x>> /\ << >> \o << >> = << >> /\ Len(<< >>) = 0
OBVIOUS

LEMMA TwoIs ==
  ASSUME NEW x, NEW y
  PROVE  /\ Tail(<<x, y>>) = <<y>> /\ Head(<<x, y>>) = x /\ <<x, y>> # << >>
         /\ Len(<<x, y>>) = 2 /\ <<x, y>>[1] = x /\ <<x, y>>[2] = y
         /\ << >> \o <<x, y>> = <<x, y>>
OBVIOUS

LEMMA SingleIs ==
  ASSUME NEW f, f = [i \in 1 .. 1 |-> f[i]]
  PROVE  f = <<f[1]>>
OBVIOUS

LEMMA SequenceOf ==
  ASSUME NEW n \in Nat, NEW f, f = [i \in 1 .. n |-> f[i]]
  PROVE  /\ f \in Seq({f[i] : i \in 1 .. n}) /\ Len(f) = n
         /\ n > 0 => /\ f # << >> /\ Head(f) = f[1] /\ n - 1 \in Nat
                     /\ Tail(f) = [i \in 1 .. (n - 1) |-> f[i + 1]] /\ Len(Tail(f)) = n - 1
         /\ n = 0 => f = << >>
<1>1. f \in Seq({f[i] : i \in 1 .. n}) /\ Len(f) = n
  OBVIOUS
<1>2. n = 0 => f = << >>
  BY <1>1
<1>3. ASSUME n > 0
      PROVE  /\ f # << >> /\ Head(f) = f[1] /\ n - 1 \in Nat
             /\ Tail(f) = [i \in 1 .. (n - 1) |-> f[i + 1]] /\ Len(Tail(f)) = n - 1
  <2>1. f # << >> /\ n - 1 \in Nat
    BY <1>1, <1>3
  <2>2. Head(f) = f[1] /\ Tail(f) = [i \in 1 .. (Len(f) - 1) |-> f[i + 1]]
    BY <1>1, <2>1, HeadTailProperties
  <2> QED
    BY <1>1, <2>1, <2>2
<1> QED
  BY <1>1, <1>2, <1>3

\* What the channel does with a message: every field but the number is kept.
LEMMA SentIs ==
  ASSUME PairFields, NEW h, HapNow(h), NEW enc \in BOOLEAN, NEW says, NEW n \in Nat, n > 0,
         Pair!Sent(h, enc, says, n)
  PROVE  /\ HapNow(hap') /\ PairHistNow(pairHist') /\ pairHist'.garbled = pairHist.garbled
         /\ hap'.exists = h.exists /\ hap'.srp = h.srp /\ hap'.verify = h.verify
         /\ hap'.secret = h.secret /\ hap'.established = h.established
         /\ hap'.ekey = h.ekey /\ hap'.dkey = h.dkey /\ hap'.dnonce = h.dnonce
         /\ ~enc => hap' = h
         /\ ~enc /\ replies = << >> => replies' = << >> \/ replies' = <<Plain(says)>>
         /\ enc /\ replies = << >> =>
              \E sent \in 0 .. n : /\ hap'.enonce = h.enonce + sent
                                  /\ replies' = Pair!Blocks(h, TRUE, says, n, sent)
<1>1. PICK sent \in 0 .. n :
        /\ pairHist' = [pairHist EXCEPT !.oom = IF sent < n THEN @ + 1 ELSE @]
        /\ replies' = replies \o Pair!Blocks(h, enc, says, n, sent)
        /\ hap' = Pair!Counted(h, enc, sent)
  BY DEF Pair!Sent
<1>2. PairHistNow(pairHist') /\ pairHist'.garbled = pairHist.garbled
  BY <1>1 DEF PairFields, PairHistNow
<1>3. /\ HapNow(hap')
      /\ hap'.exists = h.exists /\ hap'.srp = h.srp /\ hap'.verify = h.verify
      /\ hap'.secret = h.secret /\ hap'.established = h.established
      /\ hap'.ekey = h.ekey /\ hap'.dkey = h.dkey /\ hap'.dnonce = h.dnonce
      /\ ~enc => hap' = h
      /\ enc => hap'.enonce = h.enonce + sent
  BY <1>1 DEF HapNow, Pair!Counted
<1>4. ASSUME replies = << >> PROVE replies' = Pair!Blocks(h, enc, says, n, sent)
  <2>1. CASE enc
    <3> DEFINE b == Pair!Blocks(h, enc, says, n, sent)
    <3>1. b = [i \in 1 .. sent |-> b[i]]
      BY <2>1 DEF Pair!Blocks
    <3>2. replies' = << >> \o b
      BY <1>1, <1>4
    <3> HIDE DEF b
    <3>3. << >> \o b = b
      BY <3>1, SequenceOf, ConcatEmptySeq
    <3> QED
      BY <3>2, <3>3 DEF b
  <2>2. CASE ~enc
    BY <1>1, <1>4, <2>2, OneIs DEF Pair!Blocks
  <2> QED
    BY <2>1, <2>2
<1>5. ASSUME ~enc, replies = << >>  PROVE replies' = << >> \/ replies' = <<Plain(says)>>
  BY <1>4, <1>5 DEF Pair!Blocks, Plain
<1>6. ASSUME enc, replies = << >>
      PROVE  \E s \in 0 .. n : /\ hap'.enonce = h.enonce + s
                               /\ replies' = Pair!Blocks(h, TRUE, says, n, s)
  <2>1. Pair!Blocks(h, enc, says, n, sent) = Pair!Blocks(h, TRUE, says, n, sent)
    BY <1>6 DEF Pair!Blocks
  <2> WITNESS sent \in 0 .. n
  <2> QED
    BY <1>3, <1>4, <1>6, <2>1
<1> QED
  BY <1>2, <1>3, <1>5, <1>6

\* What an answer keeps, whatever was asked.
LEMMA StepIs ==
  ASSUME NEW h, HapNow(h), NEW r
  PROVE  HapNow(Pair!Step(h, r).h) /\ Pair!Step(h, r).h.exists = h.exists
<1> USE DEF HapNow
<1>1. CASE peer.path = "raw"
  BY <1>1 DEF Pair!Step, Pair!VerifyRaw
<1>2. CASE peer.path = "setup"
  BY <1>2 DEF Pair!Step, Pair!SetupM1, Pair!SetupM3
<1>3. CASE peer.path \notin {"raw", "setup"}
  BY <1>3 DEF Pair!Step, Pair!VerifyM1, Pair!VerifyM3
<1> QED
  BY <1>1, <1>2, <1>3

\* The answer that needs no memory.
LEMMA BusyIs ==
  ASSUME PairFields, NEW h, HapNow(h), Pair!AnswersNoMemory(h)
  PROVE  /\ HapNow(hap') /\ PairHistNow(pairHist') /\ pairHist'.garbled = pairHist.garbled
         /\ hap'.exists = h.exists /\ (~link.encrypted => hap' = h)
         /\ link' = [open |-> link.open, encrypted |-> link.encrypted, header |-> FALSE]
         /\ ~link.encrypted /\ replies = << >> => replies' = <<Plain("busy")>>
<1>1. /\ pairHist' = [pairHist EXCEPT !.oom = @ + 1] /\ link' = [link EXCEPT !.header = FALSE]
      /\ hap' = Pair!Counted(h, link.encrypted, 1)
      /\ replies' = replies \o Pair!Blocks(h, link.encrypted, "busy", 1, 1)
  BY DEF Pair!AnswersNoMemory
<1>2. PairHistNow(pairHist') /\ pairHist'.garbled = pairHist.garbled
  BY <1>1 DEF PairFields, PairHistNow
<1>3. HapNow(hap') /\ hap'.exists = h.exists /\ (~link.encrypted => hap' = h)
  <2>1. CASE link.encrypted
    BY <1>1, <2>1 DEF HapNow, Pair!Counted
  <2>2. CASE ~link.encrypted
    BY <1>1, <2>2 DEF Pair!Counted
  <2> QED
    BY <2>1, <2>2
<1>4. link' = [open |-> link.open, encrypted |-> link.encrypted, header |-> FALSE]
  BY <1>1 DEF PairFields
<1>5. ASSUME ~link.encrypted, replies = << >>  PROVE replies' = <<Plain("busy")>>
  <2>1. Pair!Blocks(h, link.encrypted, "busy", 1, 1) = <<Plain("busy")>>
    <3>1. ~(1 < 1)
      OBVIOUS
    <3> QED
      BY <1>5, <3>1, Zenon DEF Pair!Blocks, Plain
  <2> QED
    BY <1>1, <1>5, <2>1, OneIs
<1> QED
  BY <1>2, <1>3, <1>4, <1>5

\* The answer of a pairing step: sent in clear, unless ReplyEncrypted.
LEMMA AnswerIs ==
  ASSUME PairFields, NEW st, HapNow(st.h), Pair!Answers(st)
  PROVE  /\ HapNow(hap') /\ PairHistNow(pairHist') /\ pairHist'.garbled = pairHist.garbled
         /\ hap'.exists = st.h.exists
         /\ link' = [open |-> link.open, encrypted |-> link'.encrypted, header |-> FALSE]
         /\ link'.encrypted \in BOOLEAN /\ (link'.encrypted <=> Pair!Encrypts(st.h))
         /\ ~Pair!ReplyEncrypted(st.h) => hap' = st.h
         /\ replies = << >> =>
              \/ replies' = << >>
              \/ /\ replies' = <<replies'[1]>> /\ Len(replies') = 1 /\ replies'[1].last
                 /\ replies'[1].part = IF Pair!ReplyEncrypted(st.h) THEN "block" ELSE "plain"
                 /\ replies'[1].says = IF st.says = "none" THEN "error" ELSE st.says
<1> DEFINE says == IF st.says = "none" THEN "error" ELSE st.says
           enc == Pair!ReplyEncrypted(st.h)
           h == st.h
<1>1. /\ Pair!Sent(h, enc, says, 1)
      /\ link' = [link EXCEPT !.encrypted = Pair!Encrypts(h), !.header = FALSE]
  BY DEF Pair!Answers
<1>2. enc \in BOOLEAN /\ Pair!Encrypts(h) \in BOOLEAN
  BY DEF Pair!ReplyEncrypted, Pair!Encrypts, PairFields
<1>3. /\ link' = [open |-> link.open, encrypted |-> link'.encrypted, header |-> FALSE]
      /\ link'.encrypted \in BOOLEAN /\ link'.encrypted = Pair!Encrypts(h)
  BY <1>1, <1>2 DEF PairFields
<1>4. HapNow(h)
  OBVIOUS
<1> HIDE DEF says, enc, h
<1>5. /\ HapNow(hap') /\ PairHistNow(pairHist') /\ pairHist'.garbled = pairHist.garbled
      /\ hap'.exists = h.exists /\ (~enc => hap' = h)
  <2>1. 1 \in Nat /\ 1 > 0
    OBVIOUS
  <2> QED
    BY <1>1, <1>2, <1>4, <2>1, SentIs, Zenon
<1>50. 1 \in Nat /\ 1 > 0
  OBVIOUS
<1>51. ASSUME replies = << >>
       PROVE  \E sent \in 0 .. 1 : replies' = Pair!Blocks(h, enc, says, 1, sent)
  <2>1. CASE enc
    <3>1. \E sent \in 0 .. 1 : /\ hap'.enonce = h.enonce + sent
                              /\ replies' = Pair!Blocks(h, TRUE, says, 1, sent)
      BY <1>1, <1>2, <1>4, <1>50, <1>51, <2>1, SentIs, Zenon
    <3>2. \A sent \in 0 .. 1 :
            Pair!Blocks(h, TRUE, says, 1, sent) = Pair!Blocks(h, enc, says, 1, sent)
      BY <2>1 DEF Pair!Blocks
    <3> QED
      BY <3>1, <3>2
  <2>2. CASE ~enc
    <3>1. replies' = << >> \/ replies' = <<Plain(says)>>
      BY <1>1, <1>2, <1>4, <1>50, <1>51, <2>2, SentIs, Zenon
    <3>2. Pair!Blocks(h, enc, says, 1, 0) = << >>
      BY <2>2 DEF Pair!Blocks
    <3>3. Pair!Blocks(h, enc, says, 1, 1) = <<Plain(says)>>
      <4>1. ~(1 < 1)
        OBVIOUS
      <4> QED
        BY <2>2, <4>1, Zenon DEF Pair!Blocks, Plain
    <3>4. 0 \in 0 .. 1 /\ 1 \in 0 .. 1
      OBVIOUS
    <3> QED
      BY <3>1, <3>2, <3>3, <3>4, Zenon
  <2> QED
    BY <1>2, <2>1, <2>2
<1>6. ASSUME replies = << >>
      PROVE  \/ replies' = << >>
             \/ /\ replies' = <<replies'[1]>> /\ Len(replies') = 1 /\ replies'[1].last
                /\ replies'[1].part = IF enc THEN "block" ELSE "plain"
                /\ replies'[1].says = says
  <2>1. PICK sent \in 0 .. 1 : replies' = Pair!Blocks(h, enc, says, 1, sent)
    BY <1>6, <1>51
  <2>2. CASE ~enc
    BY <2>1, <2>2, OneIs DEF Pair!Blocks
  <2>3. CASE enc /\ sent = 0
    BY <2>1, <2>3 DEF Pair!Blocks
  <2>4. CASE enc /\ sent = 1
    <3> DEFINE b == [part |-> "block", says |-> says, key |-> h.ekey, nonce |-> h.enonce + 1 - 1,
                     last |-> TRUE]
    <3> DEFINE all == Pair!Blocks(h, enc, says, 1, sent)
    <3>00. all = [i \in 1 .. 1 |-> [part |-> "block", says |-> says, key |-> h.ekey,
                                   nonce |-> h.enonce + i - 1, last |-> i = 1]]
      BY <2>4, Zenon DEF Pair!Blocks
    <3>01. 1 \in 1 .. 1 /\ (1 = 1) = TRUE
      OBVIOUS
    <3>02. all[1] = [part |-> "block", says |-> says, key |-> h.ekey,
                    nonce |-> h.enonce + 1 - 1, last |-> 1 = 1]
      BY <3>00, <3>01, Zenon
    <3>0. all = [i \in 1 .. 1 |-> all[i]] /\ all[1] = b
      BY <3>00, <3>01, <3>02, Zenon
    <3>1. replies' = <<b>>
      <4>1. replies' = all
        BY <2>1
      <4> HIDE DEF all, b
      <4> QED
        BY <3>0, <4>1, SingleIs
    <3>2. b.last /\ b.part = "block" /\ b.says = says
      OBVIOUS
    <3> HIDE DEF b
    <3> QED
      BY <2>4, <3>1, <3>2, OneIs
  <2> QED
    BY <2>1, <2>2, <2>3, <2>4
<1> QED
  BY <1>1, <1>3, <1>5, <1>6 DEF says, enc, h

\* The session of a connection's first request is a fresh one.
LEMMA SessionIs ==
  ASSUME PairFields
  PROVE  /\ HapNow(Pair!Session) /\ Pair!Session.exists
         /\ hap.exists => Pair!Session = hap
         /\ ~hap.exists => /\ ~Pair!Session.established /\ Pair!Session.verify = 0
BY DEF PairFields, HapNow, Pair!Session, Pair!NoSession

\* Whatever the request, its sender and the state of the pairing.
LEMMA DispatchIs ==
  ASSUME PairFields, NEW h, HapNow(h), NEW r, Pair!Dispatch(h, r)
  PROVE  /\ HapNow(hap') /\ PairHistNow(pairHist') /\ pairHist'.garbled = pairHist.garbled
         /\ link' = [open |-> link.open, encrypted |-> link'.encrypted, header |-> FALSE]
         /\ link'.encrypted \in BOOLEAN
<1>1. CASE r.req = "command"
  <2>1. PICK n \in 1 .. MaxBlocks :
          Pair!Sent(h, link.encrypted, "ok", n) /\ link' = [link EXCEPT !.header = FALSE]
    BY <1>1 DEF Pair!Dispatch
  <2>2. n \in Nat /\ n > 0 /\ link.encrypted \in BOOLEAN
    BY NetworkAssumption DEF PairFields
  <2>3. /\ link' = [open |-> link.open, encrypted |-> link.encrypted, header |-> FALSE]
    BY <2>1 DEF PairFields
  <2>4. HapNow(hap') /\ PairHistNow(pairHist') /\ pairHist'.garbled = pairHist.garbled
    BY <2>1, <2>2, SentIs
  <2> QED
    BY <2>2, <2>3, <2>4
<1>2. CASE Pair!Answers(Pair!Step(h, r))
  <2> DEFINE st == Pair!Step(h, r)
  <2>1. HapNow(st.h)
    BY StepIs
  <2> HIDE DEF st
  <2> QED
    BY <1>2, <2>1, AnswerIs DEF st
<1>3. CASE Pair!AnswersNoMemory(h)
  BY <1>3, BusyIs DEF PairFields
<1>4. CASE Pair!Answers(Pair!SetupM1Fails(h))
  <2> DEFINE st == Pair!SetupM1Fails(h)
  <2>1. HapNow(st.h)
    BY DEF Pair!SetupM1Fails, HapNow
  <2> HIDE DEF st
  <2> QED
    BY <1>4, <2>1, AnswerIs DEF st
<1> QED
  BY <1>1, <1>2, <1>3, <1>4 DEF Pair!Dispatch

\* What a request in clear is: the first or second one of a pairing, in turn.
LEMMA InTurn ==
  ASSUME PairInv, Pair!ReadPlain
  PROVE  /\ wire = <<wire[1]>> /\ wire' = << >> /\ Pair!Dispatch(Pair!Session, wire[1])
         /\ ~link.encrypted /\ peer' = peer /\ link.open
         /\ peer.stage \in {"away", "first", "second", "commanded"}
         /\ peer.stage # "away" => replies = << >>
<1>1. /\ link.open /\ ~link.encrypted /\ wire # << >> /\ wire' = Tail(wire) /\ peer' = peer
      /\ Pair!Dispatch(Pair!Session, Head(wire))
  BY DEF Pair!ReadPlain
<1>2. wire = <<wire[1]>>
  BY <1>1 DEF PairInv, WireFits
<1>3. Tail(wire) = << >> /\ Head(wire) = wire[1]
  BY <1>2, OneIs
<1>4. /\ peer.stage \in {"away", "first", "second", "commanded"}
      /\ peer.stage # "away" => replies = << >>
  BY <1>1 DEF PairInv, PairFields, TakesTurns
<1> QED
  BY <1>1, <1>2, <1>3, <1>4

\* hap_pair_setup_m1 and _m3, answered.
LEMMA SetupAnswered ==
  ASSUME PairInv, Pair!ReadPlain, peer.path = "setup"
  PROVE  /\ peer.stage \in {"first", "second"}
         /\ ~link'.encrypted => ~hap'.established
         /\ \/ replies' = << >>
            \/ /\ replies' = <<replies'[1]>> /\ Len(replies') = 1 /\ replies'[1].last
               /\ replies'[1].part = "plain"
               /\ peer.stage = "first" => ~link'.encrypted
               /\ peer.stage = "first" /\ replies'[1].says = "m2" =>
                    hap'.exists /\ hap'.srp = peer.secret
               /\ peer.stage = "second" =>
                    IF replies'[1].says = "m4"
                    THEN SetupKeyed' /\ hap'.enonce = 0 /\ hap'.dnonce = 0
                    ELSE ~link'.encrypted
         /\ peer.stage = "first" => ~link'.encrypted
<1> DEFINE h == Pair!Session
           r == wire[1]
<1>1. /\ wire # << >> /\ Pair!Dispatch(h, r) /\ ~link.encrypted /\ peer' = peer
      /\ replies = << >> /\ PairFields
  BY InTurn, OneIs DEF PairInv, TakesTurns
<1>2. peer.stage \in {"first", "second"}
  BY <1>1, InTurn DEF PairInv, PairedBySetup, SetupKeyed, TakesTurns
<1>3. /\ HapNow(h) /\ h.exists /\ ~h.established /\ (hap.exists => h = hap)
  BY <1>1, SessionIs DEF PairInv, PairedBySetup
<1>4. /\ r.req # "command" /\ r.secret = peer.secret /\ (peer.stage = "first" <=> r.req = "m1")
  BY <1>1, <1>2 DEF PairInv, TakesTurns
<1>5. peer.stage = "second" => h = hap /\ h.srp = peer.secret
  BY <1>1, <1>3 DEF PairInv, PairedBySetup
<1> HIDE DEF h, r
<1>6. CASE Pair!AnswersNoMemory(h)
  <2>1. hap' = h /\ ~link'.encrypted /\ replies' = <<Plain("busy")>>
    BY <1>1, <1>3, <1>6, BusyIs
  <2>2. replies'[1] = Plain("busy") /\ Len(replies') = 1
    BY <2>1, OneIs
  <2> QED
    BY <1>2, <1>3, <2>1, <2>2 DEF Plain
<1>7. ASSUME NEW st, HapNow(st.h), Pair!Answers(st), st.h.exists,
             st.says = "m4" \/ ~st.h.established,
             peer.stage = "first" => /\ st.says # "m4"
                                     /\ st.says = "m2" => st.h.srp = peer.secret,
             st.says = "m4" => /\ st.h.established /\ st.h.setup = 4 /\ st.h.secret = peer.secret
                               /\ st.h.ekey = Pair!Key(peer.secret, "read")
                               /\ st.h.dkey = Pair!Key(peer.secret, "write")
                               /\ st.h.enonce = 0 /\ st.h.dnonce = 0
      PROVE  /\ ~link'.encrypted => ~hap'.established
             /\ \/ replies' = << >>
                \/ /\ replies' = <<replies'[1]>> /\ Len(replies') = 1 /\ replies'[1].last
                   /\ replies'[1].part = "plain"
                   /\ peer.stage = "first" => ~link'.encrypted
                   /\ peer.stage = "first" /\ replies'[1].says = "m2" =>
                        hap'.exists /\ hap'.srp = peer.secret
                   /\ peer.stage = "second" =>
                        IF replies'[1].says = "m4"
                        THEN SetupKeyed' /\ hap'.enonce = 0 /\ hap'.dnonce = 0
                        ELSE ~link'.encrypted
             /\ peer.stage = "first" => ~link'.encrypted
  <2>1. ~Pair!ReplyEncrypted(st.h)
    BY <1>1 DEF Pair!ReplyEncrypted
  <2>2. Pair!Encrypts(st.h) <=> st.says = "m4"
    BY <1>1, <1>7 DEF Pair!Encrypts
  <2>3. /\ hap' = st.h /\ (link'.encrypted <=> st.says = "m4")
        /\ \/ replies' = << >>
           \/ /\ replies' = <<replies'[1]>> /\ Len(replies') = 1 /\ replies'[1].last
              /\ replies'[1].part = "plain"
              /\ replies'[1].says = IF st.says = "none" THEN "error" ELSE st.says
    BY <1>1, <1>7, <2>1, <2>2, AnswerIs
  <2>4. st.says = "m4" => SetupKeyed' /\ hap'.enonce = 0 /\ hap'.dnonce = 0
    BY <1>1, <1>7, <2>3 DEF SetupKeyed
  <2>5. ~link'.encrypted => ~hap'.established
    BY <1>7, <2>3
  <2>6. peer.stage = "first" => ~link'.encrypted
    BY <1>7, <2>3
  <2>7. ASSUME replies' # << >>
        PROVE  /\ replies' = <<replies'[1]>> /\ Len(replies') = 1 /\ replies'[1].last
               /\ replies'[1].part = "plain"
               /\ peer.stage = "first" /\ replies'[1].says = "m2" =>
                        hap'.exists /\ hap'.srp = peer.secret
               /\ peer.stage = "second" =>
                    IF replies'[1].says = "m4"
                    THEN SetupKeyed' /\ hap'.enonce = 0 /\ hap'.dnonce = 0
                    ELSE ~link'.encrypted
    BY <1>7, <2>3, <2>4, <2>7
  <2> QED
    BY <2>5, <2>6, <2>7
<1>8. CASE Pair!Answers(Pair!Step(h, r)) /\ peer.stage = "first"
  <2>1. Pair!Step(h, r) = Pair!SetupM1(h, r)
    BY <1>4, <1>8 DEF Pair!Step
  <2> DEFINE st == Pair!SetupM1(h, r)
  <2>2. HapNow(st.h) /\ st.h.exists /\ st.says = "m2" /\ ~st.h.established
        /\ st.h.srp = peer.secret
    BY <1>3, <1>4 DEF Pair!SetupM1, HapNow
  <2>3. Pair!Answers(st)
    BY <1>8, <2>1
  <2> HIDE DEF st
  <2> QED
    BY <1>2, <1>7, <2>2, <2>3
<1>9. CASE Pair!Answers(Pair!SetupM1Fails(h)) /\ r.req = "m1"
  <2> DEFINE st == Pair!SetupM1Fails(h)
  <2>2. HapNow(st.h) /\ st.h.exists /\ st.says = "none" /\ ~st.h.established
    BY <1>3, <1>4 DEF Pair!SetupM1Fails, HapNow
  <2>3. Pair!Answers(st)
    BY <1>9
  <2> HIDE DEF st
  <2> QED
    BY <1>2, <1>7, <2>2, <2>3
<1>10. CASE Pair!Answers(Pair!Step(h, r)) /\ peer.stage = "second"
  <2>1. Pair!Step(h, r) = Pair!SetupM3(h, r)
    BY <1>4, <1>10 DEF Pair!Step
  <2> DEFINE st == Pair!SetupM3(h, r)
  <2>2. CASE h.srp # 0 /\ Pair!ProofHolds(r)
    <3>1. /\ HapNow(st.h) /\ st.h.exists /\ st.says = "m4"
          /\ st.h.established /\ st.h.setup = 4 /\ st.h.secret = peer.secret
          /\ st.h.ekey = Pair!Key(peer.secret, "read")
          /\ st.h.dkey = Pair!Key(peer.secret, "write")
          /\ st.h.enonce = 0 /\ st.h.dnonce = 0
      BY <1>3, <1>5, <1>10, <2>2 DEF Pair!SetupM3, HapNow
    <3>2. Pair!Answers(st)
      BY <1>10, <2>1
    <3> HIDE DEF st
    <3> QED
      BY <1>2, <1>7, <1>10, <3>1, <3>2
  <2>3. CASE ~(h.srp # 0 /\ Pair!ProofHolds(r))
    <3>1. st.h = h /\ st.says # "m4"
      BY <2>3 DEF Pair!SetupM3
    <3>2. Pair!Answers(st)
      BY <1>10, <2>1
    <3> HIDE DEF st
    <3>3. HapNow(st.h) /\ st.h.exists /\ ~st.h.established
      BY <1>3, <3>1
    <3> QED
      BY <1>2, <1>7, <1>10, <3>1, <3>2, <3>3
  <2> QED
    BY <2>2, <2>3
<1> QED
  BY <1>1, <1>2, <1>4, <1>6, <1>8, <1>9, <1>10 DEF Pair!Dispatch

\* hap_pair_verify_m1_raw and _m3_raw, answered; a command after them.
LEMMA RawAnswered ==
  ASSUME PairInv, Pair!ReadPlain, peer.path = "raw"
  PROVE  /\ ~link'.encrypted /\ peer.stage \in {"first", "second", "commanded"}
         /\ \/ replies' = << >>
            \/ /\ replies' = <<replies'[1]>> /\ Len(replies') = 1 /\ replies'[1].last
               /\ replies'[1].part = "plain"
               /\ peer.stage = "first" /\ replies'[1].says = "m2" =>
                    hap'.exists /\ hap'.verify = 2 /\ hap'.secret = peer.secret
               /\ peer.stage = "second" /\ replies'[1].says # "busy" =>
                    hap'.exists /\ hap'.established /\ hap'.secret = peer.secret
         /\ peer.stage = "commanded" => hap' = hap
<1> DEFINE h == Pair!Session
           r == wire[1]
<1>1. /\ wire # << >> /\ Pair!Dispatch(h, r) /\ ~link.encrypted /\ peer' = peer
      /\ replies = << >> /\ PairFields
  BY InTurn, OneIs DEF PairInv, TakesTurns
<1>2. peer.stage \in {"first", "second", "commanded"}
  BY <1>1, InTurn DEF PairInv, TakesTurns
<1>3. /\ HapNow(h) /\ h.exists /\ (hap.exists => h = hap)
  BY <1>1, SessionIs
<1>4. /\ peer.stage = "commanded" <=> r.req = "command"
      /\ peer.stage # "commanded" => r.secret = peer.secret
  BY <1>1, <1>2 DEF PairInv, TakesTurns, PairedRaw
<1>5. /\ peer.stage = "second" => h = hap /\ h.verify = 2 /\ h.secret = peer.secret
      /\ peer.stage = "commanded" => h = hap
  BY <1>1, <1>3 DEF PairInv, PairedRaw
<1> HIDE DEF h, r
<1>6. CASE r.req = "command"
  <2>1. PICK n \in 1 .. MaxBlocks :
          Pair!Sent(h, link.encrypted, "ok", n) /\ link' = [link EXCEPT !.header = FALSE]
    BY <1>1, <1>6 DEF Pair!Dispatch
  <2>2. n \in Nat /\ n > 0 /\ link.encrypted \in BOOLEAN
    BY <1>1, NetworkAssumption DEF PairFields
  <2>3. ~link'.encrypted
    BY <1>1, <2>1 DEF PairFields
  <2>4. hap' = h /\ (replies' = << >> \/ replies' = <<Plain("ok")>>)
    BY <1>1, <1>3, <2>1, <2>2, SentIs
  <2>5. replies' = <<Plain("ok")>> => 
          /\ replies' = <<replies'[1]>> /\ Len(replies') = 1 /\ replies'[1] = Plain("ok")
    BY OneIs
  <2> QED
    BY <1>4, <1>5, <1>6, <2>3, <2>4, <2>5 DEF Plain
<1>7. CASE Pair!AnswersNoMemory(h) /\ r.req # "command"
  <2>1. ~link'.encrypted /\ replies' = <<Plain("busy")>>
    BY <1>1, <1>3, <1>7, BusyIs
  <2>2. replies'[1] = Plain("busy") /\ Len(replies') = 1
    BY <2>1, OneIs
  <2> QED
    BY <1>2, <1>4, <1>7, <2>1, <2>2 DEF Plain
<1>8. CASE Pair!Answers(Pair!Step(h, r)) /\ r.req # "command"
  <2> DEFINE st == Pair!VerifyRaw(h, r)
  <2>1. Pair!Step(h, r) = st
    BY DEF Pair!Step
  <2>2. /\ HapNow(st.h) /\ st.h.exists
        /\ peer.stage = "first" /\ st.says = "m2" => st.h.verify = 2 /\ st.h.secret = peer.secret
        /\ peer.stage = "second" => st.h.established /\ st.h.secret = peer.secret
    <3>1. HapNow(st.h) /\ st.h.exists
      BY <1>3, <2>1, StepIs
    <3>2. CASE h.verify = 0
      <4>1. st = [h |-> [h EXCEPT !.secret = r.secret, !.ekey = Pair!Key(r.secret, "aes"),
                                  !.dkey = Pair!Key(r.secret, "iv"), !.verify = 2],
                  says |-> "m2"]
        BY <3>2 DEF Pair!VerifyRaw
      <4> HIDE DEF st
      <4> QED
        <5>1. st.h.verify = 2 /\ st.h.secret = r.secret
          BY <1>3, <4>1 DEF HapNow
        <5>2. peer.stage # "second"
          BY <1>5, <3>2
        <5>3. r.secret = peer.secret \/ peer.stage = "commanded"
          BY <1>4
        <5> QED
          BY <3>1, <5>1, <5>2, <5>3
    <3>3. CASE h.verify = 2
      <4>1. st = [h |-> [h EXCEPT !.ekey = Pair!Key(h.secret, "write"),
                                  !.dkey = Pair!Key(h.secret, "read"),
                                  !.enonce = 0, !.dnonce = 0, !.verify = 4, !.established = TRUE],
                  says |-> "none"]
        BY <3>3 DEF Pair!VerifyRaw
      <4> HIDE DEF st
      <4> QED
        BY <1>3, <1>4, <1>5, <1>8, <3>1, <3>3, <4>1 DEF HapNow
    <3>4. CASE h.verify = 4
      BY <1>3, <1>4, <1>5, <1>8, <3>1, <3>4 DEF Pair!VerifyRaw, HapNow
    <3> QED
      BY <1>3, <3>2, <3>3, <3>4 DEF HapNow
  <2>3. Pair!Answers(st)
    BY <1>8, <2>1
  <2> HIDE DEF st
  <2>4. ~Pair!ReplyEncrypted(st.h) /\ ~Pair!Encrypts(st.h)
    BY <1>1 DEF Pair!ReplyEncrypted, Pair!Encrypts
  <2>5. /\ hap' = st.h /\ ~link'.encrypted
        /\ \/ replies' = << >>
           \/ /\ replies' = <<replies'[1]>> /\ Len(replies') = 1 /\ replies'[1].last
              /\ replies'[1].part = "plain"
              /\ replies'[1].says = IF st.says = "none" THEN "error" ELSE st.says
    BY <1>1, <2>2, <2>3, <2>4, AnswerIs
  <2> QED
    BY <1>2, <1>4, <1>8, <2>2, <2>5
<1> QED
  BY <1>1, <1>6, <1>7, <1>8 DEF Pair!Dispatch

\* hap_pair_verify_m1 and _m3, answered.
LEMMA VerifyAnswered ==
  ASSUME PairInv, Pair!ReadPlain, peer.path = "verify"
  PROVE  /\ peer.stage \in {"first", "second"}
         /\ ~link'.encrypted => hap'.verify # 4
         /\ peer.stage = "first" => ~link'.encrypted
         /\ \/ replies' = << >>
            \/ /\ replies' = <<replies'[1]>> /\ Len(replies') = 1 /\ replies'[1].last
               /\ peer.stage = "first" => replies'[1].part = "plain"
               /\ \/ peer.stage = "first"
                  \/ replies'[1].part # "plain"
                  \/ replies'[1].says # "m4" /\ ~link'.encrypted
<1> DEFINE h == Pair!Session
           r == wire[1]
<1>1. /\ wire # << >> /\ Pair!Dispatch(h, r) /\ ~link.encrypted /\ peer' = peer
      /\ replies = << >> /\ PairFields
  BY InTurn, OneIs DEF PairInv, TakesTurns
<1>2. peer.stage \in {"first", "second"}
  BY <1>1, InTurn DEF PairInv, TakesTurns, PairVerified
<1>3. /\ HapNow(h) /\ h.exists /\ h.verify # 4
  BY <1>1, SessionIs DEF PairInv, PairVerified
<1>4. r.req # "command" /\ (peer.stage = "first" <=> r.req = "m1")
  BY <1>1, <1>2 DEF PairInv, TakesTurns
<1> HIDE DEF h, r
<1>5. CASE Pair!AnswersNoMemory(h)
  <2>1. hap' = h /\ ~link'.encrypted /\ replies' = <<Plain("busy")>>
    BY <1>1, <1>3, <1>5, BusyIs
  <2>2. replies'[1] = Plain("busy") /\ Len(replies') = 1
    BY <2>1, OneIs
  <2> QED
    BY <1>2, <1>3, <2>1, <2>2 DEF Plain
<1>6. CASE Pair!Answers(Pair!Step(h, r))
  <2> DEFINE st == Pair!Step(h, r)
  <2>1. /\ HapNow(st.h) /\ st.h.exists
        /\ peer.stage = "first" => st.h.verify # 4
        /\ st.h.verify = 4 \/ peer.stage = "first" \/ st.says = "none"
    <3>1. HapNow(st.h) /\ st.h.exists
      BY <1>3, StepIs
    <3>2. CASE r.req = "m1"
      <4>1. st = Pair!VerifyM1(h, r)
        BY <3>2 DEF Pair!Step
      <4>2. st.h.verify = 2
        <5>1. st = [h |-> [h EXCEPT !.secret = r.secret, !.ekey = Pair!Key(r.secret, "verify"),
                                    !.verify = 2],
                    says |-> "m2"]
          BY <4>1, Zenon DEF Pair!VerifyM1
        <5> HIDE DEF st
        <5> QED
          BY <1>3, <5>1 DEF HapNow
      <4> HIDE DEF st
      <4> QED
        BY <1>4, <3>1, <3>2, <4>2
    <3>3. CASE r.req # "m1"
      <4>1. st = Pair!VerifyM3(h, r)
        BY <3>3 DEF Pair!Step
      <4>2. st.h.verify = 4 \/ st.says = "none"
        BY <1>3, <4>1 DEF Pair!VerifyM3, HapNow
      <4> HIDE DEF st
      <4> QED
        BY <1>4, <3>1, <3>3, <4>2
    <3> QED
      BY <3>2, <3>3
  <2> HIDE DEF st
  <2>2. /\ Pair!ReplyEncrypted(st.h) <=> st.h.verify = 4
        /\ Pair!Encrypts(st.h) <=> st.h.verify = 4
    BY <1>1 DEF Pair!ReplyEncrypted, Pair!Encrypts
  <2>3. /\ (st.h.verify # 4 => hap' = st.h) /\ (link'.encrypted <=> st.h.verify = 4)
        /\ \/ replies' = << >>
           \/ /\ replies' = <<replies'[1]>> /\ Len(replies') = 1 /\ replies'[1].last
              /\ replies'[1].part = IF st.h.verify = 4 THEN "block" ELSE "plain"
              /\ replies'[1].says = IF st.says = "none" THEN "error" ELSE st.says
    BY <1>1, <1>6, <2>1, <2>2, AnswerIs DEF st
  <2> QED
    BY <1>2, <2>1, <2>3
<1> QED
  BY <1>1, <1>4, <1>5, <1>6 DEF Pair!Dispatch

\* A request in clear.
LEMMA ReadPlainStep ==
  ASSUME PairInv, Pair!ReadPlain
  PROVE  PairInv'
<1>1. /\ wire' = << >> /\ peer' = peer /\ link.open /\ ~link.encrypted
      /\ Pair!Dispatch(Pair!Session, wire[1])
      /\ peer.stage \in {"away", "first", "second", "commanded"}
  BY InTurn
<1>2. PairFields /\ TakesTurns
  BY DEF PairInv
<1>3. /\ HapNow(hap') /\ PairHistNow(pairHist') /\ pairHist'.garbled = pairHist.garbled
      /\ link' = [open |-> link.open, encrypted |-> link'.encrypted, header |-> FALSE]
      /\ link'.encrypted \in BOOLEAN
  BY <1>1, <1>2, SessionIs, DispatchIs
<1>4. PairFields' /\ WireFits' /\ link'.open
  <2>1. link'.open = link.open /\ ~link'.header
    BY <1>3
  <2>2. PairFields'
    <3>1. PICK e \in BOOLEAN : link' = [open |-> link.open, encrypted |-> e, header |-> FALSE]
      BY <1>3
    <3>2. /\ link' = [open |-> link'.open, encrypted |-> link'.encrypted, header |-> link'.header]
          /\ link'.open = link.open /\ link'.encrypted \in BOOLEAN /\ link'.header = FALSE
      BY <3>1
    <3> QED
      BY <1>1, <1>2, <1>3, <3>2, Zenon DEF PairFields
  <2> QED
    BY <1>1, <2>1, <2>2 DEF WireFits
<1>5. pairHist'.garbled \/ peer'.stage = "lost" => peer'.path \in {"none", "verify"}
  BY <1>1, <1>3 DEF PairInv
<1>6. CASE peer.path = "none"
  <2>1. peer.stage = "away"
    BY <1>2, <1>6 DEF TakesTurns
  <2>2. TakesTurns'
    BY <1>1, <1>4, <1>6, <2>1 DEF TakesTurns
  <2> QED
    BY <1>1, <1>4, <1>5, <1>6, <2>2 DEF PairInv
<1>7. CASE peer.path = "setup"
  <2>1. TakesTurns'
    BY <1>1, <1>2, <1>4, <1>7, SetupAnswered DEF TakesTurns, OneAnswer
  <2>2. PairedBySetup'
    BY <1>1, <1>7, SetupAnswered DEF PairedBySetup
  <2> QED
    BY <1>1, <1>4, <1>5, <1>7, <2>1, <2>2 DEF PairInv
<1>8. CASE peer.path = "raw"
  <2>1. TakesTurns'
    BY <1>1, <1>2, <1>4, <1>8, RawAnswered DEF TakesTurns, OneAnswer
  <2>2. PairedRaw
    BY <1>8 DEF PairInv
  <2>3. PairedRaw'
    BY <1>1, <1>8, <2>2, RawAnswered DEF PairedRaw, OneAnswer
  <2> QED
    BY <1>1, <1>4, <1>5, <1>8, <2>1, <2>3 DEF PairInv
<1>9. CASE peer.path = "verify"
  <2>1. TakesTurns'
    BY <1>1, <1>2, <1>4, <1>9, VerifyAnswered DEF TakesTurns, OneAnswer
  <2>2. PairVerified'
    BY <1>1, <1>9, VerifyAnswered DEF PairVerified
  <2> QED
    BY <1>1, <1>4, <1>5, <1>9, <2>1, <2>2 DEF PairInv
<1> QED
  BY <1>2, <1>6, <1>7, <1>8, <1>9 DEF PairFields

\* A command in a block: only a sender that paired by pair-setup, or one that
\* has left, can have sent it.
LEMMA ReadBlockStep ==
  ASSUME PairInv, Pair!ReadBlock
  PROVE  PairInv'
<1> DEFINE h == [hap EXCEPT !.dnonce = hap.dnonce + 1]
           r == wire[1]
<1>1. /\ link.open /\ link.encrypted /\ link.header /\ wire # << >> /\ peer' = peer
      /\ wire' = Tail(wire) /\ Pair!Dispatch(h, Head(wire))
  BY DEF Pair!ReadBlock
<1>2. wire = <<r>>
  BY <1>1 DEF PairInv, WireFits
<1>3. wire' = << >> /\ Pair!Dispatch(h, r) /\ wire[Len(wire)] = r
  BY <1>1, <1>2, OneIs
<1>4. PairFields /\ TakesTurns
  BY DEF PairInv
<1>5. /\ HapNow(h) /\ h.exists = hap.exists /\ h.secret = hap.secret /\ h.ekey = hap.ekey
      /\ h.dkey = hap.dkey /\ h.established = hap.established
      /\ h.enonce = hap.enonce /\ h.dnonce = hap.dnonce + 1
  BY <1>4 DEF PairFields, HapNow
<1>6. peer.stage \in {"away", "commanded"} /\ (peer.stage = "commanded" => peer.path = "setup")
  BY <1>1, <1>4 DEF PairInv, PairFields, TakesTurns, PairedRaw, PairVerified
<1> HIDE DEF h, r
<1>7. CASE peer.stage = "away"
  <2>1. peer.path = "none"
    BY <1>4, <1>7 DEF TakesTurns
  <2>2. /\ HapNow(hap') /\ PairHistNow(pairHist') /\ pairHist'.garbled = pairHist.garbled
        /\ link' = [open |-> link.open, encrypted |-> link'.encrypted, header |-> FALSE]
        /\ link'.encrypted \in BOOLEAN
    BY <1>3, <1>4, <1>5, DispatchIs
  <2>3. link'.open = link.open /\ ~link'.header
    BY <2>2
  <2>4. PairFields'
    <3>1. PICK e \in BOOLEAN : link' = [open |-> link.open, encrypted |-> e, header |-> FALSE]
      BY <2>2
    <3>2. /\ link' = [open |-> link'.open, encrypted |-> link'.encrypted, header |-> link'.header]
          /\ link'.open = link.open /\ link'.encrypted \in BOOLEAN /\ link'.header = FALSE
      BY <3>1
    <3> QED
      BY <1>1, <1>4, <2>2, <3>2, Zenon DEF PairFields
  <2>5. WireFits' /\ TakesTurns'
    BY <1>1, <1>3, <1>7, <2>1, <2>3 DEF WireFits, TakesTurns
  <2> QED
    BY <1>1, <1>7, <2>1, <2>2, <2>4, <2>5 DEF PairInv
<1>8. CASE peer.stage = "commanded"
  <2>1. /\ peer.path = "setup" /\ r.req = "command" /\ replies = << >>
        /\ SetupKeyed /\ peer.encrypted
        /\ hap.enonce = peer.rnonce /\ hap.dnonce + 1 = peer.wnonce
    BY <1>1, <1>3, <1>4, <1>6, <1>8 DEF PairInv, PairedBySetup, TakesTurns
  <2>2. PICK n \in 1 .. MaxBlocks :
          Pair!Sent(h, link.encrypted, "ok", n) /\ link' = [link EXCEPT !.header = FALSE]
    BY <1>3, <2>1 DEF Pair!Dispatch
  <2>3. n \in Nat /\ n > 0 /\ link.encrypted \in BOOLEAN
    BY <1>4, NetworkAssumption DEF PairFields
  <2>4. link' = [open |-> TRUE, encrypted |-> TRUE, header |-> FALSE]
    BY <1>1, <1>4, <2>2 DEF PairFields
  <2>5. /\ HapNow(hap') /\ PairHistNow(pairHist') /\ pairHist'.garbled = pairHist.garbled
        /\ hap'.exists = h.exists /\ hap'.secret = h.secret /\ hap'.established = h.established
        /\ hap'.ekey = h.ekey /\ hap'.dkey = h.dkey /\ hap'.dnonce = h.dnonce
        /\ \E sent \in 0 .. n :
              /\ replies' = Pair!Blocks(h, TRUE, "ok", n, sent)
              /\ hap'.enonce = h.enonce + sent
    <3> DEFINE enc == link.encrypted
    <3>1. PairFields /\ HapNow(h) /\ enc \in BOOLEAN /\ n \in Nat /\ n > 0 /\ enc
          /\ Pair!Sent(h, enc, "ok", n) /\ replies = << >>
      BY <1>1, <1>4, <1>5, <2>1, <2>2, <2>3
    <3> HIDE DEF enc
    <3>2. /\ HapNow(hap') /\ PairHistNow(pairHist') /\ pairHist'.garbled = pairHist.garbled
          /\ hap'.exists = h.exists /\ hap'.secret = h.secret /\ hap'.established = h.established
          /\ hap'.ekey = h.ekey /\ hap'.dkey = h.dkey /\ hap'.dnonce = h.dnonce
      BY <3>1, SentIs
    <3>3. \E sent \in 0 .. n :
              /\ hap'.enonce = h.enonce + sent
              /\ replies' = Pair!Blocks(h, TRUE, "ok", n, sent)
      BY <3>1, SentIs
    <3> QED
      BY <3>1, <3>2, <3>3 DEF enc
  <2>6. PICK sent \in 0 .. n :
              /\ replies' = Pair!Blocks(h, TRUE, "ok", n, sent)
              /\ hap'.enonce = h.enonce + sent
    BY <2>5
  <2>7. replies' = [i \in 1 .. sent |->
                      [part |-> "block", says |-> "ok", key |-> h.ekey,
                       nonce |-> h.enonce + i - 1, last |-> i = n]]
    BY <1>1, <2>6, Zenon DEF Pair!Blocks
  <2>8. Len(replies') = sent
    <3>1. replies' = [i \in 1 .. sent |-> replies'[i]]
      BY <2>7, Zenon
    <3> QED
      BY <2>3, <3>1, SequenceOf
  <2>9. \E whole \in BOOLEAN : replies' = Sealed(hap'.ekey, peer'.rnonce, sent, whole)
    <3>1. \A i \in 1 .. sent : (i = n) <=> (sent = n /\ i = sent)
      BY <2>3
    <3>2. \E whole \in BOOLEAN : \A i \in 1 .. sent : (i = n) = (whole /\ i = sent)
      <4> WITNESS (sent = n) \in BOOLEAN
      <4> QED
        BY <3>1
    <3>3. PICK whole \in BOOLEAN : \A i \in 1 .. sent : (i = n) = (whole /\ i = sent)
      BY <3>2
    <3>4. h.ekey = hap'.ekey /\ h.enonce = peer'.rnonce
      BY <1>1, <1>5, <2>1, <2>5
    <3>5. replies' = Sealed(hap'.ekey, peer'.rnonce, sent, whole)
      BY <2>7, <3>3, <3>4, Zenon DEF Sealed
    <3> QED
      BY <3>5
  <2>10. PairedBySetup'
    <3>1. SetupKeyed'
      BY <1>1, <1>5, <2>1, <2>4, <2>5 DEF SetupKeyed
    <3>2. hap'.dnonce = peer'.wnonce /\ hap'.enonce = peer'.rnonce + sent /\ sent \in Nat
      BY <1>1, <1>5, <2>1, <2>3, <2>5, <2>6
    <3> QED
      BY <1>1, <1>3, <1>8, <2>1, <2>4, <2>8, <2>9, <3>1, <3>2 DEF PairedBySetup
  <2>11. PairFields' /\ WireFits' /\ TakesTurns'
    BY <1>1, <1>3, <1>4, <1>8, <2>1, <2>4, <2>5 DEF PairFields, WireFits, TakesTurns
  <2> QED
    BY <1>1, <1>8, <2>1, <2>5, <2>10, <2>11 DEF PairInv
<1> QED
  BY <1>6, <1>7, <1>8

\* The two bytes of a length; a time-out within a block; what never happens;
\* the connection's end.
LEMMA ReadStep ==
  ASSUME PairInv, Pair!ReadLength \/ Pair!ReadTimeout \/ Pair!ReadFails \/ Pair!Closed
  PROVE  PairInv'
<1>1. PairFields /\ WireFits /\ TakesTurns
  BY DEF PairInv
<1>2. CASE Pair!ReadLength
  <2>1. /\ link.open /\ link.encrypted /\ ~link.header /\ wire # << >> /\ wire' = Tail(wire)
        /\ link' = [link EXCEPT !.header = TRUE]
        /\ hap' = hap /\ replies' = replies /\ peer' = peer /\ pairHist' = pairHist
    BY <1>2 DEF Pair!ReadLength
  <2>2. /\ wire = <<wire[1], wire[2]>>
        /\ wire[2].part = "block" /\ wire[2].key = hap.dkey /\ wire[2].nonce = hap.dnonce
    BY <1>1, <2>1 DEF WireFits
  <2>3. wire' = <<wire[2]>> /\ wire' # << >> /\ Len(wire') = 1 /\ wire'[1] = wire[2]
        /\ wire[Len(wire)] = wire[2]
    <3> DEFINE a == wire[1]  b == wire[2]
    <3>1. wire = <<a, b>>
      BY <2>2
    <3> HIDE DEF a, b
    <3>2. wire' = <<b>> /\ Len(wire) = 2
      BY <2>1, <3>1, TwoIs
    <3>3. <<b>> # << >> /\ Len(<<b>>) = 1 /\ <<b>>[1] = b
      BY OneIs
    <3> QED
      BY <3>2, <3>3 DEF b
  <2>4. link' = [open |-> TRUE, encrypted |-> TRUE, header |-> TRUE]
    BY <1>1, <2>1 DEF PairFields
  <2>5. PairFields' /\ WireFits'
    BY <1>1, <2>1, <2>2, <2>3, <2>4 DEF PairFields, WireFits
  <2>6. peer.stage \in {"away", "commanded"}
    BY <1>1, <2>1 DEF TakesTurns, PairFields
  <2>7. TakesTurns'
    BY <1>1, <2>1, <2>4, <2>6 DEF TakesTurns, OneAnswer
  <2>8. peer.path = "setup" => PairedBySetup'
    BY <2>1, <2>3, <2>4, <2>6 DEF PairInv, PairedBySetup, SetupKeyed
  <2>9. peer.path \notin {"raw", "verify"}
    BY <1>1, <2>1, <2>6 DEF PairInv, PairedRaw, PairVerified, TakesTurns
  <2> QED
    BY <2>1, <2>5, <2>7, <2>8, <2>9 DEF PairInv
<1>3. CASE Pair!ReadTimeout
  <2>1. link' = link /\ UNCHANGED <<hap, wire, replies, peer, pairHist>>
    BY <1>1, <1>3 DEF Pair!ReadTimeout, Pair!TimeoutKeeps, PairFields
  <2> QED
    BY <2>1 DEF PairInv, PairFields, HapNow, PairHistNow, WireFits, TakesTurns, OneAnswer,
                PairedBySetup, SetupKeyed, Sealed, PairedRaw, PairVerified
<1>4. CASE Pair!ReadFails
  <2>1. ASSUME wire = <<wire[1], wire[2]>>  PROVE Head(wire) = wire[1]
    BY <2>1, TwoIs
  <2>2. ASSUME wire = <<wire[1]>>  PROVE Head(wire) = wire[1]
    BY <2>2, OneIs
  <2> QED
    BY <1>1, <1>4, <2>1, <2>2 DEF Pair!ReadFails, Pair!BlockOpens, WireFits
<1>5. CASE Pair!Closed
  <2>1. /\ peer.stage = "away" /\ peer' = peer /\ wire' = << >> /\ replies' = << >>
        /\ link' = [open |-> FALSE, encrypted |-> FALSE, header |-> FALSE]
        /\ hap' = Pair!NoSession /\ pairHist' = pairHist
    BY <1>5 DEF Pair!Closed
  <2>2. HapNow(hap')
    BY <2>1 DEF HapNow, Pair!NoSession
  <2>3. PairFields'
    BY <1>1, <2>1, <2>2 DEF PairFields
  <2>4. WireFits' /\ TakesTurns' /\ peer.path = "none"
    BY <1>1, <2>1 DEF WireFits, TakesTurns, OneAnswer
  <2> QED
    BY <2>1, <2>3, <2>4 DEF PairInv
<1> QED
  BY <1>2, <1>3, <1>4, <1>5

\* The sender connects, asks, or leaves.
LEMMA AskStep ==
  ASSUME PairInv,
         \/ \E path \in {"setup", "verify", "raw"} : Pair!Connect(path)
         \/ Pair!AskFirst \/ Pair!Command \/ Pair!Leave
         \/ \E right \in BOOLEAN : Pair!AskSecond(right)
  PROVE  PairInv'
<1>1. PairFields /\ WireFits /\ TakesTurns
  BY DEF PairInv
<1>2. CASE \E path \in {"setup", "verify", "raw"} : Pair!Connect(path)
  <2>1. PICK path \in {"setup", "verify", "raw"} : Pair!Connect(path)
    BY <1>2
  <2>2. /\ ~link.open /\ UNCHANGED <<wire, replies>> /\ hap' = Pair!NoSession
        /\ link' = [open |-> TRUE, encrypted |-> FALSE, header |-> FALSE]
        /\ peer' = [path |-> path, stage |-> "new", secret |-> 0, encrypted |-> FALSE,
                    wnonce |-> 0, rnonce |-> 0]
        /\ pairHist' = [pairHist EXCEPT !.conns = @ + 1, !.garbled = FALSE]
    BY <2>1 DEF Pair!Connect, Pair!Away
  <2>3. wire' = << >> /\ replies' = << >>
    BY <1>1, <2>2 DEF TakesTurns
  <2>4. HapNow(hap') /\ ~hap'.established /\ hap'.verify # 4
    BY <2>2 DEF HapNow, Pair!NoSession
  <2>5. PairHistNow(pairHist') /\ pairHist'.garbled = FALSE
    BY <1>1, <2>2 DEF PairFields, PairHistNow
  <2>6. PairFields' /\ WireFits' /\ TakesTurns'
    BY <2>2, <2>3, <2>4, <2>5 DEF PairFields, WireFits, TakesTurns, OneAnswer
  <2>7. PairedBySetup' /\ PairedRaw' /\ PairVerified'
    BY <2>2, <2>3, <2>4 DEF PairedBySetup, PairedRaw, PairVerified
  <2> QED
    BY <2>2, <2>5, <2>6, <2>7 DEF PairInv
<1>3. CASE Pair!AskFirst
  <2> DEFINE m == [part |-> "plain", req |-> "m1", secret |-> pairHist.exchanges + 1,
                   key |-> Pair!NoKey, nonce |-> 0]
  <2>1. /\ peer.stage = "new" /\ wire' = Append(wire, m) /\ UNCHANGED <<hap, link, replies>>
        /\ peer' = [peer EXCEPT !.stage = "first", !.secret = pairHist.exchanges + 1]
        /\ pairHist' = [pairHist EXCEPT !.exchanges = @ + 1]
    BY <1>3 DEF Pair!AskFirst
  <2>2. /\ wire = << >> /\ replies' = << >> /\ ~link.encrypted /\ ~peer.encrypted
        /\ peer.rnonce = 0 /\ peer.wnonce = 0 /\ ~link.header
        /\ link.open /\ peer.path # "none"
    BY <1>1, <2>1 DEF TakesTurns, WireFits, PairFields
  <2>3. m.part = "plain" /\ m.req = "m1" /\ m.secret = pairHist.exchanges + 1
    OBVIOUS
  <2> HIDE DEF m
  <2>4. wire' = <<m>> /\ wire' # << >> /\ Len(wire') = 1 /\ wire'[1] = m
    BY <2>1, <2>2, OneIs
  <2>5. /\ peer' = [path |-> peer.path, stage |-> "first", secret |-> pairHist.exchanges + 1,
                    encrypted |-> FALSE, wnonce |-> 0, rnonce |-> 0]
    BY <1>1, <2>1, <2>2 DEF PairFields
  <2>6. PairHistNow(pairHist') /\ pairHist'.garbled = pairHist.garbled
    BY <1>1, <2>1 DEF PairFields, PairHistNow
  <2>7. PairFields'
    BY <1>1, <2>1, <2>5, <2>6 DEF PairFields, HapNow
  <2>8. WireFits' /\ TakesTurns'
    BY <1>1, <2>1, <2>2, <2>3, <2>4, <2>5 DEF WireFits, TakesTurns, OneAnswer
  <2>9. peer.path = "setup" => PairedBySetup'
    BY <2>1, <2>2, <2>4, <2>5 DEF PairInv, PairedBySetup
  <2>10. peer.path = "raw" => PairedRaw'
    BY <2>1, <2>2, <2>4, <2>5 DEF PairInv, PairedRaw
  <2>11. peer.path = "verify" => PairVerified'
    BY <2>1, <2>2, <2>4, <2>5 DEF PairInv, PairVerified
  <2> QED
    BY <2>5, <2>6, <2>7, <2>8, <2>9, <2>10, <2>11 DEF PairInv
<1>4. CASE \E right \in BOOLEAN : Pair!AskSecond(right)
  <2>1. PICK req \in {"m3", "m3wrong"} :
          /\ peer.stage = "answered" /\ Pair!Sends(req) /\ pairHist' = pairHist
          /\ peer' = [peer EXCEPT !.stage = "second"]
    BY <1>4 DEF Pair!AskSecond
  <2> DEFINE m == [part |-> "plain", req |-> req, secret |-> peer.secret,
                   key |-> Pair!NoKey, nonce |-> 0]
  <2>2. /\ wire = << >> /\ replies = << >> /\ ~link.encrypted /\ ~peer.encrypted
        /\ peer.rnonce = 0 /\ peer.wnonce = 0 /\ ~link.header
        /\ link.open /\ peer.path # "none"
    BY <1>1, <2>1 DEF TakesTurns, WireFits, PairFields
  <2>3. wire' = wire \o <<m>> /\ UNCHANGED <<hap, link, replies>>
    BY <2>1, <2>2 DEF Pair!Sends, Pair!Says
  <2>4. m.part = "plain" /\ m.req \notin {"m1", "command"} /\ m.secret = peer.secret
    OBVIOUS
  <2> HIDE DEF m
  <2>5. wire' = <<m>> /\ wire' # << >> /\ Len(wire') = 1 /\ wire'[1] = m
    BY <2>2, <2>3, OneIs
  <2>6. /\ peer' = [path |-> peer.path, stage |-> "second", secret |-> peer.secret,
                    encrypted |-> FALSE, wnonce |-> 0, rnonce |-> 0]
    BY <1>1, <2>1, <2>2 DEF PairFields
  <2>7. PairFields'
    BY <1>1, <2>1, <2>3, <2>6 DEF PairFields, HapNow, PairHistNow
  <2>8. WireFits' /\ TakesTurns'
    BY <1>1, <2>1, <2>2, <2>3, <2>4, <2>5, <2>6 DEF WireFits, TakesTurns, OneAnswer
  <2>9. peer.path = "setup" => PairedBySetup'
    BY <2>1, <2>2, <2>3, <2>5, <2>6 DEF PairInv, PairedBySetup
  <2>10. peer.path = "raw" => PairedRaw'
    BY <2>1, <2>2, <2>3, <2>5, <2>6 DEF PairInv, PairedRaw, OneAnswer
  <2>11. peer.path = "verify" => PairVerified'
    BY <2>1, <2>2, <2>3, <2>5, <2>6 DEF PairInv, PairVerified
  <2> QED
    BY <2>1, <2>6, <2>7, <2>8, <2>9, <2>10, <2>11 DEF PairInv
<1>5. CASE Pair!Command
  <2>1. /\ peer.stage = "ready" /\ Pair!Sends("command")
        /\ pairHist' = [pairHist EXCEPT !.commands = @ + 1]
        /\ peer' = [peer EXCEPT !.stage = "commanded",
                                !.wnonce = IF peer.encrypted THEN @ + 1 ELSE @]
    BY <1>5 DEF Pair!Command
  <2>2. /\ wire = << >> /\ replies = << >> /\ ~link.header /\ link.open
        /\ peer.path \in {"setup", "raw"}
    BY <1>1, <2>1 DEF PairInv, TakesTurns, WireFits, PairFields, PairVerified
  <2>3. PairHistNow(pairHist') /\ pairHist'.garbled = pairHist.garbled
    BY <1>1, <2>1 DEF PairFields, PairHistNow
  <2>4. UNCHANGED <<hap, link, replies>> /\ wire' = wire \o Pair!Says("command")
    BY <2>1 DEF Pair!Sends
  <2>5. /\ peer' = [path |-> peer.path, stage |-> "commanded", secret |-> peer.secret,
                    encrypted |-> peer.encrypted, wnonce |-> peer'.wnonce,
                    rnonce |-> peer.rnonce]
        /\ peer'.wnonce = IF peer.encrypted THEN peer.wnonce + 1 ELSE peer.wnonce
        /\ peer'.path = peer.path /\ peer'.stage = "commanded" /\ peer'.secret = peer.secret
        /\ peer'.encrypted = peer.encrypted /\ peer'.rnonce = peer.rnonce
    BY <1>1, <2>1 DEF PairFields
  <2>6. PairFields'
    <3>1. peer'.wnonce \in Nat
      BY <1>1, <2>5 DEF PairFields
    <3> QED
      BY <1>1, <2>3, <2>4, <2>5, <3>1 DEF PairFields, HapNow
  <2>7. CASE peer.path = "setup"
    <3> DEFINE a == [part |-> "length", req |-> "none", secret |-> 0, key |-> Pair!NoKey,
                     nonce |-> 0]
               b == [part |-> "block", req |-> "command", secret |-> 0,
                     key |-> Pair!Key(peer.secret, "write"), nonce |-> peer.wnonce]
    <3>1. /\ SetupKeyed /\ peer.encrypted /\ hap.enonce = peer.rnonce
          /\ hap.dnonce = peer.wnonce /\ link.encrypted
      BY <2>1, <2>7 DEF PairInv, PairedBySetup, SetupKeyed
    <3>2. wire' = wire \o <<a, b>>
      BY <2>4, <3>1 DEF Pair!Says
    <3>3. a.part = "length" /\ b.part = "block" /\ b.req = "command" /\ b.key = hap.dkey
          /\ b.nonce = hap.dnonce
      BY <3>1 DEF SetupKeyed
    <3> HIDE DEF a, b
    <3>4. wire' = <<a, b>> /\ wire' # << >> /\ Len(wire') = 2 /\ wire'[1] = a /\ wire'[2] = b
      BY <2>2, <3>2, TwoIs
    <3>5. WireFits'
      BY <2>2, <2>4, <3>1, <3>3, <3>4 DEF WireFits
    <3>6. TakesTurns'
      BY <2>2, <2>4, <2>5, <2>7 DEF TakesTurns
    <3>7. PairedBySetup'
      BY <2>2, <2>4, <2>5, <2>6, <3>1, <3>3, <3>4 DEF PairedBySetup, SetupKeyed, PairFields, HapNow
    <3> QED
      BY <2>3, <2>5, <2>6, <2>7, <3>5, <3>6, <3>7 DEF PairInv
  <2>8. CASE peer.path = "raw"
    <3> DEFINE m == [part |-> "plain", req |-> "command", secret |-> peer.secret,
                     key |-> Pair!NoKey, nonce |-> 0]
    <3>1. ~link.encrypted /\ ~peer.encrypted
      BY <2>8 DEF PairInv, PairedRaw
    <3>2. wire' = wire \o <<m>>
      BY <2>4, <3>1 DEF Pair!Says
    <3>3. m.part = "plain" /\ m.req = "command"
      OBVIOUS
    <3> HIDE DEF m
    <3>4. wire' = <<m>> /\ wire' # << >> /\ Len(wire') = 1 /\ wire'[1] = m
      BY <2>2, <3>2, OneIs
    <3>5. WireFits' /\ TakesTurns'
      BY <2>2, <2>4, <2>5, <2>8, <3>1, <3>3, <3>4 DEF WireFits, TakesTurns
    <3>6. PairedRaw'
      BY <2>1, <2>2, <2>4, <2>5, <2>8, <3>1, <3>3, <3>4 DEF PairInv, PairedRaw, OneAnswer
    <3> QED
      BY <2>3, <2>5, <2>6, <2>8, <3>5, <3>6 DEF PairInv
  <2> QED
    BY <2>2, <2>7, <2>8
<1>6. CASE Pair!Leave
  <2>1. /\ replies' = << >> /\ UNCHANGED <<hap, link, wire, pairHist>>
        /\ peer' = [path |-> "none", stage |-> "away", secret |-> 0, encrypted |-> FALSE,
                    wnonce |-> 0, rnonce |-> 0]
        /\ peer.stage # "away"
    BY <1>6 DEF Pair!Leave, Pair!Away
  <2>2. PairFields'
    BY <1>1, <2>1 DEF PairFields, HapNow, PairHistNow
  <2>3. WireFits' /\ TakesTurns'
    BY <1>1, <2>1 DEF WireFits, TakesTurns
  <2> QED
    BY <2>1, <2>2, <2>3 DEF PairInv
<1> QED
  BY <1>2, <1>3, <1>4, <1>5, <1>6

\* A block the device sealed is the one the sender waits for.
LEMMA SealedOpens ==
  ASSUME PairInv, peer.path = "setup", peer.stage = "commanded", replies # << >>, Pair!Hear
  PROVE  PairInv'
<1> DEFINE n == Len(replies)
           b == replies[1]
<1>1. PairFields /\ WireFits /\ TakesTurns /\ PairedBySetup
  BY DEF PairInv
<1>2. wire = << >> /\ SetupKeyed /\ peer.encrypted /\ hap.dnonce = peer.wnonce /\ n \in Nat
      /\ hap.enonce = peer.rnonce + n
  BY <1>1 DEF PairedBySetup, TakesTurns
<1>3. PICK whole \in BOOLEAN : replies = Sealed(hap.ekey, peer.rnonce, n, whole)
  BY <1>1, <1>2 DEF PairedBySetup
<1>4. replies = [i \in 1 .. n |-> replies[i]]
  BY <1>3, Zenon DEF Sealed
<1> HIDE DEF n
<1>5. n > 0 /\ Head(replies) = b /\ n - 1 \in Nat
      /\ Tail(replies) = [i \in 1 .. (n - 1) |-> replies[i + 1]] /\ Len(Tail(replies)) = n - 1
  BY <1>2, <1>4, SequenceOf
<1>6. \A i \in 1 .. n : replies[i] = [part |-> "block", says |-> "ok", key |-> hap.ekey,
                                     nonce |-> peer.rnonce + i - 1, last |-> whole /\ i = n]
  BY <1>3, Zenon DEF Sealed
<1>7. /\ b.part = "block" /\ b.key = hap.ekey /\ b.nonce = peer.rnonce
      /\ b.last = (whole /\ 1 = n)
  <2>1. 1 \in 1 .. n /\ peer.rnonce + 1 - 1 = peer.rnonce
    BY <1>1, <1>2, <1>5 DEF PairFields
  <2>2. b = [part |-> "block", says |-> "ok", key |-> hap.ekey,
             nonce |-> peer.rnonce + 1 - 1, last |-> whole /\ 1 = n]
    BY <1>6, <2>1, Zenon
  <2> HIDE DEF b
  <2> QED
    BY <2>1, <2>2
<1> HIDE DEF b
<1>8. Pair!Opens(b)
  BY <1>2, <1>7 DEF Pair!Opens, SetupKeyed
<1>9. /\ replies' = Tail(replies) /\ peer' = Pair!Heard(b) /\ pairHist' = pairHist
      /\ UNCHANGED <<hap, link, wire>>
  BY <1>5, <1>8 DEF Pair!Hear
<1>10. /\ peer' = [path |-> "setup", stage |-> peer'.stage, secret |-> peer.secret,
                   encrypted |-> TRUE, wnonce |-> peer.wnonce, rnonce |-> peer.rnonce + 1]
       /\ peer'.stage = IF whole /\ n = 1 THEN "ready" ELSE "commanded"
  <2>1. CASE whole /\ n = 1
    <3>1. b.last
      BY <1>7, <2>1
    <3> QED
      BY <1>1, <1>2, <1>9, <2>1, <3>1 DEF Pair!Heard, PairFields
  <2>2. CASE ~(whole /\ n = 1)
    <3>1. ~b.last
      BY <1>7, <2>2
    <3>2. peer' = [peer EXCEPT !.rnonce = peer.rnonce + 1]
      BY <1>2, <1>9, <3>1 DEF Pair!Heard
    <3> QED
      BY <1>1, <1>2, <2>2, <3>2 DEF PairFields
  <2> QED
    BY <2>1, <2>2
<1>11. /\ peer'.path = "setup" /\ peer'.secret = peer.secret /\ peer'.encrypted = TRUE
       /\ peer'.wnonce = peer.wnonce /\ peer'.rnonce = peer.rnonce + 1
       /\ peer'.stage \in {"ready", "commanded"}
  BY <1>10
<1>12. PairFields'
  <2>1. peer' = [path |-> peer'.path, stage |-> peer'.stage, secret |-> peer'.secret,
                 encrypted |-> peer'.encrypted, wnonce |-> peer'.wnonce, rnonce |-> peer'.rnonce]
    BY <1>10
  <2>2. peer'.rnonce \in Nat /\ peer'.wnonce \in Nat
    BY <1>1, <1>11 DEF PairFields
  <2> QED
    BY <1>1, <1>9, <1>11, <2>1, <2>2 DEF PairFields, HapNow, PairHistNow
<1>13. SetupKeyed' /\ hap'.dnonce = peer'.wnonce /\ hap'.enonce = peer'.rnonce + (n - 1)
  BY <1>1, <1>2, <1>5, <1>9, <1>11 DEF SetupKeyed, PairFields
<1>14. replies' = Sealed(hap'.ekey, peer'.rnonce, n - 1, whole) /\ Len(replies') = n - 1
  <2>1. \A i \in 1 .. (n - 1) :
           /\ i + 1 \in 1 .. n /\ peer.rnonce + (i + 1) - 1 = peer'.rnonce + i - 1
           /\ (i + 1 = n) <=> (i = n - 1)
    BY <1>1, <1>2, <1>11 DEF PairFields
  <2>2. \A i \in 1 .. (n - 1) :
          replies[i + 1] = [part |-> "block", says |-> "ok", key |-> hap'.ekey,
                            nonce |-> peer'.rnonce + i - 1, last |-> whole /\ i = n - 1]
    <3> TAKE i \in 1 .. (n - 1)
    <3> DEFINE j == i + 1
    <3>1. /\ j \in 1 .. n /\ peer.rnonce + j - 1 = peer'.rnonce + i - 1
          /\ (whole /\ j = n) = (whole /\ i = n - 1)
      BY <2>1
    <3> HIDE DEF j
    <3>2. replies[j] = [part |-> "block", says |-> "ok", key |-> hap.ekey,
                        nonce |-> peer.rnonce + j - 1, last |-> whole /\ j = n]
      BY <1>6, <3>1
    <3> QED
      BY <1>9, <3>1, <3>2, Zenon DEF j
  <2> QED
    <3>1. Sealed(hap'.ekey, peer'.rnonce, n - 1, whole) =
            [i \in 1 .. (n - 1) |->
               [part |-> "block", says |-> "ok", key |-> hap'.ekey,
                nonce |-> peer'.rnonce + i - 1, last |-> whole /\ i = n - 1]]
      BY Zenon DEF Sealed
    <3>2. replies' = [i \in 1 .. (n - 1) |-> replies[i + 1]] /\ Len(replies') = n - 1
      BY <1>5, <1>9
    <3> QED
      BY <2>2, <3>1, <3>2
<1>15. n - 1 = 0 => replies' = << >>
  BY <1>5, <1>9, SequenceOf
<1>16. WireFits' /\ TakesTurns'
  <2>1. peer'.stage = "ready" => replies' = << >>
    BY <1>10, <1>15, <1>2
  <2> QED
    BY <1>1, <1>2, <1>9, <1>11, <2>1 DEF WireFits, TakesTurns, SetupKeyed
<1>17. PairedBySetup'
  <2>1. peer'.stage = "ready" => hap'.enonce = peer'.rnonce
    BY <1>1, <1>2, <1>10, <1>11, <1>13 DEF PairFields
  <2> QED
    <3>1. \E all \in BOOLEAN : replies' = Sealed(hap'.ekey, peer'.rnonce, Len(replies'), all)
      BY <1>14
    <3>2. Len(replies') \in Nat /\ hap'.enonce = peer'.rnonce + Len(replies')
      BY <1>5, <1>13, <1>14
    <3>3. link'.encrypted /\ wire' = << >>
      BY <1>2, <1>9 DEF SetupKeyed
    <3> QED
      BY <1>11, <1>13, <2>1, <3>1, <3>2, <3>3 DEF PairedBySetup
<1> QED
  BY <1>9, <1>11, <1>12, <1>16, <1>17 DEF PairInv

\* The sender hears an answer.
LEMMA HearStep ==
  ASSUME PairInv, Pair!Hear
  PROVE  PairInv'
<1> DEFINE b == replies[1]
<1>1. PairFields /\ WireFits /\ TakesTurns
  BY DEF PairInv
<1>2. peer.stage \in {"first", "second", "commanded"} /\ replies # << >> /\ wire = << >>
      /\ link.open /\ peer.path # "none"
  BY <1>1 DEF Pair!Hear, PairFields, TakesTurns
<1>3. CASE peer.stage = "commanded" /\ peer.path = "setup"
  BY <1>2, <1>3, SealedOpens
<1>4. CASE ~(peer.stage = "commanded" /\ peer.path = "setup")
  <2>1. /\ replies = <<b>> /\ b.last
        /\ peer.path = "raw" \/ peer.stage \in {"first", "second"}
    BY <1>1, <1>2, <1>4 DEF PairInv, PairFields, TakesTurns, OneAnswer, PairedRaw, PairVerified
  <2>2. Head(replies) = b /\ Tail(replies) = << >>
    BY <2>1, OneIs
  <2>3. ~peer.encrypted
    BY <1>1, <2>1 DEF PairInv, TakesTurns, PairedRaw
  <2>4. /\ replies' = << >> /\ UNCHANGED <<hap, link, wire>>
        /\ \/ b.part = "plain" /\ peer' = Pair!Heard(b) /\ pairHist' = pairHist
           \/ /\ b.part # "plain" /\ peer' = [peer EXCEPT !.stage = "lost"]
              /\ pairHist' = [pairHist EXCEPT !.garbled = TRUE]
    BY <2>2, <2>3 DEF Pair!Hear, Pair!Opens
  <2> HIDE DEF b
  <2>5. b.part # "plain" => peer.path = "verify" /\ peer.stage = "second"
    BY <1>1, <1>2, <1>4 DEF PairInv, PairFields, TakesTurns, PairedBySetup, PairedRaw, PairVerified, b
  <2>6. CASE b.part # "plain"
    <3>1. /\ peer' = [path |-> "verify", stage |-> "lost", secret |-> peer.secret,
                      encrypted |-> peer.encrypted, wnonce |-> peer.wnonce,
                      rnonce |-> peer.rnonce]
      BY <1>1, <2>4, <2>5, <2>6 DEF PairFields
    <3>2. PairHistNow(pairHist') /\ pairHist'.garbled = TRUE
      BY <1>1, <2>4, <2>6 DEF PairFields, PairHistNow
    <3>3. PairFields'
      BY <1>1, <2>4, <3>1, <3>2 DEF PairFields, HapNow
    <3>4. WireFits' /\ TakesTurns'
      BY <1>1, <1>2, <2>4, <3>1 DEF WireFits, TakesTurns
    <3>5. PairVerified'
      <4>1. ~link.encrypted => hap.verify # 4
        BY <2>5, <2>6 DEF PairInv, PairVerified
      <4>2. peer'.stage = "lost"
        BY <3>1
      <4> QED
        BY <2>4, <4>1, <4>2 DEF PairVerified
    <3> QED
      BY <3>1, <3>2, <3>3, <3>4, <3>5 DEF PairInv
  <2>7. CASE b.part = "plain"
    <3>1. peer' = Pair!Heard(b) /\ pairHist' = pairHist
      BY <2>4, <2>7
    <3> DEFINE stage == peer'.stage
               enc == peer'.encrypted
    <3>2. /\ peer' = [path |-> peer.path, stage |-> stage, secret |-> peer.secret,
                      encrypted |-> enc, wnonce |-> peer.wnonce, rnonce |-> peer.rnonce]
          /\ enc \in BOOLEAN
          /\ peer.stage = "first" => ~enc /\ stage = IF b.says = "m2" THEN "answered" ELSE "new"
          /\ peer.stage = "second" =>
               \/ Pair!Accepts(b) /\ stage = "ready" /\ (enc <=> peer.path # "raw")
               \/ ~Pair!Accepts(b) /\ stage = "new" /\ ~enc
          /\ peer.stage = "commanded" => stage = "ready" /\ ~enc
      <4>1. CASE peer.stage = "first"
        BY <1>1, <2>1, <2>3, <3>1, <4>1 DEF Pair!Heard, PairFields
      <4>2. CASE peer.stage = "second" /\ Pair!Accepts(b)
        BY <1>1, <2>1, <2>3, <3>1, <4>2 DEF Pair!Heard, PairFields
      <4>3. CASE peer.stage = "second" /\ ~Pair!Accepts(b)
        BY <1>1, <2>1, <2>3, <3>1, <4>3 DEF Pair!Heard, PairFields
      <4>4. CASE peer.stage = "commanded"
        BY <1>1, <2>1, <2>3, <3>1, <4>4 DEF Pair!Heard, PairFields
      <4> QED
        BY <1>2, <4>1, <4>2, <4>3, <4>4
    <3> HIDE DEF stage, enc
    <3>3. /\ peer'.path = peer.path /\ peer'.secret = peer.secret /\ peer'.encrypted = enc
          /\ peer'.wnonce = peer.wnonce /\ peer'.rnonce = peer.rnonce /\ peer'.stage = stage
          /\ stage \in {"new", "answered", "ready"}
      BY <1>2, <3>2
    <3>4. PairFields'
      BY <1>1, <2>4, <3>1, <3>2, <3>3 DEF PairFields, HapNow, PairHistNow
    <3>5. stage \in {"new", "answered"} => ~link.encrypted /\ ~enc /\ peer.stage # "commanded"
      <4>1. CASE peer.stage = "first"
        BY <1>1, <3>2, <4>1 DEF TakesTurns
      <4>2. CASE peer.stage = "second" /\ peer.path = "raw"
        BY <3>2, <4>2 DEF PairInv, PairedRaw
      <4>3. CASE peer.stage = "second" /\ peer.path # "raw"
        <5>1. b.says = "m4" \/ ~link.encrypted
          BY <1>1, <1>2, <2>7, <4>3 DEF PairInv, PairFields, PairedBySetup, PairVerified, b
        <5> QED
          BY <3>2, <4>3, <5>1 DEF Pair!Accepts
      <4> QED
        BY <1>2, <3>2, <4>1, <4>2, <4>3
    <3>6. WireFits'
      BY <1>1, <2>4 DEF WireFits
    <3>7. TakesTurns'
      <4>1. stage \in {"new", "answered"} => peer.rnonce = 0 /\ peer.wnonce = 0
        BY <1>1, <1>2, <3>5 DEF TakesTurns
      <4> QED
        BY <1>1, <1>2, <2>4, <3>3, <3>5, <4>1 DEF TakesTurns
    <3>8. ASSUME peer.path = "setup" PROVE PairedBySetup'
      <4>1. PairedBySetup /\ peer.stage \in {"first", "second"}
        BY <1>2, <1>4, <3>8 DEF PairInv
      <4>2. CASE peer.stage = "first"
        BY <1>1, <1>2, <2>4, <3>2, <3>3, <3>5, <4>1, <4>2 DEF PairedBySetup, b
      <4>3. CASE peer.stage = "second" /\ b.says = "m4"
        <5>1. SetupKeyed /\ hap.enonce = 0 /\ hap.dnonce = 0
          BY <1>2, <3>8, <4>1, <4>3 DEF PairedBySetup, b
        <5>2. stage = "ready" /\ enc
          BY <3>2, <3>8, <4>3 DEF Pair!Accepts
        <5>3. peer.rnonce = 0 /\ peer.wnonce = 0
          BY <1>1, <4>3 DEF TakesTurns
        <5>4. SetupKeyed' /\ hap'.enonce = peer'.rnonce /\ hap'.dnonce = peer'.wnonce
          BY <2>4, <3>3, <5>1, <5>3 DEF SetupKeyed
        <5> QED
          BY <3>3, <5>2, <5>4 DEF PairedBySetup, SetupKeyed
      <4>4. CASE peer.stage = "second" /\ b.says # "m4"
        <5>1. stage = "new"
          BY <3>2, <3>8, <4>4 DEF Pair!Accepts
        <5> QED
          BY <2>4, <3>3, <4>1, <5>1 DEF PairedBySetup
      <4> QED
        BY <4>1, <4>2, <4>3, <4>4
    <3>9. ASSUME peer.path = "raw" PROVE PairedRaw'
      <4>1. PairedRaw
        BY <3>9 DEF PairInv
      <4>2. ~enc
        BY <1>2, <3>2, <3>9
      <4>3. stage = "answered" => hap.exists /\ hap.verify = 2 /\ hap.secret = peer.secret
        BY <1>2, <3>2, <4>1 DEF PairedRaw, b
      <4>4. stage = "ready" => hap.exists /\ hap.established /\ hap.secret = peer.secret
        BY <1>2, <3>2, <4>1 DEF PairedRaw, b, Pair!Accepts
      <4> QED
        BY <2>4, <3>3, <4>1, <4>2, <4>3, <4>4 DEF PairedRaw
    <3>10. ASSUME peer.path = "verify" PROVE PairVerified'
      <4>1. PairVerified /\ peer.stage \in {"first", "second"}
        BY <1>2, <3>10 DEF PairInv, PairVerified
      <4>2. stage # "ready"
        BY <1>2, <2>7, <3>2, <3>10, <4>1 DEF PairVerified, b, Pair!Accepts
      <4> QED
        BY <2>4, <3>3, <4>1, <4>2 DEF PairVerified
    <3>11. pairHist'.garbled \/ peer'.stage = "lost" => peer'.path \in {"none", "verify"}
      BY <3>1, <3>3 DEF PairInv
    <3> QED
      BY <3>3, <3>4, <3>6, <3>7, <3>8, <3>9, <3>10, <3>11 DEF PairInv
  <2> QED
    BY <2>6, <2>7
<1> QED
  BY <1>3, <1>4

LEMMA PairStep ==
  ASSUME PairInv, Pair!Next
  PROVE  PairInv'
BY AskStep, HearStep, ReadPlainStep, ReadBlockStep, ReadStep DEF Pair!Next

\* A sender that pairs by pair-setup or the raw pair-verify stays in step with
\* the device: every block opens and both have the same audio key, for any
\* number of connections, exchanges, commands, blocks and failed allocations
\* (handle_post, rtsp_crypto_read_block, rtsp_crypto_write_frame, hap_pair_*).
THEOREM PairedInStep == Spec => []InStep
<1>1. Init => PairInv
  <2> SUFFICES ASSUME Init PROVE PairInv
    OBVIOUS
  <2>1. /\ hap = Pair!NoSession /\ wire = << >> /\ replies = << >> /\ peer = Pair!Away
        /\ link = [open |-> FALSE, encrypted |-> FALSE, header |-> FALSE]
        /\ pairHist = [conns |-> 0, exchanges |-> 0, commands |-> 0, oom |-> 0, garbled |-> FALSE]
    BY DEF Init, Pair!Init
  <2>2. HapNow(hap)
    BY <2>1 DEF HapNow, Pair!NoSession
  <2>3. PairFields
    BY <2>1, <2>2 DEF PairFields, PairHistNow, Pair!Away
  <2>4. WireFits /\ TakesTurns
    BY <2>1 DEF WireFits, TakesTurns, Pair!Away
  <2> QED
    BY <2>1, <2>3, <2>4 DEF PairInv, Pair!Away
<1>2. PairInv /\ [Next]_vars => PairInv'
  <2> SUFFICES ASSUME PairInv, [Next]_vars PROVE PairInv'
    OBVIOUS
  <2>1. CASE Pair!Next
    BY <2>1, PairStep
  <2>2. CASE UNCHANGED pairVars
    BY <2>2 DEF pairVars, PairInv, PairFields, HapNow, PairHistNow, WireFits, TakesTurns,
                OneAnswer, PairedBySetup, SetupKeyed, Sealed, PairedRaw, PairVerified
  <2> QED
    BY <2>1, <2>2 DEF Next, LinkEnvironment, LinkDevice, UpdateNext, LogsNext, ClockNext,
                      SessionNext, PairingNext, Only, LinkRests, PtpRests, vars
<1>3. PairInv => InStep
  <2> SUFFICES ASSUME PairInv, peer.path \in {"setup", "raw"}
               PROVE  /\ ~pairHist.garbled
                      /\ peer.stage \in {"ready", "commanded"} => Pair!AudioKey = peer.secret
    BY DEF InStep, Pair!InStep
  <2> QED
    BY DEF PairInv, PairedBySetup, SetupKeyed, PairedRaw, Pair!AudioKey
<1> QED
  BY <1>1, <1>2, <1>3, PTL DEF Spec

-----------------------------------------------------------------------------
(* The log and its clients (LogStream).                                      *)
LogFields ==
  /\ ring = [cells |-> ring.cells, head |-> ring.head, tail |-> ring.tail]
  /\ ring.cells = [i \in 0 .. RingSize - 1 |-> ring.cells[i]]
  /\ ring.head \in 0 .. RingSize - 1 /\ ring.tail \in 0 .. RingSize - 1
  /\ logHist = [logged |-> logHist.logged, read |-> logHist.read, opened |-> logHist.opened,
                late |-> logHist.late]
  /\ logHist.logged \in Nat /\ logHist.read \in Nat /\ logHist.late \in Nat
  /\ caster = [at |-> caster.at, buf |-> caster.buf, i |-> caster.i]
  /\ clients \in Seq(Fds) /\ open = [f \in Fds |-> open[f]]
  /\ sweep \in 0 .. Len(clients)

\* Where the i-th byte that waits is, counted from 0, and how many wait.
Cell(tail, i) == IF tail + i < RingSize THEN tail + i ELSE tail + i - RingSize
Waiting(head, tail) == IF tail <= head THEN head - tail ELSE head + RingSize - tail

\* The bytes that wait are those logged and not read, in their order.
RingKept ==
  /\ Waiting(ring.head, ring.tail) = logHist.logged - logHist.read
  /\ \A i \in 0 .. Waiting(ring.head, ring.tail) - 1 :
        ring.cells[Cell(ring.tail, i)] = logHist.read + i + 1

\* While the broadcast sends no session is on its way out; one at a time is.
OneHasMutex ==
  /\ caster.at = "send" => Logs!NoneLeaves /\ caster.i \in 0 .. Len(clients)
  /\ Logs!NoneLeaves => sweep = 0
  /\ \A f, g \in Fds : open[f] = "leaving" /\ open[g] = "leaving" => f = g

\* Unless a close could not wait, the table lists sessions that are WebSockets,
\* each once; of one on its way out no entry is left behind the sweep.
Listed ==
  logHist.late = 0 =>
    /\ \A i, j \in 1 .. Len(clients) : clients[i] = clients[j] => i = j
    /\ \A i \in 1 .. Len(clients) :
         /\ open[clients[i]] \in {"ws", "leaving"}
         /\ open[clients[i]] = "leaving" => i <= sweep

LogInv == LogFields /\ RingKept /\ OneHasMutex /\ Listed

-----------------------------------------------------------------------------
(* Steps of the log.                                                         *)

\* The index arithmetic of a ring, without the remainder.
LEMMA ModIs ==
  ASSUME NEW a \in Nat, a < 2 * RingSize
  PROVE  a % RingSize = IF a < RingSize THEN a ELSE a - RingSize
<1>1. RingSize \in Nat \ {0}
  BY NetworkAssumption
<1> QED
  BY <1>1

LEMMA UsedIs ==
  ASSUME LogFields
  PROVE  /\ Logs!Used = Waiting(ring.head, ring.tail)
         /\ Waiting(ring.head, ring.tail) \in 0 .. RingSize - 1
         /\ Logs!Full <=> Waiting(ring.head, ring.tail) = RingSize - 1
         /\ (ring.head + 1) % RingSize = Cell(ring.head, 1)
         /\ \A i \in 0 .. RingSize : (ring.tail + i) % RingSize = Cell(ring.tail, i)
<1> DEFINE R == RingSize  h == ring.head  t == ring.tail
<1>1. R \in Nat \ {0} /\ h \in 0 .. R - 1 /\ t \in 0 .. R - 1
  BY NetworkAssumption DEF LogFields
<1>2. (h + R - t) % R = Waiting(h, t)
  <2>1. h + R - t \in Nat /\ h + R - t < 2 * R
    BY <1>1
  <2> QED
    BY <1>1, <2>1, ModIs DEF Waiting
<1>3. (h + 1) % R = Cell(h, 1)
  <2>1. h + 1 \in Nat /\ h + 1 < 2 * R
    BY <1>1
  <2> QED
    BY <1>1, <2>1, ModIs DEF Cell
<1>4. \A i \in 0 .. R : (t + i) % R = Cell(t, i)
  <2> TAKE i \in 0 .. R
  <2>1. t + i \in Nat /\ t + i < 2 * R
    BY <1>1
  <2> QED
    BY <1>1, <2>1, ModIs DEF Cell
<1>5. Waiting(h, t) \in 0 .. R - 1 /\ (Cell(h, 1) = t <=> Waiting(h, t) = R - 1)
  BY <1>1 DEF Waiting, Cell
<1> QED
  BY <1>2, <1>3, <1>4, <1>5 DEF Logs!Used, Logs!Full

\* What the invariant says of the log.
LEMMA RingIsNewest ==
  ASSUME LogFields, RingKept
  PROVE  Logs!RingHoldsNewest
<1> DEFINE n == logHist.logged - logHist.read
<1>1. Logs!Used = n /\ n \in 0 .. RingSize - 1 /\ RingSize \in Nat
  BY UsedIs, NetworkAssumption DEF RingKept
<1>2. ASSUME NEW i \in 1 .. n
      PROVE  ring.cells[(ring.tail + i - 1) % RingSize] = logHist.read + i
  <2>1. i - 1 \in 0 .. n - 1 /\ i - 1 \in 0 .. RingSize /\ ring.tail \in Nat
    BY <1>1 DEF LogFields
  <2>2. (ring.tail + (i - 1)) % RingSize = Cell(ring.tail, i - 1)
    BY <2>1, UsedIs
  <2>3. ring.cells[Cell(ring.tail, i - 1)] = logHist.read + (i - 1) + 1
    BY <2>1 DEF RingKept
  <2>4. ring.tail + (i - 1) = ring.tail + i - 1 /\ logHist.read + (i - 1) + 1 = logHist.read + i
    BY <2>1 DEF LogFields
  <2> QED
    BY <2>2, <2>3, <2>4
<1>3. Logs!Contents = [i \in 1 .. n |-> logHist.read + i]
  BY <1>1, <1>2 DEF Logs!Contents
<1> QED
  BY <1>1, <1>3 DEF Logs!RingHoldsNewest

\* The head moves on: over the oldest byte of a full ring.
LEMMA HeadMoves ==
  ASSUME NEW h \in 0 .. RingSize - 1, NEW t \in 0 .. RingSize - 1
  PROVE  LET w == Waiting(h, t) IN
         /\ w \in 0 .. RingSize - 1 /\ Cell(h, 1) \in 0 .. RingSize - 1 /\ Cell(t, w) = h
         /\ Cell(t, 1) \in 0 .. RingSize - 1
         /\ \A i \in 0 .. w - 1 : Cell(t, i) \in 0 .. RingSize - 1 /\ Cell(t, i) # h
         /\ w # RingSize - 1 => Waiting(Cell(h, 1), t) = w + 1
         /\ w = RingSize - 1 =>
              /\ Waiting(Cell(h, 1), Cell(t, 1)) = w
              /\ \A i \in 0 .. w - 1 : Cell(Cell(t, 1), i) = Cell(t, i + 1)
<1> DEFINE w == Waiting(h, t)
<1>1. RingSize \in Nat \ {0}
  BY NetworkAssumption
<1>2. CASE t <= h
  <2>1. w = h - t
    BY <1>1, <1>2 DEF Waiting
  <2> QED
    BY <1>1, <1>2, <2>1 DEF Waiting, Cell
<1>3. CASE t > h
  <2>1. w = h + RingSize - t
    BY <1>1, <1>3 DEF Waiting
  <2> QED
    BY <1>1, <1>3, <2>1 DEF Waiting, Cell
<1> QED
  BY <1>1, <1>2, <1>3

\* A byte is logged.
LEMMA LogStep ==
  ASSUME LogInv, Logs!Log
  PROVE  LogFields' /\ RingKept'
<1> DEFINE R == RingSize  h == ring.head  t == ring.tail  c == ring.cells
           w == Waiting(h, t)
           r == logHist.read
           l == logHist.logged
<1>1. LogFields /\ RingKept
  BY DEF LogInv
<1>2. /\ R \in Nat \ {0} /\ h \in 0 .. R - 1 /\ t \in 0 .. R - 1 /\ r \in Nat /\ l \in Nat
      /\ c = [i \in 0 .. R - 1 |-> c[i]]
  BY <1>1, NetworkAssumption DEF LogFields
<1>3. /\ (h + 1) % R = Cell(h, 1) /\ (t + 1) % R = Cell(t, 1)
      /\ (Logs!Full <=> w = R - 1) /\ w \in 0 .. R - 1 /\ w = l - r
      /\ \A i \in 0 .. w - 1 : c[Cell(t, i)] = r + i + 1
  <2>1. 1 \in 0 .. R
    BY <1>2
  <2> QED
    BY <1>1, <2>1, UsedIs DEF RingKept
<1>4. /\ Cell(h, 1) \in 0 .. R - 1 /\ Cell(t, 1) \in 0 .. R - 1 /\ Cell(t, w) = h
      /\ \A i \in 0 .. w - 1 : Cell(t, i) \in 0 .. R - 1 /\ Cell(t, i) # h
      /\ w # R - 1 => Waiting(Cell(h, 1), t) = w + 1
      /\ w = R - 1 => /\ Waiting(Cell(h, 1), Cell(t, 1)) = w
                      /\ \A i \in 0 .. w - 1 : Cell(Cell(t, 1), i) = Cell(t, i + 1)
  <2>1. h \in 0 .. RingSize - 1 /\ t \in 0 .. RingSize - 1
    BY <1>2
  <2> HIDE DEF h, t
  <2> QED
    BY <2>1, HeadMoves, ZenonT(60)
<1>40. w \in Nat /\ w = l - r /\ l \in Nat /\ r \in Nat
  BY <1>2, <1>3
<1> DEFINE d == [i \in 0 .. R - 1 |-> IF i = h THEN l + 1 ELSE c[i]]
<1>5. UNCHANGED <<clients, open, sweep, caster>> /\ [c EXCEPT ![h] = l + 1] = d
  BY <1>2 DEF Logs!Log
<1>6. \A i \in 0 .. R - 1 : d[i] = IF i = h THEN l + 1 ELSE c[i]
  OBVIOUS
<1>7. CASE w # R - 1
  <2>1. /\ ring' = [cells |-> d, head |-> Cell(h, 1), tail |-> t]
        /\ logHist' = [logHist EXCEPT !.logged = l + 1]
    <3>1. /\ ring' = [cells |-> [c EXCEPT ![h] = l + 1], head |-> (h + 1) % R, tail |-> t]
          /\ logHist' = [logHist EXCEPT !.logged = l + 1, !.read = r]
      BY <1>3, <1>7 DEF Logs!Log
    <3> QED
      BY <1>1, <1>3, <1>5, <3>1 DEF LogFields
  <2>2. logHist' = [logged |-> l + 1, read |-> r, opened |-> logHist.opened,
                    late |-> logHist.late]
    BY <1>1, <2>1 DEF LogFields
  <2>3. LogFields'
    <3>1. d = [i \in 0 .. R - 1 |-> d[i]]
      BY <1>6
    <3> HIDE DEF d, l, r
    <3>2. ring'.cells = d /\ ring'.head = Cell(h, 1) /\ ring'.tail \in 0 .. R - 1
          /\ ring' = [cells |-> d, head |-> Cell(h, 1), tail |-> ring'.tail]
      BY <1>2, <1>4, <2>1
    <3>3. /\ logHist'.logged \in Nat /\ logHist'.read \in Nat /\ logHist'.late = logHist.late
          /\ logHist' = [logged |-> logHist'.logged, read |-> logHist'.read,
                         opened |-> logHist'.opened, late |-> logHist'.late]
      BY <1>2, <2>2
    <3>4. caster' = caster /\ clients' = clients /\ open' = open /\ sweep' = sweep
      BY <1>5
    <3> QED
      BY <1>1, <1>4, <3>1, <3>2, <3>3, <3>4 DEF LogFields
  <2>4. Waiting(Cell(h, 1), t) = (l + 1) - r
    <3> HIDE DEF w, h, t, r, l
    <3> QED
      BY <1>2, <1>3, <1>4, <1>7
  <2>5. ASSUME NEW i \in 0 .. (l + 1) - r - 1  PROVE d[Cell(t, i)] = r + i + 1
    <3> HIDE DEF w, h, t, r, l, c, d
    <3>1. CASE i = w
      BY <1>2, <1>3, <1>4, <1>6, <3>1
    <3>2. CASE i # w
      <4>1. i \in 0 .. w - 1
        BY <1>2, <1>3, <3>2
      <4> QED
        BY <1>3, <1>4, <1>6, <4>1
    <3> QED
      BY <3>1, <3>2
  <2> HIDE DEF d
  <2> QED
    BY <2>1, <2>2, <2>3, <2>4, <2>5 DEF RingKept
<1>8. CASE w = R - 1
  <2>1. /\ ring' = [cells |-> d, head |-> Cell(h, 1), tail |-> Cell(t, 1)]
        /\ logHist' = [logHist EXCEPT !.logged = l + 1, !.read = r + 1]
    <3>1. /\ ring' = [cells |-> [c EXCEPT ![h] = l + 1], head |-> (h + 1) % R,
                      tail |-> (t + 1) % R]
          /\ logHist' = [logHist EXCEPT !.logged = l + 1, !.read = r + 1]
      BY <1>3, <1>8 DEF Logs!Log
    <3> QED
      BY <1>3, <1>5, <3>1
  <2>2. logHist' = [logged |-> l + 1, read |-> r + 1, opened |-> logHist.opened,
                    late |-> logHist.late]
    BY <1>1, <2>1 DEF LogFields
  <2>3. LogFields'
    <3>1. d = [i \in 0 .. R - 1 |-> d[i]]
      BY <1>6
    <3> HIDE DEF d, l, r
    <3>2. ring'.cells = d /\ ring'.head = Cell(h, 1) /\ ring'.tail \in 0 .. R - 1
          /\ ring' = [cells |-> d, head |-> Cell(h, 1), tail |-> ring'.tail]
      BY <1>2, <1>4, <2>1
    <3>3. /\ logHist'.logged \in Nat /\ logHist'.read \in Nat /\ logHist'.late = logHist.late
          /\ logHist' = [logged |-> logHist'.logged, read |-> logHist'.read,
                         opened |-> logHist'.opened, late |-> logHist'.late]
      BY <1>2, <2>2
    <3>4. caster' = caster /\ clients' = clients /\ open' = open /\ sweep' = sweep
      BY <1>5
    <3> QED
      BY <1>1, <1>4, <3>1, <3>2, <3>3, <3>4 DEF LogFields
  <2>4. Waiting(Cell(h, 1), Cell(t, 1)) = (l + 1) - (r + 1)
    <3> HIDE DEF w, h, t, r, l
    <3> QED
      BY <1>2, <1>3, <1>4, <1>8
  <2>5. ASSUME NEW i \in 0 .. (l + 1) - (r + 1) - 1
        PROVE  d[Cell(Cell(t, 1), i)] = (r + 1) + i + 1
    <3> HIDE DEF w, h, t, r, l, c, d
    <3>0. i \in 0 .. w - 1 /\ Cell(Cell(t, 1), i) = Cell(t, i + 1)
      BY <1>2, <1>3, <1>4, <1>8
    <3>1. CASE i + 1 = w
      <4>1. d[h] = l + 1 /\ Cell(Cell(t, 1), i) = h
        BY <1>2, <1>4, <1>6, <3>0, <3>1
      <4>2. (r + 1) + i + 1 = l + 1
        BY <1>40, <3>0, <3>1
      <4> QED
        BY <4>1, <4>2
    <3>2. CASE i + 1 # w
      <4>1. i + 1 \in 0 .. w - 1
        BY <1>40, <3>0, <3>2
      <4>2. d[Cell(t, i + 1)] = r + (i + 1) + 1
        BY <1>3, <1>4, <1>6, <4>1
      <4> QED
        BY <1>2, <3>0, <4>2
    <3> QED
      BY <3>1, <3>2
  <2> HIDE DEF d
  <2> QED
    BY <2>1, <2>2, <2>3, <2>4, <2>5 DEF RingKept
<1> QED
  BY <1>7, <1>8

\* The broadcast reads the oldest.
LEMMA CollectStep ==
  ASSUME LogInv, Logs!Collect
  PROVE  LogFields' /\ RingKept'
<1> DEFINE R == RingSize  h == ring.head  t == ring.tail  c == ring.cells
           n == IF Logs!Used > Chunk THEN Chunk ELSE Logs!Used
           r == logHist.read
           l == logHist.logged
<1>1. LogFields /\ RingKept
  BY DEF LogInv
<1>2. /\ R \in Nat \ {0} /\ h \in 0 .. R - 1 /\ t \in 0 .. R - 1 /\ r \in Nat /\ l \in Nat
      /\ Chunk \in Nat
  BY <1>1, NetworkAssumption DEF LogFields
<1>3. Logs!Used = Waiting(h, t) /\ Waiting(h, t) \in 0 .. R - 1 /\ Waiting(h, t) = l - r
  BY <1>1, UsedIs DEF RingKept
<1>4. n \in 0 .. Waiting(h, t) /\ n \in 0 .. R
  BY <1>2, <1>3
<1>5. (t + n) % R = Cell(t, n)
  BY <1>1, <1>4, UsedIs
<1>6. /\ caster' = [at |-> "take", buf |-> SubSeq(Logs!Contents, 1, n), i |-> 0]
      /\ ring' = [ring EXCEPT !.tail = Cell(t, n)]
      /\ logHist' = [logHist EXCEPT !.read = r + n]
      /\ UNCHANGED <<clients, open, sweep>>
  BY <1>5 DEF Logs!Collect
<1> HIDE DEF n
<1>7. /\ ring' = [cells |-> c, head |-> h, tail |-> Cell(t, n)]
      /\ logHist' = [logged |-> l, read |-> r + n, opened |-> logHist.opened,
                     late |-> logHist.late]
      /\ caster' = [at |-> caster'.at, buf |-> caster'.buf, i |-> caster'.i]
  BY <1>1, <1>6 DEF LogFields
<1>8. Cell(t, n) \in 0 .. R - 1 /\ r + n \in Nat
  BY <1>2, <1>4 DEF Cell
<1>9. LogFields'
  BY <1>1, <1>6, <1>7, <1>8 DEF LogFields
<1>10. Waiting(h, Cell(t, n)) = l - (r + n)
  BY <1>2, <1>3, <1>4 DEF Waiting, Cell
<1>11. ASSUME NEW i \in 0 .. Waiting(h, Cell(t, n)) - 1
       PROVE  c[Cell(Cell(t, n), i)] = (r + n) + i + 1
  <2>1. n + i \in 0 .. Waiting(h, t) - 1 /\ Cell(Cell(t, n), i) = Cell(t, n + i)
    BY <1>2, <1>3, <1>4, <1>10 DEF Waiting, Cell
  <2>2. c[Cell(t, n + i)] = r + (n + i) + 1
    BY <1>1, <2>1 DEF RingKept
  <2> QED
    BY <1>2, <1>4, <2>1, <2>2
<1> QED
  BY <1>7, <1>9, <1>10, <1>11 DEF RingKept

\* What remove_client leaves.
LEMMA RemovedIs ==
  ASSUME clients \in Seq(Fds), NEW i \in 1 .. Len(clients)
  PROVE  LET q == Logs!Removed(i) IN
         /\ q \in Seq(Fds) /\ Len(q) = Len(clients) - 1
         /\ \A j \in 1 .. Len(clients) - 1 :
              q[j] = IF j = i THEN clients[Len(clients)] ELSE clients[j]
<1> DEFINE n == Len(clients) - 1  q == Logs!Removed(i)
<1>1. n \in Nat /\ \A j \in 1 .. Len(clients) : clients[j] \in Fds
  OBVIOUS
<1>2. q = [j \in 1 .. n |-> IF j = i THEN clients[Len(clients)] ELSE clients[j]]
  BY DEF Logs!Removed
<1>3. \A j \in 1 .. n : (IF j = i THEN clients[Len(clients)] ELSE clients[j]) \in Fds
  BY <1>1
<1>4. q \in [1 .. n -> Fds]
  BY <1>2, <1>3
<1>5. q \in Seq(Fds) /\ Len(q) = n
  BY <1>1, <1>4
<1> QED
  BY <1>2, <1>5

\* Where the ring rests, the clients and their sessions have to have their types.
LEMMA RingRests ==
  ASSUME LogFields, RingKept, UNCHANGED <<ring, logHist>>,
         caster' = [at |-> caster'.at, buf |-> caster'.buf, i |-> caster'.i],
         clients' \in Seq(Fds), open' = [f \in Fds |-> open'[f]],
         sweep' \in 0 .. Len(clients')
  PROVE  LogFields' /\ RingKept'
<1>1. ring' = ring /\ logHist' = logHist
  OBVIOUS
<1> QED
  BY <1>1 DEF LogFields, RingKept

\* A client goes while no session is on its way out.
LEMMA ClientRemoved ==
  ASSUME LogInv, NEW i \in 1 .. Len(clients), clients' = Logs!Removed(i),
         Logs!NoneLeaves, UNCHANGED <<open, sweep, logHist>>
  PROVE  clients' \in Seq(Fds) /\ Len(clients') = Len(clients) - 1 /\ Listed' /\ sweep = 0
<1>1. clients \in Seq(Fds) /\ sweep = 0
  BY DEF LogInv, LogFields, OneHasMutex
<1>2. /\ clients' \in Seq(Fds) /\ Len(clients') = Len(clients) - 1
      /\ \A j \in 1 .. Len(clients) - 1 :
           clients'[j] = IF j = i THEN clients[Len(clients)] ELSE clients[j]
  BY <1>1, RemovedIs
<1>3. ASSUME logHist.late = 0 PROVE Listed'
  <2>1. /\ \A a, b \in 1 .. Len(clients) : clients[a] = clients[b] => a = b
        /\ \A a \in 1 .. Len(clients) : open[clients[a]] = "ws"
    BY <1>1, <1>3 DEF LogInv, Listed, Logs!NoneLeaves
  <2>2. \A a, b \in 1 .. Len(clients') : clients'[a] = clients'[b] => a = b
    BY <1>1, <1>2, <2>1
  <2>3. \A a \in 1 .. Len(clients') : open'[clients'[a]] = "ws"
    BY <1>1, <1>2, <2>1
  <2> QED
    BY <2>2, <2>3 DEF Listed
<1> QED
  BY <1>1, <1>2, <1>3 DEF Listed

LEMMA LogInvStep ==
  ASSUME LogInv, Logs!Next
  PROVE  LogInv'
<1>1. LogFields /\ RingKept /\ OneHasMutex /\ Listed
  BY DEF LogInv
<1>2. CASE Logs!Log
  <2>1. UNCHANGED <<clients, open, sweep, caster>> /\ logHist'.late = logHist.late
    BY <1>1, <1>2 DEF Logs!Log, LogFields
  <2> QED
    BY <1>1, <1>2, <2>1, LogStep DEF LogInv, OneHasMutex, Listed, Logs!NoneLeaves
<1>3. CASE Logs!Collect
  <2>1. UNCHANGED <<clients, open, sweep>> /\ logHist'.late = logHist.late /\ caster'.at = "take"
    BY <1>1, <1>3 DEF Logs!Collect, LogFields
  <2> QED
    BY <1>1, <1>3, <2>1, CollectStep DEF LogInv, OneHasMutex, Listed, Logs!NoneLeaves
<1>4. CASE Logs!Take
  <2>1. /\ UNCHANGED <<ring, clients, open, sweep, logHist>> /\ Logs!NoneLeaves
        /\ caster' = [at |-> "send", buf |-> caster.buf, i |-> Len(clients)]
        /\ Len(clients) \in Nat
    <3>1. /\ caster.at = "take" /\ caster' = [caster EXCEPT !.at = "send", !.i = Len(clients)]
          /\ UNCHANGED <<ring, clients, open, sweep, logHist>> /\ Logs!NoneLeaves
      BY <1>4 DEF Logs!Take
    <3>2. clients \in Seq(Fds) /\ caster = [at |-> caster.at, buf |-> caster.buf, i |-> caster.i]
      BY <1>1 DEF LogFields
    <3>3. Len(clients) \in Nat
      BY <3>2
    <3> QED
      BY <3>1, <3>2, <3>3
  <2>2. LogFields' /\ RingKept' /\ Listed'
    BY <1>1, <2>1 DEF LogFields, RingKept, Listed
  <2>3. OneHasMutex'
    BY <1>1, <2>1 DEF OneHasMutex, Logs!NoneLeaves
  <2> QED
    BY <2>2, <2>3 DEF LogInv
<1>5. CASE Logs!SendOne
  <2>1. /\ caster.at = "send" /\ caster.i > 0 /\ UNCHANGED <<ring, open, sweep, logHist>>
        /\ caster' = [caster EXCEPT !.i = @ - 1]
        /\ clients' = clients \/ clients' = Logs!Removed(caster.i)
    BY <1>5 DEF Logs!SendOne
  <2>2. Logs!NoneLeaves /\ caster.i \in 1 .. Len(clients) /\ sweep = 0
    BY <1>1, <2>1 DEF OneHasMutex, LogFields
  <2>3. /\ clients' \in Seq(Fds) /\ Listed'
        /\ Len(clients') = Len(clients) \/ Len(clients') = Len(clients) - 1
    <3>1. CASE clients' = clients
      BY <1>1, <2>1, <3>1 DEF LogFields, Listed
    <3>2. CASE clients' = Logs!Removed(caster.i)
      BY <2>1, <2>2, <3>2, ClientRemoved
    <3> QED
      BY <2>1, <3>1, <3>2
  <2>4. caster' = [at |-> "send", buf |-> caster.buf, i |-> caster.i - 1]
    BY <1>1, <2>1 DEF LogFields
  <2>5. Len(clients') \in Nat /\ Len(clients) \in Nat
    BY <1>1, <2>3 DEF LogFields
  <2>6. LogFields' /\ RingKept'
    <3>1. sweep' \in 0 .. Len(clients')
      BY <1>1, <2>1, <2>2, <2>3, <2>4, <2>5 DEF LogFields
    <3>2. caster' = [at |-> caster'.at, buf |-> caster'.buf, i |-> caster'.i]
      BY <1>1, <2>1, <2>2, <2>3, <2>4, <2>5 DEF LogFields
    <3>3. clients' \in Seq(Fds) /\ open' = [g \in Fds |-> open'[g]]
      BY <1>1, <2>1, <2>2, <2>3, <2>4, <2>5 DEF LogFields
    <3> QED
      BY <1>1, <2>1, <2>2, <2>3, <2>4, <2>5, <3>1, <3>2, <3>3, RingRests
  <2>7. caster'.i \in 0 .. Len(clients')
    BY <2>2, <2>3, <2>4, <2>5
  <2>8. OneHasMutex'
    BY <1>1, <2>1, <2>2, <2>7 DEF OneHasMutex, Logs!NoneLeaves
  <2> QED
    BY <2>3, <2>6, <2>8 DEF LogInv
<1>6. CASE Logs!Give
  <2>1. /\ UNCHANGED <<ring, clients, open, sweep, logHist>>
        /\ caster' = [at |-> "sleep", buf |-> << >>, i |-> 0]
    BY <1>6 DEF Logs!Give, Logs!Idle
  <2> QED
    BY <1>1, <2>1 DEF LogInv, LogFields, RingKept, OneHasMutex, Listed, Logs!NoneLeaves
<1>7. CASE Logs!Open
  <2>1. PICK f \in Fds : open[f] = "closed" /\ open' = [open EXCEPT ![f] = "http"]
    BY <1>7 DEF Logs!Open, Logs!Closed
  <2>2. /\ UNCHANGED <<ring, clients, sweep, caster>> /\ Logs!NoneLeaves
        /\ logHist' = [logHist EXCEPT !.opened = @ + 1]
    BY <1>7 DEF Logs!Open
  <2>3. logHist' = [logged |-> logHist.logged, read |-> logHist.read,
                    opened |-> logHist.opened + 1, late |-> logHist.late]
    BY <1>1, <2>2 DEF LogFields
  <2>4. /\ open' = [g \in Fds |-> open'[g]]
        /\ \A g \in Fds : open'[g] = IF g = f THEN "http" ELSE open[g]
    BY <1>1, <2>1 DEF LogFields
  <2>5. LogFields' /\ RingKept'
    BY <1>1, <2>2, <2>3, <2>4 DEF LogFields, RingKept
  <2>6. Logs!NoneLeaves'
    BY <2>2, <2>4 DEF Logs!NoneLeaves, Logs!Leaving
  <2>7. OneHasMutex'
    BY <1>1, <2>2, <2>4, <2>6 DEF OneHasMutex, Logs!NoneLeaves, Logs!Leaving
  <2>8. \A i \in 1 .. Len(clients) : clients[i] \in Fds
    BY <1>1 DEF LogFields
  <2>9. Listed'
    BY <1>1, <2>1, <2>2, <2>3, <2>4, <2>8 DEF Listed
  <2> QED
    BY <2>5, <2>7, <2>9 DEF LogInv
<1>8. CASE Logs!Handshake
  <2>1. PICK f \in Fds :
          /\ open[f] = "http"
          /\ \/ /\ caster.at # "send" /\ open' = [open EXCEPT ![f] = "ws"]
                /\ clients' = Append(clients, f)
             \/ open' = [open EXCEPT ![f] = "closed"] /\ clients' = clients
    BY <1>8 DEF Logs!Handshake, Logs!Closed
  <2>2. UNCHANGED <<ring, sweep, caster, logHist>> /\ Logs!NoneLeaves
    BY <1>8 DEF Logs!Handshake
  <2>3. sweep = 0 /\ clients \in Seq(Fds) /\ \A i \in 1 .. Len(clients) : clients[i] \in Fds
    BY <1>1, <2>2 DEF OneHasMutex, LogFields
  <2>4. /\ open' = [g \in Fds |-> open'[g]]
        /\ \A g \in Fds : g # f => open'[g] = open[g]
        /\ open'[f] \in {"ws", "closed"}
    BY <1>1, <2>1 DEF LogFields
  <2>5. Logs!NoneLeaves'
    BY <2>2, <2>4 DEF Logs!NoneLeaves, Logs!Leaving
  <2>6. logHist.late = 0 => \A i \in 1 .. Len(clients) : clients[i] # f /\ open[clients[i]] = "ws"
    BY <1>1, <2>1, <2>2, <2>3 DEF Listed, Logs!NoneLeaves, Logs!Leaving
  <2>7. CASE clients' = clients
    <3>1. LogFields' /\ RingKept'
      BY <1>1, <2>2, <2>4, <2>7 DEF LogFields, RingKept
    <3>2. OneHasMutex'
      BY <1>1, <2>2, <2>5, <2>7 DEF OneHasMutex, Logs!NoneLeaves, Logs!Leaving
    <3>3. Listed'
      BY <1>1, <2>2, <2>3, <2>4, <2>6, <2>7 DEF Listed
    <3> QED
      BY <3>1, <3>2, <3>3 DEF LogInv
  <2>8. CASE caster.at # "send" /\ open' = [open EXCEPT ![f] = "ws"] /\ clients' = Append(clients, f)
    <3>0. open'[f] = "ws"
      BY <1>1, <2>8 DEF LogFields
    <3>1. /\ clients' \in Seq(Fds) /\ Len(clients') = Len(clients) + 1 /\ Len(clients) \in Nat
          /\ clients'[Len(clients) + 1] = f
          /\ \A i \in 1 .. Len(clients) : clients'[i] = clients[i]
      BY <2>3, <2>8
    <3>2. LogFields' /\ RingKept'
      <4>1. sweep' \in 0 .. Len(clients')
        BY <1>1, <2>2, <2>3, <2>4, <3>1 DEF LogFields
      <4>2. caster' = [at |-> caster'.at, buf |-> caster'.buf, i |-> caster'.i]
        BY <1>1, <2>2, <2>3, <2>4, <3>1 DEF LogFields
      <4>3. clients' \in Seq(Fds) /\ open' = [g \in Fds |-> open'[g]]
        BY <1>1, <2>2, <2>3, <2>4, <3>1 DEF LogFields
      <4> QED
        BY <1>1, <2>2, <2>3, <2>4, <3>1, <4>1, <4>2, <4>3, RingRests
    <3>3. OneHasMutex'
      BY <1>1, <2>2, <2>5, <2>8 DEF OneHasMutex, Logs!NoneLeaves, Logs!Leaving
    <3>4. Listed'
      <4> SUFFICES ASSUME logHist.late = 0
                   PROVE  /\ \A i, j \in 1 .. Len(clients') : clients'[i] = clients'[j] => i = j
                          /\ \A i \in 1 .. Len(clients') : open'[clients'[i]] = "ws"
        BY <2>2 DEF Listed
      <4>1. \A i, j \in 1 .. Len(clients) : clients[i] = clients[j] => i = j
        BY <1>1 DEF Listed
      <4>2. \A i \in 1 .. Len(clients') : i = Len(clients) + 1 \/ i \in 1 .. Len(clients)
        BY <3>1
      <4>3. \A i, j \in 1 .. Len(clients') : clients'[i] = clients'[j] => i = j
        BY <2>6, <3>1, <4>1, <4>2
      <4>4. \A i \in 1 .. Len(clients') : open'[clients'[i]] = "ws"
        BY <2>3, <2>4, <2>6, <3>0, <3>1, <4>2
      <4> QED
        BY <4>3, <4>4
    <3> QED
      BY <3>2, <3>3, <3>4 DEF LogInv
  <2> QED
    BY <2>1, <2>7, <2>8
<1>9. CASE Logs!Close
  <2>1. PICK f \in Fds :
          /\ open[f] # "closed"
          /\ \/ /\ caster.at # "send" /\ open' = [open EXCEPT ![f] = "leaving"]
                /\ sweep' = Len(clients) /\ logHist' = logHist
             \/ /\ logHist' = [logHist EXCEPT !.late = @ + 1]
                /\ open' = [open EXCEPT ![f] = "closed"] /\ sweep' = sweep
    BY <1>9 DEF Logs!Close, Logs!Closed, Logs!Leaving
  <2>2. UNCHANGED <<ring, clients, caster>> /\ Logs!NoneLeaves
    BY <1>9 DEF Logs!Close
  <2>3. /\ sweep = 0 /\ Len(clients) \in Nat /\ clients \in Seq(Fds)
        /\ \A i \in 1 .. Len(clients) : clients[i] \in Fds
    BY <1>1, <2>2 DEF OneHasMutex, LogFields
  <2>4. /\ open' = [g \in Fds |-> open'[g]]
        /\ \A g \in Fds : g # f => open'[g] = open[g]
    BY <1>1, <2>1 DEF LogFields
  <2>5. CASE /\ caster.at # "send" /\ open' = [open EXCEPT ![f] = "leaving"]
             /\ sweep' = Len(clients) /\ logHist' = logHist
    <3>1. open'[f] = "leaving"
      BY <1>1, <2>5 DEF LogFields
    <3>2. LogFields' /\ RingKept'
      <4>1. sweep' \in 0 .. Len(clients')
        BY <1>1, <2>2, <2>3, <2>4, <2>5 DEF LogFields
      <4>2. caster' = [at |-> caster'.at, buf |-> caster'.buf, i |-> caster'.i]
        BY <1>1, <2>2, <2>3, <2>4, <2>5 DEF LogFields
      <4>3. clients' \in Seq(Fds) /\ open' = [g \in Fds |-> open'[g]]
        BY <1>1, <2>2, <2>3, <2>4, <2>5 DEF LogFields
      <4> QED
        BY <1>1, <2>2, <2>3, <2>4, <2>5, <4>1, <4>2, <4>3, RingRests
    <3>3. OneHasMutex'
      BY <1>1, <2>2, <2>4, <2>5, <3>1 DEF OneHasMutex, Logs!NoneLeaves, Logs!Leaving
    <3>4. Listed'
      BY <1>1, <2>2, <2>3, <2>4, <2>5, <3>1 DEF Listed, Logs!NoneLeaves, Logs!Leaving
    <3> QED
      BY <3>2, <3>3, <3>4 DEF LogInv
  <2>6. CASE /\ logHist' = [logHist EXCEPT !.late = @ + 1]
             /\ open' = [open EXCEPT ![f] = "closed"] /\ sweep' = sweep
    <3>1. open'[f] = "closed"
      BY <1>1, <2>6 DEF LogFields
    <3>2. /\ logHist' = [logged |-> logHist.logged, read |-> logHist.read,
                         opened |-> logHist.opened, late |-> logHist.late + 1]
          /\ logHist.late + 1 \in Nat /\ logHist.late + 1 # 0
      BY <1>1, <2>6, SMTT(30) DEF LogFields
    <3>3. LogFields' /\ RingKept'
      BY <1>1, <2>2, <2>3, <2>4, <2>6, <3>2, ZenonT(40) DEF LogFields, RingKept
    <3>4. Logs!NoneLeaves'
      BY <2>2, <2>4, <3>1 DEF Logs!NoneLeaves, Logs!Leaving
    <3>5. OneHasMutex'
      BY <1>1, <2>2, <2>3, <2>6, <3>4 DEF OneHasMutex, Logs!NoneLeaves, Logs!Leaving
    <3> QED
      BY <3>2, <3>3, <3>5 DEF LogInv, Listed
  <2> QED
    BY <2>1, <2>5, <2>6
<1>10. CASE Logs!Sweep
  <2>1. PICK f \in Fds :
          /\ open[f] = "leaving"
          /\ clients' = IF clients[sweep] = f THEN Logs!Removed(sweep) ELSE clients
    BY <1>10 DEF Logs!Sweep, Logs!Leaving
  <2>2. sweep > 0 /\ sweep' = sweep - 1 /\ UNCHANGED <<ring, open, caster, logHist>>
    BY <1>10 DEF Logs!Sweep
  <2>3. sweep \in 1 .. Len(clients) /\ clients \in Seq(Fds) /\ Len(clients) \in Nat
        /\ \A i \in 1 .. Len(clients) : clients[i] \in Fds
    BY <1>1, <2>2 DEF LogFields
  <2>4. ~Logs!NoneLeaves /\ \A g \in Fds : open[g] = "leaving" => g = f
    BY <1>1, <2>1 DEF Logs!NoneLeaves, Logs!Leaving, OneHasMutex
  <2>5. caster.at # "send"
    BY <1>1, <2>4 DEF OneHasMutex
  <2>6. ~Logs!NoneLeaves'
    BY <2>2, <2>4 DEF Logs!NoneLeaves
  <2>7. OneHasMutex'
    BY <1>1, <2>2, <2>5, <2>6 DEF OneHasMutex
  <2>8. CASE clients[sweep] # f
    <3>1. clients' = clients
      BY <2>1, <2>8
    <3>2. LogFields' /\ RingKept'
      <4>1. sweep' \in 0 .. Len(clients')
        BY <1>1, <2>2, <2>3, <3>1 DEF LogFields
      <4>2. caster' = [at |-> caster'.at, buf |-> caster'.buf, i |-> caster'.i]
        BY <1>1, <2>2, <2>3, <3>1 DEF LogFields
      <4>3. clients' \in Seq(Fds) /\ open' = [g \in Fds |-> open'[g]]
        BY <1>1, <2>2, <2>3, <3>1 DEF LogFields
      <4> QED
        BY <1>1, <2>2, <2>3, <3>1, <4>1, <4>2, <4>3, RingRests
    <3>3. Listed'
      BY <1>1, <2>2, <2>3, <2>4, <2>8, <3>1 DEF Listed
    <3> QED
      BY <2>7, <3>2, <3>3 DEF LogInv
  <2>9. CASE clients[sweep] = f
    <3>1. clients' = Logs!Removed(sweep)
      BY <2>1, <2>9
    <3>2. /\ clients' \in Seq(Fds) /\ Len(clients') = Len(clients) - 1
          /\ \A j \in 1 .. Len(clients) - 1 :
               clients'[j] = IF j = sweep THEN clients[Len(clients)] ELSE clients[j]
      BY <2>3, <3>1, RemovedIs
    <3>3. LogFields' /\ RingKept'
      <4>1. sweep' \in 0 .. Len(clients')
        BY <1>1, <2>2, <2>3, <3>2 DEF LogFields
      <4>2. caster' = [at |-> caster'.at, buf |-> caster'.buf, i |-> caster'.i]
        BY <1>1, <2>2, <2>3, <3>2 DEF LogFields
      <4>3. clients' \in Seq(Fds) /\ open' = [g \in Fds |-> open'[g]]
        BY <1>1, <2>2, <2>3, <3>2 DEF LogFields
      <4> QED
        BY <1>1, <2>2, <2>3, <3>2, <4>1, <4>2, <4>3, RingRests
    <3>4. Listed'
      <4> SUFFICES ASSUME logHist.late = 0
                   PROVE  /\ \A a, b \in 1 .. Len(clients') : clients'[a] = clients'[b] => a = b
                          /\ \A a \in 1 .. Len(clients') : open[clients'[a]] = "ws"
        BY <2>2 DEF Listed
      <4>1. /\ \A a, b \in 1 .. Len(clients) : clients[a] = clients[b] => a = b
            /\ \A a \in 1 .. Len(clients) : open[clients[a]] \in {"ws", "leaving"}
        BY <1>1 DEF Listed
      <4>2. \A a, b \in 1 .. Len(clients') : clients'[a] = clients'[b] => a = b
        BY <2>3, <3>2, <4>1
      <4>3. \A a \in 1 .. Len(clients) : a # sweep => clients[a] # f
        BY <2>3, <2>9, <4>1
      <4>4. \A a \in 1 .. Len(clients) : a # sweep => open[clients[a]] = "ws"
        BY <2>3, <2>4, <4>1, <4>3
      <4>5. \A a \in 1 .. Len(clients') : open[clients'[a]] = "ws"
        BY <2>3, <3>2, <4>4
      <4> QED
        BY <4>2, <4>5
    <3> QED
      BY <2>7, <3>3, <3>4 DEF LogInv
  <2> QED
    BY <2>8, <2>9
<1>11. CASE Logs!Left
  <2>1. PICK f \in Fds : open[f] = "leaving" /\ open' = [open EXCEPT ![f] = "closed"]
    BY <1>11 DEF Logs!Left, Logs!Closed, Logs!Leaving
  <2>2. sweep = 0 /\ UNCHANGED <<ring, clients, sweep, caster, logHist>>
    BY <1>11 DEF Logs!Left
  <2>3. /\ open' = [g \in Fds |-> open'[g]]
        /\ \A g \in Fds : open'[g] = IF g = f THEN "closed" ELSE open[g]
    BY <1>1, <2>1 DEF LogFields
  <2>4. caster.at # "send" /\ \A g \in Fds : open[g] = "leaving" => g = f
    BY <1>1, <2>1 DEF Logs!NoneLeaves, Logs!Leaving, OneHasMutex
  <2>5. LogFields' /\ RingKept'
    BY <1>1, <2>2, <2>3 DEF LogFields, RingKept
  <2>6. OneHasMutex'
    BY <2>2, <2>3, <2>4 DEF OneHasMutex
  <2>7. \A i \in 1 .. Len(clients) : clients[i] \in Fds /\ ~(i <= sweep)
    BY <1>1, <2>2 DEF LogFields
  <2>8. Listed'
    BY <1>1, <2>1, <2>2, <2>3, <2>7 DEF Listed
  <2> QED
    BY <2>5, <2>6, <2>8 DEF LogInv
<1> QED
  BY <1>2, <1>3, <1>4, <1>5, <1>6, <1>7, <1>8, <1>9, <1>10, <1>11 DEF Logs!Next

\* The log that is streamed is the newest, in order, and no client is listed
\* twice as long as no close has timed out, for any size of the ring and of a
\* chunk, any number of descriptors, clients and bytes (log_stream.c).
THEOREM LogComesOnce == Spec => []LogStreamedOnce
<1>1. Init => LogInv
  <2> SUFFICES ASSUME Init PROVE LogInv
    OBVIOUS
  <2>1. /\ ring = [cells |-> [i \in 0 .. RingSize - 1 |-> 0], head |-> 0, tail |-> 0]
        /\ clients = << >> /\ open = [f \in Fds |-> "closed"] /\ sweep = 0
        /\ caster = [at |-> "sleep", buf |-> << >>, i |-> 0]
        /\ logHist = [logged |-> 0, read |-> 0, opened |-> 0, late |-> 0]
    BY DEF Init, Logs!Init, Logs!Closed, Logs!Idle
  <2>2. RingSize \in Nat \ {0} /\ 0 \in 0 .. RingSize - 1
    BY NetworkAssumption
  <2>3. LogFields
    BY <2>1, <2>2 DEF LogFields
  <2>4. RingKept
    BY <2>1, <2>2 DEF RingKept, Waiting
  <2>5. OneHasMutex /\ Listed
    BY <2>1 DEF OneHasMutex, Listed
  <2> QED
    BY <2>3, <2>4, <2>5 DEF LogInv
<1>2. LogInv /\ [Next]_vars => LogInv'
  <2> SUFFICES ASSUME LogInv, [Next]_vars PROVE LogInv'
    OBVIOUS
  <2>1. CASE Logs!Next
    BY <2>1, LogInvStep
  <2>2. CASE UNCHANGED logVars
    BY <2>2 DEF logVars, LogInv, LogFields, RingKept, OneHasMutex, Listed, Logs!NoneLeaves
  <2> QED
    BY <2>1, <2>2 DEF Next, LinkEnvironment, LinkDevice, UpdateNext, LogsNext, ClockNext,
                      SessionNext, PairingNext, Only, LinkRests, PtpRests, vars
<1>3. LogInv => LogStreamedOnce
  <2> SUFFICES ASSUME LogInv PROVE LogStreamedOnce
    OBVIOUS
  <2>1. Logs!RingHoldsNewest
    BY RingIsNewest DEF LogInv
  <2>2. DOMAIN clients = 1 .. Len(clients)
    BY DEF LogInv, LogFields
  <2>3. Logs!ClientsListedOnce
    BY <2>2 DEF LogInv, Listed, Logs!ClientsListedOnce, Logs!IsInjective
  <2> QED
    BY <2>1, <2>3 DEF LogStreamedOnce, Logs!LogStreamedOnce
<1> QED
  BY <1>1, <1>2, <1>3, PTL DEF Spec
=============================================================================
