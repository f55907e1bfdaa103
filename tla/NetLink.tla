------------------------------ MODULE NetLink -------------------------------
(* The way into the network: main/network/wifi.c, ethernet.c, dns_server.c   *)
(* and network_monitor_task and the network part of app_main in main/main.c. *)
(* The system event task runs the handlers, a timer retries a lost           *)
(* connection, a task of its own looks for the best access point, and the    *)
(* monitor compares flags every two seconds.  An access point carries the    *)
(* device's network name; several may.                                       *)
EXTENDS Naturals, FiniteSets

CONSTANTS AccessPoints,  \* the access points of the saved network
          Threshold,     \* AP_REENABLE_THRESHOLD
          MaxChanges,    \* changes of the air and of the cable
          MaxRefusals    \* joins that fail although the access point is there

VARIABLES
  air,      \* the access points that can be heard
  creds,    \* the settings hold a network
  wifi,     \* wifi.c and the driver: s_wifi_initialized, the mode, what the
            \* station does, s_retry_num, the armed s_retry_timer, the BSSID
            \* the configuration is locked to, the access point it is joined
            \* to, s_sta_connected
  cable,    \* ethernet.c: s_eth_link_up, s_eth_connected
  monitor,  \* app_main's progress and the locals of network_monitor_task
  dns,      \* dns_server.c: s_dns_socket is open; tasks that serve it
  netHist   \* changes and refusals so far; the cable was pulled after app_main
            \* chose it and before the monitor's first look

netVars == <<air, creds, wifi, cable, monitor, dns, netHist>>

NoAp == "none"

Off == [on |-> FALSE, ap |-> FALSE, sta |-> "rest", retry |-> 0, timer |-> FALSE,
        lock |-> NoAp, joined |-> NoAp, connected |-> FALSE]

Init ==
  /\ air \in SUBSET AccessPoints
  /\ creds \in BOOLEAN
  /\ wifi = Off
  /\ cable = [link |-> FALSE, connected |-> FALSE]
  /\ monitor = [at |-> "boot", hadNetwork |-> FALSE, hadEth |-> FALSE,
                wifiStarted |-> FALSE, dns |-> FALSE]
  /\ dns = [open |-> FALSE, tasks |-> 0]
  /\ netHist = [changes |-> 0, refusals |-> 0, pulled |-> FALSE]

(* --- wifi.c --- *)

\* wifi_init_apsta: a configuration without a lock, both modes, and the driver
\* posts STA_START
Started == [Off EXCEPT !.on = TRUE, !.ap = TRUE, !.sta = "start"]

\* event_handler, STA_START: scan_and_connect_task
StationStarts ==
  /\ wifi.sta = "start"
  /\ wifi' = [wifi EXCEPT !.sta = "scan"]
  /\ UNCHANGED <<air, creds, cable, monitor, dns, netHist>>

\* esp_wifi_connect: refused without a network name
Connect(w) == [w EXCEPT !.sta = IF creds THEN "joining" ELSE "rest"]

\* wifi_select_best_ap locks the configuration to the strongest access point
\* that answers, and to none when the scan fails or finds none
ScanAndConnect ==
  /\ wifi.sta = "scan"
  /\ \E best \in {NoAp} \union (IF creds THEN air ELSE {}) :
       wifi' = Connect([wifi EXCEPT !.lock = best])
  /\ UNCHANGED <<air, creds, cable, monitor, dns, netHist>>

Audible == IF wifi.lock = NoAp THEN air ELSE air \intersect {wifi.lock}

\* the driver joins and DHCP answers: GOT_IP is posted
Join ==
  /\ wifi.sta = "joining"
  /\ \E a \in Audible : wifi' = [wifi EXCEPT !.sta = "address", !.joined = a]
  /\ UNCHANGED <<air, creds, cable, monitor, dns, netHist>>

\* the driver gives up: DISCONNECTED is posted
JoinFails ==
  /\ wifi.sta = "joining"
  /\ Audible # {} => netHist.refusals < MaxRefusals
  /\ wifi' = [wifi EXCEPT !.sta = "lost"]
  /\ netHist' = IF Audible = {} THEN netHist ELSE [netHist EXCEPT !.refusals = @ + 1]
  /\ UNCHANGED <<air, creds, cable, monitor, dns>>

\* schedule_retry: the delay grows, the timer is one-shot
ScheduleRetry(w) == [w EXCEPT !.sta = "rest", !.timer = TRUE]

\* enable_ap_mode
EnableAp(w) == [w EXCEPT !.ap = TRUE]

\* Mutant: the setup network comes back one failure too late
StationLostLate(w) ==
  LET n == IF w.retry > Threshold THEN w.retry ELSE w.retry + 1
      seen == [w EXCEPT !.connected = FALSE, !.joined = NoAp, !.retry = n] IN
  IF n < Threshold THEN Connect(seen)
  ELSE ScheduleRetry(IF n > Threshold THEN EnableAp(seen) ELSE seen)

\* event_handler, DISCONNECTED: fast retries, then the setup network and
\* retries by the timer.  The counter matters up to one past the threshold.
StationLost(w) ==
  LET n == IF w.retry > Threshold THEN w.retry ELSE w.retry + 1
      seen == [w EXCEPT !.connected = FALSE, !.joined = NoAp, !.retry = n] IN
  IF n < Threshold THEN Connect(seen)
  ELSE ScheduleRetry(IF n = Threshold THEN EnableAp(seen) ELSE seen)

HandleLost ==
  /\ wifi.sta = "lost"
  /\ wifi' = StationLost(wifi)
  /\ UNCHANGED <<air, creds, cable, monitor, dns, netHist>>

\* event_handler, GOT_IP: the setup network is closed
HandleAddress ==
  /\ wifi.sta = "address"
  /\ wifi' = [wifi EXCEPT !.sta = "up", !.retry = 0, !.connected = TRUE, !.ap = FALSE]
  /\ UNCHANGED <<air, creds, cable, monitor, dns, netHist>>

\* Mutant: the timer fires and nobody connects
RetryTimerIdle == wifi.timer /\ wifi' = [wifi EXCEPT !.timer = FALSE]

\* retry_timer_callback
RetryTimer ==
  /\ wifi.timer
  /\ wifi' = LET fired == [wifi EXCEPT !.timer = FALSE] IN
             IF wifi.connected THEN fired ELSE Connect(fired)

RetryTimerFires == RetryTimer /\ UNCHANGED <<air, creds, cable, monitor, dns, netHist>>

\* access points come and go; a joined one that goes is reported by the driver
AirChanges ==
  /\ netHist.changes < MaxChanges
  /\ \E heard \in SUBSET AccessPoints :
       /\ heard # air
       /\ air' = heard
       /\ wifi' = IF wifi.joined # NoAp /\ wifi.joined \notin heard
                  THEN [wifi EXCEPT !.sta = "lost"] ELSE wifi
  /\ netHist' = [netHist EXCEPT !.changes = @ + 1]
  /\ UNCHANGED <<creds, cable, monitor, dns>>

(* --- ethernet.c --- *)

\* eth_event_handler: CONNECTED and DISCONNECTED, which also clears the address
CableChanges ==
  /\ netHist.changes < MaxChanges
  /\ cable' = [link |-> ~cable.link, connected |-> FALSE]
  /\ netHist' = [netHist EXCEPT !.changes = @ + 1,
        !.pulled = @ \/ (monitor.at = "wait" /\ ~wifi.on /\ cable.connected)]
  /\ UNCHANGED <<air, creds, wifi, monitor, dns>>

\* eth_got_ip_handler
CableAddress ==
  /\ cable.link /\ ~cable.connected
  /\ cable' = [cable EXCEPT !.connected = TRUE]
  /\ UNCHANGED <<air, creds, wifi, monitor, dns, netHist>>

(* --- dns_server.c --- *)

DnsStarted(d) == IF d.open THEN d ELSE [open |-> TRUE, tasks |-> d.tasks + 1]

\* the task sees the closed socket and ends
DnsTaskEnds ==
  /\ ~dns.open /\ dns.tasks > 0
  /\ dns' = [dns EXCEPT !.tasks = @ - 1]
  /\ UNCHANGED <<air, creds, wifi, cable, monitor, netHist>>

(* --- main.c --- *)

\* app_main waits for the cable, then starts Wi-Fi without it, and waits for
\* that: 15 and 30 seconds at most, so both may have changed by then
Boot ==
  /\ monitor.at = "boot"
  /\ wifi' = IF cable.connected THEN wifi ELSE Started
  /\ monitor' = [monitor EXCEPT !.at = "wait"]
  /\ UNCHANGED <<air, creds, cable, dns, netHist>>

\* network_monitor_task begins: its locals, and the portal's DNS
MonitorStarts ==
  /\ monitor.at = "wait"
  /\ LET network == cable.connected \/ wifi.connected IN
     /\ monitor' = [at |-> "run", hadNetwork |-> network, hadEth |-> cable.connected,
                    wifiStarted |-> wifi.connected \/ ~cable.connected, dns |-> ~network]
     /\ dns' = IF network THEN dns ELSE DnsStarted(dns)
  /\ UNCHANGED <<air, creds, wifi, cable, netHist>>

\* the cable was pulled since the monitor looked
Fallback(eth) == ~eth /\ monitor.hadEth

\* wifi_init_apsta of a driver that runs (an address on the cable came while
\* app_main waited for Wi-Fi, and wifi_started is false): a new configuration,
\* and no STA_START
StartedAgain == IF wifi.on THEN [wifi EXCEPT !.ap = TRUE, !.retry = 0, !.lock = NoAp]
                ELSE Started

\* one round of the monitor: the cable replaces Wi-Fi, Wi-Fi replaces the cable
LinksAfter(eth) ==
  IF eth /\ ~monitor.hadEth /\ monitor.wifiStarted THEN Off
  ELSE IF Fallback(eth) THEN StartedAgain
  ELSE wifi

\* a station that is joining takes no configuration: ESP_ERROR_CHECK aborts,
\* and the device starts again
MonitorAborts ==
  /\ monitor.at = "run" /\ Fallback(cable.connected) /\ wifi.sta = "joining"
  /\ wifi' = Off
  /\ monitor' = [monitor EXCEPT !.at = "boot"]
  /\ dns' = [open |-> FALSE, tasks |-> 0]
  /\ UNCHANGED <<air, creds, cable, netHist>>

MonitorLooks ==
  /\ monitor.at = "run"
  /\ \/ cable.connected # monitor.hadEth
     \/ (cable.connected \/ wifi.connected) # monitor.hadNetwork
  /\ ~(Fallback(cable.connected) /\ wifi.sta = "joining")
  /\ LET eth == cable.connected
         links == LinksAfter(eth)
         network == eth \/ links.connected
         changed == network # monitor.hadNetwork IN
     /\ wifi' = links
     /\ monitor' = [monitor EXCEPT !.hadEth = eth, !.hadNetwork = network,
          !.wifiStarted = IF Fallback(eth) THEN TRUE
                          ELSE @ /\ ~(eth /\ ~monitor.hadEth),
          !.dns = ~network]
     /\ dns' = IF ~changed THEN dns
               ELSE IF ~network THEN DnsStarted(dns)
               ELSE [dns EXCEPT !.open = FALSE]
     /\ netHist' = [netHist EXCEPT !.pulled = @ /\ ~eth]
  \* two seconds between rounds, one second for a DNS task to see its socket
  /\ dns.open \/ dns.tasks = 0
  /\ UNCHANGED <<air, creds, cable>>

\* what the air and the cable do
Environment == AirChanges \/ CableChanges

\* what the driver, the handlers and the tasks do when they can
Device ==
  \/ StationStarts \/ ScanAndConnect \/ Join \/ JoinFails \/ HandleLost
  \/ HandleAddress \/ RetryTimerFires \/ CableAddress \/ DnsTaskEnds \/ Boot
  \/ MonitorStarts \/ MonitorLooks \/ MonitorAborts

Next == Environment \/ Device

Seeking == wifi.sta \in {"start", "scan", "joining", "address", "lost"} \/ wifi.timer

\* A running device can be reached or is on its way: the cable carried it when
\* the monitor looked, or Wi-Fi is on and has an address, is trying, or offers
\* the setup network; after Threshold failed tries it offers that network
\* whatever it tries (event_handler, enable_ap_mode, network_monitor_task).
\* Excluded: a cable pulled between app_main's choice and the monitor's first
\* look, which leaves Wi-Fi off until the cable returns.
NeverUnreachable ==
  monitor.at = "run" /\ ~monitor.hadEth /\ ~netHist.pulled =>
    /\ wifi.on
    /\ wifi.sta = "up" \/ (creds /\ Seeking) \/ wifi.ap
    /\ wifi.retry >= Threshold => wifi.ap

\* A device that knows a network joins it again once its access point can be
\* heard: the retries never stop (event_handler, retry_timer_callback).
Rejoins ==
  []<>(\/ ~wifi.on \/ ~creds \/ wifi.connected \/ Audible = {})

\* The same of any access point of the network, as wifi_scan's "Clear BSSID
\* lock so next connect can use a fresh scan result" has it.
RejoinsAny ==
  []<>(\/ ~wifi.on \/ ~creds \/ wifi.connected \/ air = {})
=============================================================================
