------------------------------- MODULE HaMqtt -------------------------------
(* The Home Assistant link: main/network/ha_mqtt.c.  Three tasks publish     *)
(* without a lock (the client's own, the RTSP task, the refresh timer), and  *)
(* the web task stops and starts the client when its settings change.  A     *)
(* value is read and then published, in two steps; gain stands for all that  *)
(* is kept in settings and reported (gain, tone, matrix).                    *)
EXTENDS Naturals, FiniteSets

CONSTANTS MaxChanges   \* changes of settings, of the track and of the network

VARIABLES
  config,     \* settings: MQTT is enabled and has a host
  gain,       \* settings: the value that is reported
  playing,    \* s_np: what is playing, or idle
  haClient,   \* s_client: none or up; whether s_connected; refresh timer runs
  mqttTask,   \* the client's task: off, waiting, connected, or in a handler
  web,        \* ha_mqtt_reconfigure: where it is
  held,       \* for each publisher, what it is about to publish
  shown,      \* what the broker holds: availability, track and gain
  haHist      \* changes so far

haVars == <<config, gain, playing, haClient, mqttTask, web, held, shown, haHist>>

Publishers == {"handler", "rtsp", "timer"}
Tracks == {"idle", "one", "two"}
Nothing == [topic |-> "none", value |-> "none"]

NoHaClient == [up |-> FALSE, connected |-> FALSE, timer |-> FALSE]

Init ==
  /\ config \in BOOLEAN /\ gain = "low" /\ playing = "idle"
  /\ haClient = NoHaClient /\ mqttTask = "off" /\ web = "start"
  /\ held = [p \in Publishers |-> Nothing]
  /\ shown = [status |-> "unknown", track |-> "none", gain |-> "none"]
  /\ haHist = 0

Change == haHist < MaxChanges /\ haHist' = haHist + 1

\* stop_client: stop waits for the client's task, s_connected is cleared last.
\* A clean stop leaves the retained availability as it was.
Stop ==
  /\ web = "stop" /\ mqttTask \in {"off", "waiting", "connected"}
  /\ mqttTask' = "off" /\ haClient' = [haClient EXCEPT !.up = FALSE]
  /\ web' = "clear"
  /\ UNCHANGED <<config, gain, playing, held, shown, haHist>>

Clear ==
  /\ web = "clear" /\ web' = "start"
  /\ haClient' = [haClient EXCEPT !.connected = FALSE, !.timer = FALSE]
  /\ UNCHANGED <<config, gain, playing, mqttTask, held, shown, haHist>>

\* Mutant: the timer, once made, is not started again
StartedTimerOnce == [up |-> TRUE, connected |-> FALSE, timer |-> haHist = 0]

Started == [up |-> TRUE, connected |-> FALSE, timer |-> TRUE]

\* start_client: not when disabled; the refresh timer is started
Start ==
  /\ web = "start" /\ web' = "rest"
  /\ IF config THEN haClient' = Started /\ mqttTask' = "waiting"
     ELSE UNCHANGED <<haClient, mqttTask>>
  /\ UNCHANGED <<config, gain, playing, held, shown, haHist>>

\* mqtt_config_handler saves and reconfigures
Reconfigure ==
  /\ web = "rest" /\ Change
  /\ config' \in BOOLEAN /\ web' = "stop"
  /\ UNCHANGED <<gain, playing, haClient, mqttTask, held, shown>>

\* what a publisher tells of the track and of the settings, in this order
Value(topic) == IF topic = "track" THEN playing ELSE gain

\* a publisher reads a value to publish (publish_nowplaying, publish_volume)
Reads(p, topic) == held' = [held EXCEPT ![p] = [topic |-> topic, value |-> Value(topic)]]

\* mqtt_pub: nothing without a connection; the value goes out as it was read
Pub(p) ==
  /\ held[p] # Nothing
  /\ held' = [held EXCEPT ![p] = Nothing]
  /\ shown' = IF haClient.up /\ haClient.connected
              THEN [shown EXCEPT ![held[p].topic] = held[p].value] ELSE shown

\* CONNECTED: availability, discovery and subscriptions, then all states
Connected ==
  /\ mqttTask = "waiting"
  /\ haClient' = [haClient EXCEPT !.connected = TRUE]
  /\ shown' = [shown EXCEPT !.status = "online"]
  /\ mqttTask' = "track"
  /\ UNCHANGED <<config, gain, playing, web, held, haHist>>

\* publish_all_state in the handler, one value after the other
HandlerReads ==
  /\ mqttTask \in {"track", "gain"} /\ held["handler"] = Nothing
  /\ Reads("handler", mqttTask)
  /\ UNCHANGED <<config, gain, playing, haClient, mqttTask, web, shown, haHist>>

HandlerPublishes ==
  /\ Pub("handler")
  /\ mqttTask' = IF mqttTask = "track" THEN "gain" ELSE "connected"
  /\ UNCHANGED <<config, gain, playing, haClient, web, haHist>>

\* handle_volume_set and the other commands: saved, then told
Command ==
  /\ mqttTask = "connected" /\ Change
  /\ gain' \in {"low", "high"} /\ mqttTask' = "gain"
  /\ UNCHANGED <<config, playing, haClient, web, held, shown>>

\* DISCONNECTED: the broker tells the others that we are gone
Disconnected ==
  /\ mqttTask = "connected" /\ Change
  /\ haClient' = [haClient EXCEPT !.connected = FALSE]
  /\ mqttTask' = "waiting" /\ shown' = [shown EXCEPT !.status = "offline"]
  /\ UNCHANGED <<config, gain, playing, web, held>>

\* on_rtsp_event: the snapshot changes, and is told if there is a connection
RtspEvent ==
  /\ held["rtsp"] = Nothing /\ Change
  /\ \E t \in Tracks \ {playing} :
       /\ playing' = t
       /\ held' = IF haClient.connected
                  THEN [held EXCEPT !["rtsp"] = [topic |-> "track", value |-> t]] ELSE held
  /\ UNCHANGED <<config, gain, haClient, mqttTask, web, shown>>

RtspPublishes ==
  /\ Pub("rtsp")
  /\ UNCHANGED <<config, gain, playing, haClient, mqttTask, web, haHist>>

\* a setting changes elsewhere (web page, buttons): nobody tells
SettingChanges ==
  /\ Change
  /\ gain' = IF gain = "low" THEN "high" ELSE "low"
  /\ UNCHANGED <<config, playing, haClient, mqttTask, web, held, shown>>

\* refresh_timer_cb: every half minute all is told again.  Nothing is left to
\* tell when the broker is up to date.
Refreshes ==
  /\ haClient.timer /\ haClient.connected /\ held["timer"] = Nothing
  /\ \E topic \in {"track", "gain"} : shown[topic] # Value(topic) /\ Reads("timer", topic)
  /\ UNCHANGED <<config, gain, playing, haClient, mqttTask, web, shown, haHist>>

TimerPublishes ==
  /\ Pub("timer")
  /\ UNCHANGED <<config, gain, playing, haClient, mqttTask, web, haHist>>

ClientRuns == Connected \/ HandlerReads \/ HandlerPublishes
WebRuns == Stop \/ Clear \/ Start
TimerRuns == Refreshes \/ TimerPublishes
Environment == Reconfigure \/ Command \/ Disconnected \/ RtspEvent \/ SettingChanges
Next == ClientRuns \/ WebRuns \/ TimerRuns \/ RtspPublishes \/ Environment

\* While the link holds, Home Assistant comes to show what the device has,
\* though two tasks published out of order or nobody told it of a change
\* (refresh_timer_cb, start_client).
HaCatchesUp ==
  [](haClient.connected =>
       <>(~haClient.connected \/ (shown.track = playing /\ shown.gain = gain)))
=============================================================================
