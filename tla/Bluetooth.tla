------------------------------ MODULE Bluetooth ------------------------------
(* Who owns the speaker: AirPlay's playback task or the Bluetooth writer    *)
(* (main/main.c, main/audio/a2dp_sink.c, main/audio/audio_output.c).  The    *)
(* Bluetooth stack posts events to a short queue; the bt_app task runs       *)
(* their handlers one after the other, and stops and restarts the AirPlay    *)
(* services from there; the start-up task and the network monitor start     *)
(* them too.  A handler is a sequence of steps.  The waits for a task to    *)
(* end (1 s and 2 s) are taken to be long enough: the tasks waited for      *)
(* block for a few milliseconds at a time.                                  *)
EXTENDS Naturals, Sequences, FiniteSets

CONSTANTS QueueLen,      \* BT_TASK_QLEN
          MaxLinks,      \* times the phone connects
          MaxNetEdges,   \* changes of the network
          MaxClients     \* AirPlay clients

VARIABLES
  phone,    \* the peer: connected, streaming, and the connections so far
  queue,    \* s_bt_task_queue
  btTodo,   \* the steps each task still has to run
  bt,       \* s_connected, s_bt_discoverable and the scan mode of the stack
  writer,   \* the I2S writer task, its ring buffer and semaphore
  player,   \* AirPlay's playback task
  airplay,  \* s_airplay_started, the infrastructure, the server, the source
  clients,  \* AirPlay clients: now connected, and connections so far
  net,      \* the network now, as the monitor saw it last, changes so far
  callback, \* bt_a2dp_data_cb: the ring buffer it has looked up
  btHist    \* what went wrong: a lost event, AirPlay started beside Bluetooth,
            \* a change of the network undone before the monitor looked

btVars == <<phone, queue, btTodo, bt, writer, player, airplay, clients, net, callback, btHist>>

BtTasks == {"app", "boot", "monitor"}
Starting == <<"notStarted", "infra", "startPlayer", "startRtsp", "started">>
Stopping == <<"isStarted", "stopRtsp", "stopPlayer", "joinPlayer", "stopped">>

\* Mutant: Bluetooth playback starts before AirPlay has been stopped
ConnectedWriterFirst ==
  <<"connected", "startWriter">> \o Stopping \o <<"sourceBt", "hide">>

\* bt_a2dp_evt_handler, ESP_A2D_CONNECTION_STATE_CONNECTED
ConnectedSteps == <<"connected">> \o Stopping \o <<"sourceBt", "startWriter", "hide">>

\* Mutant: the listeners hear of the end before the flag is cleared
DisconnectedFlagLast ==
  <<"stopWriter", "joinWriter", "freeRing", "announce", "disconnected",
    "sourceNone", "ifNetwork">> \o Starting

\* ... DISCONNECTED: the writer first, the listeners, then AirPlay again
DisconnectedSteps ==
  <<"disconnected", "stopWriter", "joinWriter", "freeRing", "announce",
    "sourceNone", "ifNetwork">> \o Starting

HandlerOf(event) == IF event = "CONNECTED" THEN ConnectedSteps ELSE DisconnectedSteps

\* app_main has created the monitor, which may have seen another state of the
\* network; it starts AirPlay if there is one, and then Bluetooth
Init ==
  /\ phone = [up |-> FALSE, links |-> 0]
  /\ queue = << >>
  /\ bt = [connected |-> FALSE, discoverable |-> TRUE, scan |-> TRUE]
  /\ writer = [task |-> "none", running |-> FALSE, ring |-> FALSE, sem |-> FALSE]
  /\ player = [tasks |-> 0, running |-> FALSE, handle |-> FALSE]
  /\ airplay = [started |-> FALSE, infra |-> FALSE, rtsp |-> FALSE, source |-> "NONE"]
  /\ clients = [now |-> FALSE, total |-> 0]
  /\ \E up, seen \in BOOLEAN : net = [up |-> up, seen |-> seen, edges |-> 0]
  /\ btTodo = [t \in BtTasks |-> IF t = "boot" /\ net.up THEN Starting ELSE << >>]
  /\ callback = FALSE
  /\ btHist = [lost |-> FALSE, beside |-> FALSE, abort |-> FALSE, freed |-> FALSE,
               dip |-> FALSE]

Alive == ~btHist.abort

\* ---- the Bluetooth stack ---------------------------------------------------
\* bt_app_work_dispatch: a full queue loses the event after 10 ms
Dispatch(event) ==
  LET full == Len(queue) = QueueLen IN
  /\ queue' = IF full THEN queue ELSE Append(queue, event)
  /\ btHist' = [btHist EXCEPT !.lost = @ \/ full,
                               !.beside = @ \/ btTodo["monitor"] # << >>]

PhoneConnects ==
  /\ Alive /\ ~phone.up /\ bt.scan /\ phone.links < MaxLinks
  /\ btTodo["boot"] = << >>
  /\ phone' = [up |-> TRUE, links |-> phone.links + 1]
  /\ Dispatch("CONNECTED")
  /\ UNCHANGED <<btTodo, bt, writer, player, airplay, clients, net, callback>>

PhoneLeaves ==
  /\ Alive /\ phone.up
  /\ phone' = [phone EXCEPT !.up = FALSE]
  /\ Dispatch("DISCONNECTED")
  /\ UNCHANGED <<btTodo, bt, writer, player, airplay, clients, net, callback>>

\* bt_a2dp_data_cb, in the stack's own task: the handle is read once ...
DataArrives ==
  /\ Alive /\ phone.up /\ ~callback /\ writer.ring
  /\ callback' = TRUE
  /\ UNCHANGED <<phone, queue, btTodo, bt, writer, player, airplay, clients, net, btHist>>

\* ... and used; the prefetch level reached, the semaphore is given
DataStored ==
  /\ Alive /\ callback
  /\ callback' = FALSE
  /\ writer' = [writer EXCEPT !.sem = @ \/ writer.ring]
  /\ btHist' = [btHist EXCEPT !.freed = @ \/ ~writer.ring]
  /\ UNCHANGED <<phone, queue, btTodo, bt, player, airplay, clients, net>>

\* ---- the tasks that make sound ---------------------------------------------
\* bt_i2s_writer_task: waits for the semaphore, writes while it may run, ends
WriterStep ==
  /\ Alive
  /\ \/ /\ writer.task = "waiting" /\ writer.sem
        /\ writer' = [writer EXCEPT !.task = "writing", !.sem = FALSE]
     \/ /\ writer.task = "writing" /\ ~writer.running
        /\ writer' = [writer EXCEPT !.task = "none"]
  /\ UNCHANGED <<phone, queue, btTodo, bt, player, airplay, clients, net, callback, btHist>>

\* playback_task ends once playback_running is false
PlayerEnds ==
  /\ Alive /\ player.tasks > 0 /\ ~player.running
  /\ player' = [player EXCEPT !.tasks = @ - 1, !.handle = FALSE]
  /\ UNCHANGED <<phone, queue, btTodo, bt, writer, airplay, clients, net, callback, btHist>>

\* ---- AirPlay clients: on_airplay_client_event -------------------------------
\* bt_a2dp_sink_set_discoverable: remembered, applied unless connected
Discoverable(on) ==
  [bt EXCEPT !.discoverable = on, !.scan = IF bt.connected THEN @ ELSE on]

\* the listener ignores AirPlay's events while a phone is connected
Announced(on) == IF bt.connected THEN bt ELSE Discoverable(on)

ClientConnects ==
  /\ Alive /\ airplay.rtsp /\ ~clients.now /\ clients.total < MaxClients
  /\ clients' = [now |-> TRUE, total |-> clients.total + 1]
  /\ bt' = Announced(FALSE)
  /\ UNCHANGED <<phone, queue, btTodo, writer, player, airplay, net, callback, btHist>>

ClientLeaves ==
  /\ Alive /\ clients.now
  /\ clients' = [clients EXCEPT !.now = FALSE]
  /\ bt' = Announced(TRUE)
  /\ UNCHANGED <<phone, queue, btTodo, writer, player, airplay, net, callback, btHist>>

\* ---- the network: ethernet.c, wifi.c and network_monitor_task ---------------
NetworkChanges ==
  /\ Alive /\ net.edges < MaxNetEdges
  /\ net' = [net EXCEPT !.up = ~@, !.edges = @ + 1]
  /\ btHist' = [btHist EXCEPT !.dip = @ \/ net.up # net.seen]
  /\ UNCHANGED <<phone, queue, btTodo, bt, writer, player, airplay, clients, callback>>

\* every 2 s: AirPlay is started when the network has come up
MonitorLooks ==
  /\ Alive /\ btTodo["monitor"] = << >> /\ net.up # net.seen
  /\ net' = [net EXCEPT !.seen = net.up]
  /\ btTodo' = [btTodo EXCEPT !["monitor"] = IF net.up THEN Starting ELSE << >>]
  /\ UNCHANGED <<phone, queue, bt, writer, player, airplay, clients, callback, btHist>>

\* ---- bt_app_task -----------------------------------------------------------
TakeEvent ==
  /\ Alive /\ btTodo["app"] = << >> /\ queue # << >>
  /\ btTodo' = [btTodo EXCEPT !["app"] = HandlerOf(Head(queue))]
  /\ queue' = Tail(queue)
  /\ UNCHANGED <<phone, bt, writer, player, airplay, clients, net, callback, btHist>>

At(t, step) == Alive /\ btTodo[t] # << >> /\ Head(btTodo[t]) = step
Done(t) == btTodo' = [btTodo EXCEPT ![t] = Tail(@)]
\* an early return skips the rest of start_ or stop_airplay_services
Skip(t, n) == btTodo' = [btTodo EXCEPT ![t] = SubSeq(@, n + 1, Len(@))]

\* Steps that change one component each
BtFlag(t) ==
  /\ \/ At(t, "connected") /\ bt' = [bt EXCEPT !.connected = TRUE]
     \/ At(t, "disconnected") /\ bt' = [bt EXCEPT !.connected = FALSE]
     \/ At(t, "hide") /\ bt' = [bt EXCEPT !.scan = FALSE]
     \/ At(t, "announce") /\ bt' = Announced(TRUE)
  /\ Done(t)
  /\ UNCHANGED <<phone, queue, writer, player, airplay, clients, net, callback, btHist>>

\* i2s_task_start and i2s_task_stop
WriterControl(t) ==
  /\ \/ /\ At(t, "startWriter")
        /\ writer' = IF writer.task # "none" THEN writer
                     ELSE [task |-> "waiting", running |-> TRUE, ring |-> TRUE,
                           sem |-> writer.sem]
     \/ /\ At(t, "stopWriter")
        /\ writer' = [writer EXCEPT !.running = FALSE, !.sem = @ \/ writer.ring]
     \/ At(t, "joinWriter") /\ writer.task = "none" /\ UNCHANGED writer
     \/ At(t, "freeRing") /\ writer' = [writer EXCEPT !.ring = FALSE, !.sem = FALSE]
  /\ Done(t)
  /\ UNCHANGED <<phone, queue, bt, player, airplay, clients, net, callback, btHist>>

BtActive == phone.up \/ bt.connected \/ btTodo["app"] # << >> \/ queue # << >>

\* audio_output_start and audio_output_stop; the second returns at once when
\* there is no task
PlayerControl(t) ==
  /\ \/ /\ At(t, "startPlayer")
        /\ player' = IF player.handle THEN player
                     ELSE [tasks |-> player.tasks + 1, running |-> TRUE, handle |-> TRUE]
        /\ btHist' = [btHist EXCEPT !.beside = @ \/ (t # "app" /\ BtActive)]
     \/ /\ At(t, "stopPlayer")
        /\ player' = [player EXCEPT !.running = @ /\ ~player.handle]
        /\ UNCHANGED btHist
     \/ At(t, "joinPlayer") /\ ~player.handle /\ UNCHANGED <<player, btHist>>
  /\ Done(t)
  /\ UNCHANGED <<phone, queue, bt, writer, airplay, clients, net, callback>>

\* Conditions: the flags are read here and used a step later
Condition(t) ==
  /\ \/ At(t, "notStarted") /\ IF airplay.started THEN Skip(t, 5) ELSE Done(t)
     \/ At(t, "isStarted") /\ IF airplay.started THEN Done(t) ELSE Skip(t, 5)
     \/ At(t, "ifNetwork") /\ IF net.up THEN Done(t) ELSE Skip(t, 6)
  /\ UNCHANGED <<phone, queue, bt, writer, player, airplay, clients, net, callback, btHist>>

Source(s) == airplay' = [airplay EXCEPT !.source = s]

\* start_airplay_services and stop_airplay_services on their own flags
AirplayFlag(t) ==
  /\ \/ At(t, "infra") /\ airplay' = [airplay EXCEPT !.infra = TRUE]
     \/ At(t, "started") /\ airplay' = [airplay EXCEPT !.started = TRUE, !.source = "AIRPLAY"]
     \/ At(t, "stopped") /\ airplay' = [airplay EXCEPT !.started = FALSE, !.source = "NONE"]
     \/ At(t, "sourceBt") /\ Source("BLUETOOTH")
     \/ At(t, "sourceNone") /\ Source("NONE")
  /\ Done(t)
  /\ UNCHANGED <<phone, queue, bt, writer, player, clients, net, callback, btHist>>

\* ESP_ERROR_CHECK(rtsp_server_start()): a server that runs already aborts
StartRtsp(t) ==
  /\ At(t, "startRtsp")
  /\ airplay' = [airplay EXCEPT !.rtsp = TRUE]
  /\ btHist' = [btHist EXCEPT !.abort = airplay.rtsp]
  /\ Done(t)
  /\ UNCHANGED <<phone, queue, bt, writer, player, clients, net, callback>>

\* rtsp_server_stop: its clients leave, their events reach the listener
StopRtsp(t) ==
  /\ At(t, "stopRtsp")
  /\ airplay' = [airplay EXCEPT !.rtsp = FALSE]
  /\ clients' = [clients EXCEPT !.now = FALSE]
  /\ bt' = IF clients.now THEN Announced(TRUE) ELSE bt
  /\ Done(t)
  /\ UNCHANGED <<phone, queue, writer, player, net, callback, btHist>>

TaskStep(t) ==
  BtFlag(t) \/ WriterControl(t) \/ PlayerControl(t) \/ Condition(t)
    \/ AirplayFlag(t) \/ StartRtsp(t) \/ StopRtsp(t)

Environment ==
  PhoneConnects \/ PhoneLeaves \/ DataArrives \/ ClientConnects \/ ClientLeaves
    \/ NetworkChanges

Firmware ==
  DataStored \/ WriterStep \/ PlayerEnds \/ MonitorLooks \/ TakeEvent
    \/ \E t \in BtTasks : TaskStep(t)

Next == Environment \/ Firmware

Spec == Init /\ [][Next]_btVars /\ WF_btVars(Firmware)

TypeOK ==
  /\ phone \in [up : BOOLEAN, links : 0 .. MaxLinks]
  /\ Len(queue) <= QueueLen
  /\ bt \in [connected : BOOLEAN, discoverable : BOOLEAN, scan : BOOLEAN]
  /\ writer \in [task : {"none", "waiting", "writing"}, running : BOOLEAN,
                 ring : BOOLEAN, sem : BOOLEAN]
  /\ player \in [tasks : 0 .. 3, running : BOOLEAN, handle : BOOLEAN]
  /\ airplay \in [started : BOOLEAN, infra : BOOLEAN, rtsp : BOOLEAN,
                  source : {"NONE", "AIRPLAY", "BLUETOOTH"}]

\* Two tasks never write to the I2S channel at once: the playback task has
\* ended before the Bluetooth writer writes, and the other way round
\* (bt_a2dp_evt_handler, on_bt_state_changed, audio_output_stop,
\* i2s_task_stop).  Excluded: the network monitor or the start-up task, which
\* do not look at Bluetooth, starting AirPlay beside it; and a lost event.
OneWriter ==
  writer.task = "writing" /\ player.tasks > 0 => btHist.beside \/ btHist.lost

\* A phone that leaves gives the device back: once nothing more happens, the
\* device can be found again, or an AirPlay client holds it; and with a network
\* AirPlay runs and is the playback source (the DISCONNECTED branch of
\* bt_a2dp_evt_handler, on_airplay_client_event, on_bt_state_changed).
\* Excluded, besides the cases of OneWriter: a change of the network undone
\* within the monitor's two seconds, which it cannot see.
GivenBack ==
  (~phone.up /\ Alive) ~>
     \/ phone.up \/ ~Alive \/ btHist.lost \/ btHist.beside \/ btHist.dip
     \/ /\ bt.scan \/ clients.now
        /\ net.up => airplay.started /\ airplay.source = "AIRPLAY"

\* What bt_a2dp_data_cb says of its snapshot: the ring buffer cannot be freed
\* between the look-up and the use.
SnapshotKeepsRing == ~btHist.freed
=============================================================================
