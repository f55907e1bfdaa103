------------------------------- MODULE PogBus -------------------------------
(* The link to pog Home's broker: components/pogdev/pogdev_bus.c and         *)
(* pogdev_retry.c, on top of the enrolment.  The client's own task runs the  *)
(* event handlers, soin_task stops and starts the client, state_task tells   *)
(* again what was not told, any task may publish: s_client_lock is between   *)
(* them, and all but soin_task give up waiting for it.  Time is counted in   *)
(* the client's attempts to connect, one a minute, and wraps.                *)
EXTENDS Enrol

CONSTANTS Wrap,         \* minutes before the millisecond clock wraps
          Groups,       \* effect groups a command may name
          MaxCommands   \* commands that join or leave a group

VARIABLES
  client,   \* s_client: none, up, or being stopped; the credentials and the
            \* broker it was started with
  status,   \* s_status
  mqtt,     \* the client's task: waiting to connect, connected, or in a handler
  lock,     \* who holds s_client_lock
  dirty,    \* s_hello_dirty
  speaker,  \* state_task: resting, or about to publish the manifest it took on
  retry,    \* pogdev_retry_t
  orders,   \* soin_task's notification bits
  soin,     \* where soin_task is, the server it talks to, what it was given
  broker,   \* what the broker holds of us: manifest, current state, groups
  effect,   \* s_topic_effect
  busHist   \* the clock; commands so far

busVars == <<client, status, mqtt, lock, dirty, speaker, retry, orders, soin,
             broker, effect, busHist>>
vars == <<enrolVars, busVars>>

None == "none"
NoClient == [is |-> "none", creds |-> 0, host |-> Nowhere]
SoinOff == [at |-> "off", srv |-> Nowhere, got |-> 0, move |-> FALSE]
\* pogdev_retry_t; a moment that was not taken reads Wrap
FreshRetry == [echecs |-> 0, refus |-> 0, first |-> Wrap, last |-> Wrap]
NothingHeld == [hello |-> FALSE, current |-> FALSE, groups |-> {}]

BusInit ==
  /\ client = NoClient /\ status = "not started" /\ mqtt = "off" /\ lock = None
  /\ dirty = TRUE /\ speaker = "off" /\ retry = FreshRetry /\ orders = {}
  /\ soin = SoinOff /\ broker = NothingHeld /\ effect = None
  /\ busHist = [now |-> 0, commands |-> 0]

Init == EnrolInit /\ BusInit

-----------------------------------------------------------------------------
(* Starting                                                                  *)

\* bus_launch: nothing without credentials
Launch ==
  /\ EnrolGet
  /\ client' = [is |-> "up", creds |-> ram.creds, host |-> ram.host]
  /\ status' = "connecting" /\ mqtt' = "waiting"

\* pogdev_app_start: the bus and its two tasks, if the device is adopted
StartBus ==
  \/ ~EnrolGet /\ status' = "not started" /\ retry' = FreshRetry
     /\ UNCHANGED <<client, mqtt, speaker, soin>>
  \/ Launch /\ retry' = FreshRetry /\ speaker' = "resting"
     /\ soin' = [soin EXCEPT !.at = "waiting"]

\* the call in start_airplay_services
StarterStartsBus ==
  /\ starter = "bus" /\ starter' = "done"
  /\ StartBus
  /\ UNCHANGED <<nvs, ram, task, found, home, mishaps,
                 lock, dirty, orders, broker, effect, busHist>>

\* the callback of enrol_task
AdoptionStartsBus ==
  /\ task.at = "adopted" /\ task' = [task EXCEPT !.at = "done"]
  /\ StartBus
  /\ UNCHANGED <<nvs, ram, starter, found, home, mishaps,
                 lock, dirty, orders, broker, effect, busHist>>

-----------------------------------------------------------------------------
(* The retry policy                                                          *)

Minutes(a, b) == (b + Wrap - a) % Wrap

\* Mutant: the search for a moved server is due once, at the third failure
EchecOnce(r) ==
  LET n == IF r.echecs < 4 THEN r.echecs + 1 ELSE r.echecs IN
  [retry |-> [r EXCEPT !.echecs = n], due |-> n = 3]

\* pogdev_retry_echec
Echec(r) ==
  LET n == IF r.echecs < 3 THEN r.echecs + 1 ELSE r.echecs IN
  [retry |-> [r EXCEPT !.echecs = n], due |-> n >= 3]

\* pogdev_retry_refus_auth: three refusals over 90 seconds, and then no sooner
\* than two minutes after the last time
Refus(r, now) ==
  LET first == IF r.first = Wrap THEN now ELSE r.first
      n == IF r.refus < 3 THEN r.refus + 1 ELSE r.refus
      due == /\ n >= 3
             /\ 2 * Minutes(first, now) >= 3
             /\ r.last = Wrap \/ Minutes(r.last, now) >= 2 IN
  [retry |-> [r EXCEPT !.first = first, !.refus = n, !.last = IF due THEN now ELSE @],
   due |-> due]

-----------------------------------------------------------------------------
(* The client's task                                                         *)

Reachable == client.host = home.addr
Accepted == Reachable /\ client.creds = home.creds /\ home.creds # 0

Tick == busHist' = [busHist EXCEPT !.now = (@ + 1) % Wrap]

\* CONNECTED: the status is told at once, the manifest is due again and the
\* handler takes it on
Connected ==
  /\ mqtt = "waiting" /\ Accepted
  /\ status' = "connected" /\ retry' = FreshRetry
  /\ dirty' = FALSE /\ mqtt' = "hello"
  /\ Tick
  /\ UNCHANGED <<enrolVars, client, lock, speaker, orders, soin, broker, effect>>

\* ERROR and DISCONNECTED: refused, or nobody there
ConnectFails ==
  LET refused == IF Reachable THEN Refus(retry, busHist.now)
                 ELSE [retry |-> retry, due |-> FALSE]
      failed == Echec(refused.retry) IN
  /\ mqtt = "waiting" /\ ~Accepted
  /\ status' = IF Reachable \/ status = "auth failed" THEN "auth failed" ELSE "connecting"
  /\ retry' = failed.retry
  /\ orders' = orders \cup (IF refused.due THEN {"releve"} ELSE {})
                      \cup (IF failed.due THEN {"reprise"} ELSE {})
  /\ dirty' = TRUE
  /\ Tick
  /\ UNCHANGED <<enrolVars, client, mqtt, lock, speaker, soin, broker, effect>>

\* DISCONNECTED: the broker went away and forgot us
ConnectionLost ==
  /\ mqtt = "connected" /\ ~Accepted
  /\ mqtt' = "waiting" /\ dirty' = TRUE /\ broker' = NothingHeld
  /\ status' = IF status = "auth failed" THEN status ELSE "connecting"
  /\ LET failed == Echec(retry) IN
     /\ retry' = failed.retry
     /\ orders' = orders \cup (IF failed.due THEN {"reprise"} ELSE {})
  /\ UNCHANGED <<enrolVars, client, lock, speaker, soin, effect, busHist>>

\* a task that may give up waiting has the lock, or not
CanTake == lock = None

\* Mutant: a handler waits for the lock as long as it takes
GivesUpNever == FALSE

\* publish_hello and publish_state wait 100 ms, the effect calls 250
GivesUp == lock # None

\* publish_hello from the CONNECTED handler: published, or due again.  The
\* local queue may refuse it.
Told == client.is = "up" /\ status = "connected"

\* Mutant: a manifest that was refused is forgotten
HelloForgotten(fails) ==
  /\ UNCHANGED dirty
  /\ broker' = IF CanTake /\ Told /\ ~fails THEN [broker EXCEPT !.hello = TRUE] ELSE broker

PublishHello(fails) ==
  IF CanTake /\ Told /\ ~fails
  THEN broker' = [broker EXCEPT !.hello = TRUE] /\ UNCHANGED dirty
  ELSE dirty' = TRUE /\ UNCHANGED broker

HandlerTellsHello ==
  /\ mqtt = "hello" /\ (CanTake \/ GivesUp)
  /\ \/ PublishHello(FALSE) /\ UNCHANGED mishaps
     \/ Mishap /\ PublishHello(TRUE)
  /\ mqtt' = "subscribe"
  /\ UNCHANGED <<nvs, ram, task, starter, found, home,
                 client, status, lock, speaker, retry, orders, soin, effect, busHist>>

\* Mutant: the group is left out when the link comes back
ResubscribedNever(groups) == groups

Resubscribed(groups) == IF effect = None THEN groups ELSE groups \cup {effect}

\* the handler subscribes again to the group it is in, and tells the state
HandlerSubscribes ==
  /\ mqtt = "subscribe" /\ mqtt' = "state"
  /\ broker' = [broker EXCEPT !.groups = Resubscribed(@)]
  /\ UNCHANGED <<enrolVars, client, status, lock, dirty, speaker, retry, orders, soin,
                 effect, busHist>>

\* publish_state, from the handler
HandlerTellsState ==
  /\ mqtt = "state" /\ (CanTake \/ GivesUp)
  /\ broker' = [broker EXCEPT !.current = @ \/ CanTake]
  /\ mqtt' = "connected"
  /\ UNCHANGED <<enrolVars, client, status, lock, dirty, speaker, retry, orders, soin,
                 effect, busHist>>

\* a command about an effect group: join, leave or cancel, then the state
Command ==
  /\ mqtt = "connected" /\ Accepted /\ busHist.commands < MaxCommands
  /\ CanTake \/ GivesUp
  /\ IF ~CanTake THEN UNCHANGED <<effect, broker>>
     ELSE \/ \E g \in Groups :
               effect' = g /\ broker' = [broker EXCEPT !.groups = {g}]
          \/ effect' = None /\ broker' = [broker EXCEPT !.groups = {}]
  /\ mqtt' = "state"
  /\ busHist' = [busHist EXCEPT !.commands = @ + 1]
  /\ UNCHANGED <<enrolVars, client, status, lock, dirty, speaker, retry, orders, soin>>

-----------------------------------------------------------------------------
(* state_task and the other tasks                                            *)

\* what the device reports changes; the task that changed it tells at once
\* (pogdev_bus_notify), if it gets the lock and the message is not lost
StateChanges ==
  /\ broker.current /\ Mishap
  /\ broker' = [broker EXCEPT !.current = FALSE]
  /\ UNCHANGED <<nvs, ram, task, starter, found, home,
                 client, status, mqtt, lock, dirty, speaker, retry, orders, soin, effect, busHist>>

\* state_task takes the manifest on, if it is due
SpeakerTakes ==
  /\ speaker = "resting" /\ dirty /\ status = "connected"
  /\ dirty' = FALSE /\ speaker' = "hello"
  /\ UNCHANGED <<enrolVars, client, status, mqtt, lock, retry, orders, soin, broker,
                 effect, busHist>>

SpeakerTellsHello ==
  /\ speaker = "hello" /\ (CanTake \/ GivesUp)
  /\ \/ PublishHello(FALSE) /\ UNCHANGED mishaps
     \/ Mishap /\ PublishHello(TRUE)
  /\ speaker' = "resting"
  /\ UNCHANGED <<nvs, ram, task, starter, found, home,
                 client, status, mqtt, lock, retry, orders, soin, effect, busHist>>

\* every half minute the state is told again; a client that is not connected
\* throws it away
SpeakerTellsState ==
  /\ speaker = "resting" /\ CanTake /\ mqtt # "waiting" /\ client.is = "up"
  /\ ~broker.current
  /\ broker' = [broker EXCEPT !.current = TRUE]
  /\ UNCHANGED <<enrolVars, client, status, mqtt, lock, dirty, speaker, retry, orders, soin,
                 effect, busHist>>

-----------------------------------------------------------------------------
(* soin_task                                                                 *)

\* the bits are taken together; a collection goes before a move
SoinWakes ==
  /\ soin.at = "waiting" /\ orders # {}
  /\ soin' = [at |-> IF "releve" \in orders THEN "releve" ELSE "reprise",
              srv |-> found, got |-> 0, move |-> "reprise" \in orders]
  /\ orders' = {}
  /\ UNCHANGED <<enrolVars, client, status, mqtt, lock, dirty, speaker, retry, broker,
                 effect, busHist>>

\* after a collection that brought nothing, the move is looked at if it was asked
AfterReleve == IF soin.move THEN "reprise" ELSE "waiting"

\* pogdev_enrol_recollect
SoinCollects ==
  /\ soin.at = "releve"
  /\ IF soin.srv = Nowhere \/ ram.forgetting \/ ram.claim = 0
     THEN soin' = [soin EXCEPT !.at = AfterReleve] /\ UNCHANGED <<nvs, ram, home, mishaps>>
     ELSE \E c \in Secrets :
          /\ Collect(soin.srv, c)
          /\ soin' = IF c = 0 THEN [soin EXCEPT !.at = AfterReleve]
                     ELSE [soin EXCEPT !.at = "store", !.got = c]
  /\ UNCHANGED <<task, starter, found, client, status, mqtt, lock, dirty, speaker, retry,
                 orders, broker, effect, busHist>>

SoinStores ==
  /\ soin.at = "store"
  /\ \/ StoreCreds(soin.srv, soin.got) /\ soin' = [soin EXCEPT !.at = "relaunch"]
        /\ UNCHANGED mishaps
     \/ StoreRefused /\ soin' = [soin EXCEPT !.at = "waiting"]
  /\ UNCHANGED <<task, starter, found, home, client, status, mqtt, lock, dirty, speaker,
                 retry, orders, broker, effect, busHist>>

\* pogdev_enrol_update_host; a write that fails changes nothing
SoinFollows ==
  /\ soin.at = "reprise"
  /\ \/ UpdateHost /\ soin' = [soin EXCEPT !.at = "relaunch"] /\ UNCHANGED mishaps
     \/ /\ ~HostMoved
        /\ soin' = [soin EXCEPT !.at = "waiting"] /\ UNCHANGED <<nvs, ram, mishaps>>
     \/ Mishap /\ soin' = [soin EXCEPT !.at = "waiting"] /\ UNCHANGED <<nvs, ram>>
  /\ UNCHANGED <<task, starter, found, home, client, status, mqtt, lock, dirty, speaker,
                 retry, orders, broker, effect, busHist>>

\* bus_relancer takes the lock and stops the client: stop waits until no
\* handler runs
SoinLocks ==
  /\ soin.at = "relaunch" /\ lock = None
  /\ lock' = "soin" /\ soin' = [soin EXCEPT !.at = "stop"]
  /\ UNCHANGED <<enrolVars, client, status, mqtt, dirty, speaker, retry, orders, broker,
                 effect, busHist>>

SoinStops ==
  /\ soin.at = "stop" /\ mqtt \in {"waiting", "connected", "off"}
  /\ client' = NoClient /\ mqtt' = "off" /\ broker' = NothingHeld
  /\ retry' = FreshRetry /\ soin' = [soin EXCEPT !.at = "launch"]
  /\ UNCHANGED <<enrolVars, status, lock, dirty, speaker, orders, effect, busHist>>

\* bus_launch until it succeeds; the lock is held meanwhile
SoinLaunches ==
  /\ soin.at = "launch" /\ Launch
  /\ lock' = None /\ soin' = [SoinOff EXCEPT !.at = "waiting"]
  /\ UNCHANGED <<enrolVars, dirty, speaker, retry, orders, broker, effect, busHist>>

-----------------------------------------------------------------------------
\* the restart after pogdev_forget, or the power goes
Restart ==
  /\ \/ ram.forgetting /\ UNCHANGED mishaps
     \/ Mishap
  /\ Booted /\ UNCHANGED <<nvs, home>>
  /\ client' = NoClient /\ status' = "not started" /\ mqtt' = "off" /\ lock' = None
  /\ dirty' = TRUE /\ speaker' = "off" /\ retry' = FreshRetry /\ orders' = {}
  /\ soin' = SoinOff /\ broker' = NothingHeld /\ effect' = None
  /\ UNCHANGED busHist

Quiet == UNCHANGED busVars

StarterRuns == (CreateTask /\ Quiet) \/ StarterStartsBus
EnrolRuns ==
  \/ (Load \/ Look \/ EnsureSecret \/ Announce \/ TaskCollects \/ TaskStores \/ TaskClears)
       /\ Quiet
  \/ AdoptionStartsBus
DiscoveryRuns == Discover /\ Quiet
MqttRuns ==
  \/ Connected \/ ConnectFails \/ ConnectionLost
  \/ HandlerTellsHello \/ HandlerSubscribes \/ HandlerTellsState
StateTaskRuns == SpeakerTakes \/ SpeakerTellsHello
StateTicks == SpeakerTellsState
SoinRuns ==
  \/ SoinWakes \/ SoinCollects \/ SoinStores \/ SoinFollows \/ SoinLocks \/ SoinStops
  \/ SoinLaunches
HomeActs == (Adopt \/ RowExpires) /\ Quiet
Environment == ((Forget \/ Moves) /\ Quiet) \/ Command \/ StateChanges \/ Restart

Next ==
  \/ StarterRuns \/ EnrolRuns \/ DiscoveryRuns \/ MqttRuns \/ StateTaskRuns \/ StateTicks
  \/ SoinRuns \/ HomeActs \/ Environment

-----------------------------------------------------------------------------
(* Properties.  Mishaps are finite: pog Home settles in the end.             *)

\* A device that pog Home lets in ends up with credentials, whatever answer,
\* write or power was lost on the way: enrol_task never gives up.
Enrols == <>[](ram.creds # 0)

\* A client that is running with credentials pog Home accepts is connected in
\* the end, wherever pog Home has moved to (pogdev_retry_echec, soin_task and
\* bus_relancer, which needs every handler to give up the lock).
FollowsMove ==
  [](client.is = "up" =>
       <>(status = "connected" \/ client.is = "none" \/ client.creds # home.creds))

\* While the link holds, the broker gets the manifest and the current state,
\* though a publication was refused or lost (publish_hello, state_task).
TellsHome ==
  [](status = "connected" => <>(status # "connected" \/ (broker.hello /\ broker.current)))

\* A device gets the frames of the group it is in, and of no other
\* (pogdev_bus_effect_sync_join, leave and cancel, and the CONNECTED handler).
FramesOfOwnGroup ==
  mqtt \in {"connected", "state"} => broker.groups = {effect} \ {None}

\* A device takes no part in what it no longer belongs to: neither in a home
\* it was told to forget nor in a group it has left (pogdev_forget,
\* pogdev_bus_effect_sync_leave and the CONNECTED handler).
KeepsToItsOwn == ForgottenStaysForgotten /\ FramesOfOwnGroup

\* The link to pog Home mends itself: it is found again where it moved to, and
\* is told what it missed (soin_task, publish_hello, state_task).
BusRecovers == FollowsMove /\ TellsHome

\* An adopted device has its bus running (main.c, start_airplay_services).
BusStarts == starter = "done" /\ task.at = "done" /\ EnrolGet => status # "not started"

\* A device without a claim secret announces itself again at its next start
\* (pogdev_enrol_recollect).
AnnouncesAgain == [][task.at = "load" /\ task'.at = "done" => ram'.claim # 0]_vars
=============================================================================
