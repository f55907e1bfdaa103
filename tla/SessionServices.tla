--------------------------- MODULE SessionServices --------------------------
(* What an AirPlay session switches on beside its audio: the PTP and NTP     *)
(* clocks (life cycle and master in main/network/ptp_clock.c, ntp_clock.c)   *)
(* and the event port's task (main/rtsp/rtsp_handlers.c).  All three are     *)
(* global, while two clients may be there at once: the one that is being     *)
(* replaced cleans up (client_task in main/rtsp/rtsp_server.c) as its        *)
(* successor sets up.                                                        *)
(* A task runs its first statement before its creator goes on, and a         *)
(* shutdown wakes the event task.                                            *)
EXTENDS Naturals

CONSTANTS Slots,     \* client slots; 0 is no slot
          MaxClients \* connections in a behaviour

VARIABLES
  client,   \* each slot: where its task is; sender (v1 or v2); is_old,
            \* should_stop; ready: it has answered its SETUP; and whether its
            \* event socket is open
  ptp,      \* running, and the slot whose sender's clock is expected
  ntp,      \* running, the slot whose sender is asked, task_handle, and the
            \* number of tasks that really run
  event,    \* event_task_handle, event_task_should_stop, event_listen_socket,
            \* and the slots whose sockets tasks really use
  svcHist   \* connections so far

svcVars == <<client, ptp, ntp, event, svcHist>>

Nobody == 0
Free == [at |-> "free", sender |-> "v2", is_old |-> FALSE, stop |-> FALSE,
         ready |-> FALSE, socket |-> FALSE]

Init ==
  /\ client = [s \in Slots |-> Free]
  /\ ptp = [running |-> TRUE, expect |-> Nobody]
  /\ ntp = [running |-> FALSE, of |-> Nobody, handle |-> FALSE, tasks |-> 0]
  /\ event = [handle |-> FALSE, stop |-> FALSE, listen |-> Nobody, tasks |-> {}]
  /\ svcHist = 0

At(s, at) == client[s].at = at
Go(s, at) == client' = [client EXCEPT ![s].at = at]
-----------------------------------------------------------------------------
(* The services' own tasks.                                                  *)

\* ntp_task leaves its loop: it was told to, or its socket was closed under it
\* while another task had been started meanwhile
NtpTaskEnds ==
  /\ ntp.tasks > 0 /\ (~ntp.running \/ ntp.tasks > 1)
  /\ ntp' = [ntp EXCEPT !.tasks = @ - 1, !.handle = FALSE]
  /\ UNCHANGED <<client, ptp, event, svcHist>>

\* event_port_task: told to stop
EventTaskEnds ==
  /\ event.stop
  /\ \E s \in event.tasks :
       event' = [event EXCEPT !.tasks = @ \ {s}, !.listen = Nobody, !.handle = FALSE]
  /\ UNCHANGED <<client, ptp, ntp, svcHist>>

Tasks == NtpTaskEnds \/ EventTaskEnds
-----------------------------------------------------------------------------
(* A client's requests.                                                      *)

\* rtsp_server_task: whoever is there is told to leave
Connects(s) ==
  /\ At(s, "free") /\ svcHist < MaxClients /\ svcHist' = svcHist + 1
  /\ \E v \in {"v1", "v2"} :
       client' = [t \in Slots |->
                    IF t = s THEN [Free EXCEPT !.at = "run", !.sender = v]
                    ELSE IF At(t, "free") THEN Free
                    ELSE [client[t] EXCEPT !.is_old = TRUE, !.stop = TRUE]]
  /\ UNCHANGED <<ptp, ntp, event>>

\* rtsp_stop_event_port_task, which then waits for the handle to be cleared
StopEvent == event' = IF event.handle THEN [event EXCEPT !.stop = TRUE] ELSE event

\* the task has gone; or it has gone unseen between two looks, another runs,
\* and the second is over
Waited == ~event.handle \/ ~event.stop

\* handle_setup: the event port, then the sender's timing; the previous event
\* task is stopped first
Setup(s) ==
  /\ At(s, "run") /\ ~client[s].ready /\ StopEvent
  /\ client' = [client EXCEPT ![s].at = "event", ![s].socket = TRUE]
  /\ UNCHANGED <<ptp, ntp, svcHist>>

\* rtsp_start_event_port_task
StartEvent(s) ==
  /\ At(s, "event") /\ Waited
  /\ event' = [handle |-> TRUE, stop |-> FALSE, listen |-> s,
               tasks |-> event.tasks \union {s}]
  /\ client' = [client EXCEPT ![s].at = IF client[s].sender = "v1" THEN "ntp" ELSE "run",
                              ![s].ready = client[s].sender = "v2"]
  /\ UNCHANGED <<ptp, ntp, svcHist>>

\* ntp_clock_start_client, with the stop it begins with when it finds another
\* sender asked
SetupNtp(s) ==
  /\ At(s, "ntp")
  /\ IF ntp.running /\ ntp.of # s
       THEN Go(s, "ntpwait") /\ ntp' = [ntp EXCEPT !.running = FALSE]
       ELSE Go(s, "ptp") /\ ntp' = IF ntp.running THEN ntp
                                   ELSE [running |-> TRUE, of |-> s, handle |-> TRUE,
                                         tasks |-> ntp.tasks + 1]
  /\ UNCHANGED <<ptp, event, svcHist>>

NtpRestarts(s) ==
  /\ At(s, "ntpwait") /\ ~ntp.handle /\ Go(s, "ptp")
  /\ ntp' = [running |-> TRUE, of |-> s, handle |-> TRUE, tasks |-> ntp.tasks + 1]
  /\ UNCHANGED <<ptp, event, svcHist>>

\* ptp_clock_stop, to free its sockets for a classic sender
SetupPtp(s) ==
  /\ At(s, "ptp")
  /\ client' = [client EXCEPT ![s].at = "run", ![s].ready = TRUE]
  /\ ptp' = [ptp EXCEPT !.running = FALSE]
  /\ UNCHANGED <<ntp, event, svcHist>>

\* an anchor names the sender's clock
Anchor(s) ==
  /\ At(s, "run") /\ client[s].ready /\ client[s].sender = "v2" /\ ptp.expect # s
  /\ ptp' = [ptp EXCEPT !.expect = s]
  /\ UNCHANGED <<client, ntp, event, svcHist>>

\* handle_teardown of the whole session: ptp_clock_clear, ntp_clock_stop
Teardown(s) ==
  /\ At(s, "run") /\ client[s].ready /\ (ptp.expect # Nobody \/ ntp.running)
  /\ ptp' = [ptp EXCEPT !.expect = Nobody]
  /\ ntp' = [ntp EXCEPT !.running = FALSE]
  /\ UNCHANGED <<client, event, svcHist>>

Requests(s) ==
  \/ Setup(s) \/ StartEvent(s) \/ SetupNtp(s) \/ NtpRestarts(s) \/ SetupPtp(s)
  \/ Anchor(s) \/ Teardown(s)
-----------------------------------------------------------------------------
(* The end of client_task.                                                   *)

\* Mutant: a replaced client leaves NTP to its successor.
StopsNtpUnlessOld(s) == ntp.running /\ ~client[s].is_old

\* ntp_clock_stop, for every client
StopsNtp(s) == ntp.running

\* the connection is over or the client told to leave
Leaves(s) ==
  /\ At(s, "run")
  /\ IF StopsNtp(s)
       THEN Go(s, "leave") /\ ntp' = [ntp EXCEPT !.running = FALSE]
       ELSE Go(s, "old?") /\ UNCHANGED ntp
  /\ UNCHANGED <<ptp, event, svcHist>>

\* it has waited for the NTP task, or for a second
NtpStopped(s) ==
  /\ At(s, "leave") /\ Go(s, "old?")
  /\ UNCHANGED <<ptp, ntp, event, svcHist>>

\* When being replaced by a new client (is_old), skip global state changes
LooksWhetherOld(s) ==
  /\ At(s, "old?")
  /\ Go(s, CASE ~client[s].is_old -> "init"
             [] client[s].is_old /\ event.listen = s /\ client[s].socket -> "stop"
             [] OTHER -> "close")
  /\ UNCHANGED <<ptp, ntp, event, svcHist>>

\* ptp_clock_init, which returns at once when it runs and may find no sockets
PtpInit(s) ==
  /\ At(s, "init") /\ Go(s, "stop")
  /\ ptp' \in IF ptp.running THEN {ptp}
              ELSE {[running |-> r, expect |-> Nobody] : r \in BOOLEAN}
  /\ UNCHANGED <<ntp, event, svcHist>>

EventStops(s) ==
  /\ At(s, "stop") /\ StopEvent /\ Go(s, "wait")
  /\ UNCHANGED <<ptp, ntp, svcHist>>

EventStopped(s) ==
  /\ At(s, "wait") /\ Waited /\ Go(s, "close")
  /\ UNCHANGED <<ptp, ntp, event, svcHist>>

\* the event socket is closed, rtsp_conn_cleanup clears the PTP clock, and the
\* slot is free
Closes(s) ==
  /\ At(s, "close")
  /\ client' = [client EXCEPT ![s] = Free]
  /\ ptp' = [ptp EXCEPT !.expect = Nobody]
  /\ UNCHANGED <<ntp, event, svcHist>>

Leaving(s) ==
  \/ Leaves(s) \/ NtpStopped(s) \/ LooksWhetherOld(s) \/ PtpInit(s) \/ EventStops(s)
  \/ EventStopped(s) \/ Closes(s)
-----------------------------------------------------------------------------
Next == Tasks \/ \E s \in Slots : Connects(s) \/ Requests(s) \/ Leaving(s)

Spec == Init /\ [][Next]_svcVars

Gone == \A s \in Slots : At(s, "free")

\* When the last client has gone, whichever replaced which and however their
\* clean-ups overlapped, nothing they switched on is left: the NTP task and
\* every event task have been told to stop, and no sender's clock is expected.
LeavesNothing ==
  Gone => ~ntp.running /\ (event.stop \/ event.tasks = {}) /\ ptp.expect = Nobody

\* "the new session's SETUP already manages PTP": an AirPlay 2 client whose
\* SETUP is answered, and which is not leaving, finds the PTP clock running.
Serving(s) == At(s, "run") /\ client[s].ready /\ ~client[s].stop
PtpServes == \A s \in Slots : Serving(s) /\ client[s].sender = "v2" => ptp.running

=============================================================================
