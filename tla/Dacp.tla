-------------------------------- MODULE Dacp --------------------------------
(* Commands to the device that plays (main/dacp_client.c).  The RTSP tasks   *)
(* set and clear the session, the button task queues commands, and a worker  *)
(* looks the port up by mDNS and sends the requests; both take seconds and   *)
(* are done without the mutex.  A session is known by the source's DACP-ID;  *)
(* a source's address, Active-Remote token and port are named after it.      *)
EXTENDS Naturals, Sequences, FiniteSets

CONSTANTS Sources,       \* devices that play, 1 .. n
          CmdQueueLen,   \* CMD_QUEUE_LEN
          MaxSessions,   \* sessions that are set or cleared
          MaxCommands    \* commands that are sent

VARIABLES
  session,   \* s_dacp_id, s_dacp_port, s_discovery_failed; 0 is none
  cmdQueue,  \* s_cmd_queue
  worker,    \* what the worker does, for which source, to which port, and
             \* whether the session had changed during a look-up
  dacpHist   \* the session changed during a look-up; a look-up was dropped;
             \* a request failed; sessions and commands so far

dacpVars == <<session, cmdQueue, worker, dacpHist>>

Resting == [doing |-> "wait", source |-> 0, port |-> 0, changed |-> FALSE]

Init ==
  /\ session = [id |-> 0, port |-> 0, failed |-> FALSE]
  /\ cmdQueue = << >>
  /\ worker = Resting
  /\ dacpHist = [changed |-> FALSE, dropped |-> FALSE, refused |-> FALSE,
                 sessions |-> 0, commands |-> 0]

\* Mutant: a new session keeps the port of the one before
NewSessionKeepsPort(s) == [id |-> s, port |-> session.port, failed |-> FALSE]

NewSession(s) == [id |-> s, port |-> 0, failed |-> FALSE]

\* dacp_set_session, from any request of the source: the same source changes
\* nothing here; another starts again, and a look-up goes to the front of the
\* queue, or is dropped when the queue is full
SetSession ==
  \E s \in Sources :
    /\ s # session.id /\ dacpHist.sessions < MaxSessions
    /\ session' = NewSession(s)
    /\ LET full == Len(cmdQueue) = CmdQueueLen IN
       /\ cmdQueue' = IF full THEN cmdQueue ELSE <<"discover">> \o cmdQueue
       /\ dacpHist' = [dacpHist EXCEPT !.sessions = @ + 1, !.dropped = full,
             !.changed = worker.doing = "discover", !.refused = FALSE]
    /\ UNCHANGED worker

\* dacp_clear_session
ClearSession ==
  /\ session.id # 0
  /\ session' = NewSession(0)
  /\ dacpHist' = [dacpHist EXCEPT !.changed = @ \/ worker.doing = "discover"]
  /\ UNCHANGED <<cmdQueue, worker>>

\* send_dacp_request: dropped when the queue is full
Send ==
  /\ dacpHist.commands < MaxCommands
  /\ cmdQueue' = IF Len(cmdQueue) = CmdQueueLen THEN cmdQueue
                 ELSE Append(cmdQueue, "command")
  /\ dacpHist' = [dacpHist EXCEPT !.commands = @ + 1]
  /\ UNCHANGED <<session, worker>>

\* dacp_worker_task.  discover_dacp_port copies the id, unless the port is
\* known or the look-up has failed; execute_dacp_request copies the session,
\* and skips the command when there is none or the port is not known.
Take ==
  /\ worker.doing = "wait" /\ cmdQueue # << >>
  /\ cmdQueue' = Tail(cmdQueue)
  /\ worker' =
       IF Head(cmdQueue) = "discover"
       THEN IF session.port # 0 \/ session.failed \/ session.id = 0 THEN Resting
            ELSE [doing |-> "discover", source |-> session.id, port |-> 0, changed |-> FALSE]
       ELSE IF session.id = 0 \/ session.port = 0 THEN Resting
            ELSE [doing |-> "send", source |-> session.id, port |-> session.port,
                  changed |-> dacpHist.changed]
  /\ UNCHANGED <<session, dacpHist>>

\* the answer of mDNS is stored, whatever the session is by now
Discovered ==
  /\ worker.doing = "discover"
  /\ \E found \in {0, worker.source} :
       session' = [session EXCEPT !.port = found, !.failed = @ \/ found = 0]
  /\ worker' = Resting
  /\ UNCHANGED <<cmdQueue, dacpHist>>

\* the HTTP request is answered, or fails and the port is forgotten
Sent ==
  /\ worker.doing = "send"
  /\ \/ UNCHANGED <<session, dacpHist>>
     \/ /\ session' = [session EXCEPT !.port = 0]
        /\ dacpHist' = [dacpHist EXCEPT !.refused = TRUE]
  /\ worker' = Resting
  /\ UNCHANGED cmdQueue

Next == SetSession \/ ClearSession \/ Send \/ Take \/ Discovered \/ Sent

Spec == Init /\ [][Next]_dacpVars

TypeOK ==
  /\ session \in [id : Sources \union {0}, port : Sources \union {0}, failed : BOOLEAN]
  /\ Len(cmdQueue) <= CmdQueueLen
  /\ worker \in [doing : {"wait", "discover", "send"}, source : Sources \union {0},
                 port : Sources \union {0}, changed : BOOLEAN]

\* A command goes to the port of the source whose address and token it carries
\* (dacp_set_session forgets the port, execute_dacp_request copies the session
\* under the mutex).  Excluded: a session that changed while its predecessor's
\* port was looked up, since discover_dacp_port stores what it finds in the
\* session of the moment.
CommandsReachSource ==
  worker.doing = "send" /\ ~worker.changed => worker.port = worker.source

\* "Connection failed - invalidate port so next command re-discovers": a
\* session whose port is not known has a look-up queued or under way, unless
\* one has failed or could not be queued.
Rediscovers ==
  session.id # 0 /\ session.port = 0 /\ ~session.failed /\ ~dacpHist.dropped
    => \/ worker.doing = "discover"
       \/ \E i \in DOMAIN cmdQueue : cmdQueue[i] = "discover"
=============================================================================
