----------------------------- MODULE RtspServer -----------------------------
(***************************************************************************)
(* Connections of main/rtsp/rtsp_server.c: the server task that accepts    *)
(* them, a client task in each of two slots (the current client and the    *)
(* one it replaces), and the caller of rtsp_server_start / _stop.          *)
(*                                                                         *)
(* The tasks share the slots without a lock; each field of a slot has its  *)
(* readers and writers on both sides.  A client task runs in the static    *)
(* stack and TCB of its slot.  What a request does is reduced to starting  *)
(* the audio session of its connection.                                    *)
(***************************************************************************)
EXTENDS Integers, Sequences

CONSTANTS MaxConns,   \* bound: connections made by senders
          MaxStarts   \* bound: calls of rtsp_server_start

Slots == {0, 1}
Conns == 1 .. MaxConns
NoConn == 0

VARIABLES
  v1,       \* built with CONFIG_AIRPLAY_FORCE_V1
  running,  \* server_running
  handle,   \* server_task_handle # NULL
  listening,\* server_socket >= 0
  server,   \* the server task: next step and the connection it has accepted
  backlog,  \* connections waiting to be accepted
  conns,    \* connections made so far
  down,     \* open connections closed by the sender or shut down by the server
  current,  \* current_slot
  slot,     \* clients[]: task # NULL, socket, should_stop, is_old
  client,   \* the client task in each slot: next step and connection
  audio,    \* whose audio session runs (audio_receiver)
  caller,   \* the task that calls rtsp_server_start and _stop
  starts,   \* calls of rtsp_server_start so far
  broken    \* history: what has gone wrong with the tasks' static memory

vars == <<v1, running, handle, listening, server, backlog, conns, down, current,
          slot, client, audio, caller, starts, broken>>

NoTask == [at |-> "none", conn |-> NoConn]
FreeSlot == [task |-> FALSE, sock |-> NoConn, should_stop |-> FALSE,
             is_old |-> FALSE]

Init ==
  /\ v1 \in BOOLEAN
  /\ running = FALSE /\ handle = FALSE /\ listening = FALSE
  /\ server = NoTask /\ backlog = <<>> /\ conns = 0 /\ down = {}
  /\ current = 0
  /\ slot = [i \in Slots |-> FreeSlot] /\ client = [i \in Slots |-> NoTask]
  /\ audio = NoConn /\ caller = "idle" /\ starts = 0 /\ broken = {}

----------------------------------------------------------------------------
(* Senders (external).                                                     *)

Connect ==
  /\ listening /\ conns < MaxConns
  /\ conns' = conns + 1
  /\ backlog' = Append(backlog, conns + 1)
  /\ UNCHANGED <<v1, running, handle, listening, server, down, current, slot,
                 client, audio, caller, starts, broken>>

\* The sender of the connection served in slot i closes it.
Disconnect(i) ==
  /\ client[i].at \in {"start", "serve", "request"} /\ client[i].conn \notin down
  /\ down' = down \cup {client[i].conn}
  /\ UNCHANGED <<v1, running, handle, listening, server, backlog, conns, current,
                 slot, client, audio, caller, starts, broken>>

----------------------------------------------------------------------------
(* rtsp_server_start and rtsp_server_stop.                                 *)

Start ==
  /\ caller = "idle" /\ ~handle /\ starts < MaxStarts
  /\ starts' = starts + 1
  /\ running' = TRUE /\ handle' = TRUE
  /\ server' = [NoTask EXCEPT !.at = "init"]
  /\ broken' = IF server.at # "none" THEN broken \cup {"server"} ELSE broken
  /\ UNCHANGED <<v1, listening, backlog, conns, down, current, slot, client,
                 audio, caller>>

Stop ==
  /\ caller = "idle" /\ starts > 0
  /\ running' = FALSE
  /\ listening' = FALSE /\ backlog' = <<>>
  /\ caller' = "stopping"
  /\ UNCHANGED <<v1, handle, server, conns, down, current, slot, client, audio,
                 starts, broken>>

\* The server task has cleared its handle (and has had a tick to delete
\* itself), or the caller has waited for six seconds.
StopReturns ==
  /\ caller = "stopping"
  /\ \/ ~handle /\ server.at = "none"
     \/ handle
  /\ caller' = "idle"
  /\ UNCHANGED <<v1, running, handle, listening, server, backlog, conns, down,
                 current, slot, client, audio, starts, broken>>

----------------------------------------------------------------------------
(* The server task.                                                        *)

\* The slots are initialised, the socket is opened (or the task gives up).
ServerInit ==
  /\ server.at = "init"
  /\ slot' = [i \in Slots |-> FreeSlot]
  /\ \/ /\ listening' = TRUE
        /\ server' = [server EXCEPT !.at = "accept"]
        /\ UNCHANGED <<running, handle>>
     \/ /\ running' = FALSE /\ handle' = FALSE
        /\ server' = [server EXCEPT !.at = "exit"]
        /\ UNCHANGED listening
  /\ UNCHANGED <<v1, backlog, conns, down, current, client, audio, caller, starts,
                 broken>>

Stopped(s) == [s EXCEPT !.should_stop = TRUE]

\* Mutant: shutdown without looking whether the socket is still open.
SocketsUnchecked(is) == {slot[i].sock : i \in {j \in is : slot[j].task}}

\* The sockets that are shut down to unblock recv.
Sockets(is) == {slot[i].sock : i \in {j \in is : slot[j].task}} \ {NoConn}

\* The slot for a new client.
NewSlot == 1 - current

\* accept; a task still in the slot is told to stop.
ServerAccept ==
  /\ server.at = "accept" /\ running /\ backlog # <<>>
  /\ backlog' = Tail(backlog)
  /\ server' = [at |-> "wait", conn |-> Head(backlog)]
  /\ slot' = IF slot[NewSlot].task
               THEN [slot EXCEPT ![NewSlot] = Stopped(@)] ELSE slot
  /\ down' = down \cup Sockets({NewSlot})
  /\ UNCHANGED <<v1, running, handle, listening, conns, current, client, audio,
                 caller, starts, broken>>

\* Three seconds were not enough for it: the new connection is closed.
ServerReject ==
  /\ server.at = "wait" /\ slot[NewSlot].task
  /\ server' = [NoTask EXCEPT !.at = "accept"]
  /\ UNCHANGED <<v1, running, handle, listening, backlog, conns, down, current, slot,
                 client, audio, caller, starts, broken>>

\* Mutant: the current client is not told to stop.
ReplacedNotStopped(s) == [s EXCEPT !.is_old = TRUE]

Replaced(s) == [s EXCEPT !.is_old = TRUE, !.should_stop = TRUE]

\* signal_old_client_stop(current_slot), and the new slot is set up.
ServerReplace ==
  /\ server.at = "wait" /\ ~slot[NewSlot].task
  /\ slot' = [i \in Slots |->
                IF i = NewSlot THEN [FreeSlot EXCEPT !.sock = server.conn]
                ELSE IF slot[i].task THEN Replaced(slot[i]) ELSE slot[i]]
  /\ down' = down \cup Sockets({current})
  /\ server' = [server EXCEPT !.at = "create"]
  /\ UNCHANGED <<v1, running, handle, listening, backlog, conns, current, client,
                 audio, caller, starts, broken>>

\* xTaskCreateStatic on the slot's stack and TCB (what follows when a task
\* still runs on them is undefined, and not modelled) ...
ServerCreate ==
  /\ server.at = "create"
  /\ \/ /\ client[NewSlot].at = "none"
        /\ client' = [client EXCEPT ![NewSlot] = [at |-> "start",
                                                 conn |-> server.conn]]
        /\ server' = [server EXCEPT !.at = "handle"]
        /\ UNCHANGED broken
     \/ /\ client[NewSlot].at # "none"
        /\ broken' = broken \cup {"reused"}
        /\ server' = [server EXCEPT !.at = "undefined"]
        /\ UNCHANGED client
  /\ UNCHANGED <<v1, running, handle, listening, backlog, conns, down, current,
                 slot, audio, caller, starts>>

\* ... and its result is stored in the slot.
ServerHandle ==
  /\ server.at = "handle"
  /\ slot' = [slot EXCEPT ![NewSlot].task = TRUE]
  /\ broken' = IF client[NewSlot].at \in {"none", "failed", "delete"}
                 THEN broken \cup {"stale"} ELSE broken
  /\ current' = NewSlot
  /\ server' = [NoTask EXCEPT !.at = "accept"]
  /\ UNCHANGED <<v1, running, handle, listening, backlog, conns, down, client,
                 audio, caller, starts>>

\* server_running is false: every client is told to stop.
ServerLeave ==
  /\ server.at = "accept" /\ ~running
  /\ slot' = [i \in Slots |-> IF slot[i].task THEN Stopped(slot[i]) ELSE slot[i]]
  /\ down' = down \cup Sockets(Slots)
  /\ server' = [server EXCEPT !.at = "drain"]
  /\ UNCHANGED <<v1, running, handle, listening, backlog, conns, current, client,
                 audio, caller, starts, broken>>

\* Mutant: only the current client is waited for.
DrainedCurrent == ~slot[current].task

Drained == \A i \in Slots : ~slot[i].task

\* All clients have left, or five seconds have passed.
ServerDrained ==
  /\ server.at = "drain"
  /\ \/ Drained /\ UNCHANGED broken
     \/ ~Drained /\ broken' = broken \cup {"overrun"}
  /\ running' = FALSE /\ handle' = FALSE /\ listening' = FALSE /\ backlog' = <<>>
  /\ server' = [server EXCEPT !.at = "exit"]
  /\ UNCHANGED <<v1, conns, down, current, slot, client, audio, caller,
                 starts>>

ServerDelete ==
  /\ server.at = "exit"
  /\ server' = NoTask
  /\ UNCHANGED <<v1, running, handle, listening, backlog, conns, down, current,
                 slot, client, audio, caller, starts, broken>>

----------------------------------------------------------------------------
(* The client task in slot i.                                              *)

ClientTo(i, at) == client' = [client EXCEPT ![i].at = at]

\* rtsp_conn_create and the buffer; without memory the task gives up.
ClientStart(i) ==
  /\ client[i].at = "start"
  /\ \/ ClientTo(i, "serve") /\ UNCHANGED slot
     \/ /\ ClientTo(i, "failed")
        /\ slot' = [slot EXCEPT ![i].sock = NoConn, ![i].task = FALSE]
  /\ UNCHANGED <<v1, running, handle, listening, server, backlog, conns, down,
                 current, audio, caller, starts, broken>>

Serving(i) == running /\ ~slot[i].should_stop

\* A request is dispatched ...
ClientRequest(i) ==
  /\ client[i].at = "serve" /\ Serving(i) /\ client[i].conn \notin down
  /\ ClientTo(i, "request")
  /\ UNCHANGED <<v1, running, handle, listening, server, backlog, conns, down,
                 current, slot, audio, caller, starts, broken>>

\* ... and has started the audio session of this connection.
ClientSession(i) ==
  /\ client[i].at = "request"
  /\ audio' = client[i].conn
  /\ ClientTo(i, "serve")
  /\ UNCHANGED <<v1, running, handle, listening, server, backlog, conns, down,
                 current, slot, caller, starts, broken>>

\* The end of the loop: told to stop, or the connection is gone.
ClientLeave(i) ==
  /\ client[i].at = "serve" /\ (~Serving(i) \/ client[i].conn \in down)
  /\ ClientTo(i, "cleanup")
  /\ slot' = [slot EXCEPT ![i].sock = NoConn]
  /\ down' = down \ {client[i].conn}
  /\ UNCHANGED <<v1, running, handle, listening, server, backlog, conns, current,
                 audio, caller, starts, broken>>

\* Mutant: a client that has been replaced leaves the audio session alone.
AudioAfterUnlessOld(i) == IF slot[i].is_old THEN audio ELSE NoConn

\* audio_receiver_stop, whoever the session belongs to.
AudioAfter(i) == NoConn

\* Audio and NTP stop; an AirPlay 1 client then waits for its sender.
ClientStopAudio(i) ==
  /\ client[i].at = "cleanup"
  /\ audio' = AudioAfter(i)
  /\ ClientTo(i, IF v1 /\ ~slot[i].should_stop THEN "grace" ELSE "free")
  /\ UNCHANGED <<v1, running, handle, listening, server, backlog, conns, down,
                 current, slot, caller, starts, broken>>

\* Mutant: the grace period ends only when the sender is gone.
GraceOverDeaf(i) == FALSE

\* The loops of the grace period look at should_stop.
GraceOver(i) == slot[i].should_stop

\* The grace period ends when the slot is needed or (external) the sender no
\* longer advertises its DACP service.
ClientGrace(i) ==
  /\ client[i].at = "grace"
  /\ ClientTo(i, "free")
  /\ UNCHANGED <<v1, running, handle, listening, server, backlog, conns, down,
                 current, slot, audio, caller, starts, broken>>

\* rtsp_conn_free; the slot is released ...
ClientFree(i) ==
  /\ client[i].at = "free"
  /\ ClientTo(i, "delete")
  /\ slot' = [slot EXCEPT ![i].task = FALSE, ![i].sock = NoConn]
  /\ UNCHANGED <<v1, running, handle, listening, server, backlog, conns, down,
                 current, audio, caller, starts, broken>>

\* ... its flags are cleared, and the task deletes itself.
ClientDelete(i) ==
  /\ client[i].at \in {"delete", "failed"}
  /\ slot' = IF client[i].at = "delete"
               THEN [slot EXCEPT ![i].should_stop = FALSE, ![i].is_old = FALSE]
               ELSE slot
  /\ client' = [client EXCEPT ![i] = NoTask]
  /\ UNCHANGED <<v1, running, handle, listening, server, backlog, conns, down,
                 current, audio, caller, starts, broken>>

\* The steps a client task takes by itself, its sender's wishes apart.
ClientStep(i) ==
  \/ ClientStart(i) \/ ClientSession(i) \/ ClientLeave(i) \/ ClientStopAudio(i)
  \/ (GraceOver(i) /\ ClientGrace(i)) \/ ClientFree(i) \/ ClientDelete(i)

ServerStep ==
  \/ ServerInit \/ ServerAccept \/ ServerReplace \/ ServerCreate \/ ServerHandle
  \/ ServerLeave \/ ServerDrained \/ ServerDelete

Next ==
  \/ Connect \/ \E i \in Slots : Disconnect(i)
  \/ Start \/ Stop \/ StopReturns
  \/ ServerStep \/ ServerReject
  \/ \E i \in Slots : ClientStep(i) \/ ClientRequest(i) \/ ClientGrace(i)

\* Tasks are scheduled, handlers return, and waits end.
Fairness ==
  /\ WF_vars(ServerStep) /\ WF_vars(StopReturns)
  /\ \A i \in Slots : WF_vars(ClientStep(i))

Spec == Init /\ [][Next]_vars /\ Fairness

----------------------------------------------------------------------------
(* Properties.                                                             *)

\* Every variable has its type.
TypeOK ==
  /\ v1 \in BOOLEAN /\ running \in BOOLEAN /\ handle \in BOOLEAN
  /\ listening \in BOOLEAN
  /\ server \in [at : {"none", "init", "accept", "wait", "create", "handle",
                       "drain", "exit", "undefined"}, conn : 0 .. MaxConns]
  /\ backlog \in Seq(Conns) /\ (backlog # <<>> => listening)
  /\ conns \in 0 .. MaxConns /\ down \subseteq Conns
  /\ current \in Slots
  /\ slot \in [Slots -> [task : BOOLEAN, sock : 0 .. MaxConns,
                          should_stop : BOOLEAN, is_old : BOOLEAN]]
  /\ client \in [Slots -> [at : {"none", "start", "serve", "request", "cleanup",
                                 "grace", "free", "delete", "failed"},
                           conn : 0 .. MaxConns]]
  /\ audio \in 0 .. MaxConns
  /\ caller \in {"idle", "stopping"} /\ starts \in 0 .. MaxStarts
  /\ broken \subseteq {"server", "reused", "stale", "overrun"}

\* At most one sender is served: as soon as a second client task exists the
\* first has been told to stop, across replacements and server restarts, as
\* long as no task was left behind or overwritten.
OneActiveSession ==
  broken = {} =>
    \A i, j \in Slots :
      /\ client[i].at \in {"start", "serve"} /\ ~slot[i].should_stop
      /\ client[j].at \in {"start", "serve"} /\ ~slot[j].should_stop
      => i = j

\* The audio session never outlives the client that started it: whatever the
\* order in which a client is replaced, finishes its last request and cleans
\* up, a session that runs has a client task that will still stop it.
SessionHasClient ==
  broken = {} /\ audio # NoConn =>
    \E i \in Slots :
      client[i].conn = audio /\ client[i].at \in {"serve", "request", "cleanup"}

\* Sessions and clients correspond: one sender is served, and what plays has
\* a client that will stop it (client_task, server_task).
SessionFollowsClient == OneActiveSession /\ SessionHasClient

\* When the server task has gone, so have its clients, and nothing plays.
StopLeavesNothing ==
  broken = {} /\ server.at = "none" =>
    /\ \A i \in Slots : client[i].at \in {"none", "failed", "delete"}
    /\ audio = NoConn

\* A client that has been told to stop gives its slot back, even one in the
\* grace period of AirPlay 1 whose sender is still there.
StoppedClientLeaves ==
  \A i \in Slots :
    slot[i].task /\ slot[i].should_stop ~> ~slot[i].task \/ broken # {}

\* With static TCBs a slot is not reused until the old task is deleted.
TcbReusedAfterDelete == "reused" \notin broken

\* A client that has been replaced makes no global changes: it does not stop
\* the audio session of the client that replaced it.
OldClientSparesSession ==
  [][\A i \in Slots :
       client[i].at = "cleanup" /\ client'[i].at # "cleanup" /\ slot[i].is_old
         => audio \in {NoConn, client[i].conn}]_vars
=============================================================================
