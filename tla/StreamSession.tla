--------------------------- MODULE StreamSession ---------------------------
(***************************************************************************)
(* The audio session of one RTSP connection after another: the requests    *)
(* that set up, start, pause and tear down a stream (handlers of           *)
(* main/rtsp/rtsp_handlers.c, run by the client task), the stream control  *)
(* of main/audio/audio_receiver.c, and the tasks they start and stop:      *)
(* recv and ctrl of audio_stream_realtime.c, tcp of                        *)
(* audio_stream_buffered.c, with the sockets, the static task memory, the  *)
(* key and the decoder they share.                                         *)
(*                                                                         *)
(* A handler is a program of operations that the client task carries out   *)
(* one by one; the stream tasks run between any two of them.  Timing, the  *)
(* jitter buffer and the gates are in Playout, AudioBuffer and             *)
(* AudioReceiver; the event port, the clocks and the replies are left out. *)
(***************************************************************************)
EXTENDS Integers, Sequences, FiniteSets

CONSTANTS MaxRequests,  \* bound: RTSP requests, over all connections
          MaxDisturbed  \* bound: the same once a task has been left behind

Streams == {"realtime", "buffered"}
Feeders == {"recv", "tcp"}
Tasks == {"recv", "ctrl", "tcp"}
TasksOf(s) == IF s = "realtime" THEN {"recv", "ctrl"} ELSE {"tcp"}

VARIABLES
  conn,     \* rtsp_conn_t: protocol version, announced (sender), stream_type,
            \* stream_active, stream_paused
  todo,     \* what is left of the handler in progress
  requests, \* requests so far
  stream,   \* receiver.stream
  running,  \* running, of each stream
  playing,  \* timing.playing
  decoder,  \* receiver.decoder, 0 for NULL
  key,      \* encrypt.type # AUDIO_ENCRYPT_NONE, of both streams
  sock,     \* the sockets that are open
  peer,     \* buffered_client_socket is set
  task,     \* each stream task: its next step, whether the packet in its hands
            \* was read without a key, and the decoder it uses
  handle,   \* task_handle, control_task_handle, buffered_task_handle # NULL
  stacks,   \* stacks audio_realtime_preallocate got
  failed,   \* history: the stream could not be started or a task gave up
  excuse,   \* history: a task was left behind ("overrun"), or its handle was
            \* stored after it had gone ("stale")
  reused    \* history: a task was created on the memory of a live one

vars == <<conn, todo, requests, stream, running, playing, decoder, key, sock, peer,
          task, handle, stacks, failed, excuse, reused>>
control == <<conn, requests>>
shared == <<stream, playing, decoder, key, stacks>>
history == <<failed, excuse, reused>>

NewConn == [version |-> 0, announced |-> FALSE, type |-> "none",
            active |-> FALSE, paused |-> FALSE]
NoTask == [at |-> "none", clear |-> FALSE, dec |-> 0]

Init ==
  /\ conn = NewConn /\ todo = <<>> /\ requests = 0
  /\ stream = "realtime" /\ running = [s \in Streams |-> FALSE]
  /\ playing = FALSE /\ decoder = 0 /\ key = FALSE
  /\ sock = {} /\ peer = FALSE
  /\ task = [t \in Tasks |-> NoTask] /\ handle = [t \in Tasks |-> FALSE]
  /\ stacks \in {{}, {"recv"}, {"recv", "ctrl"}}   \* ctrl alone is as good as none
  /\ failed = FALSE /\ excuse = {} /\ reused = FALSE

----------------------------------------------------------------------------
(* The programs.  Op(op, on): an operation on a stream or a task.          *)

Op(op, on) == [op |-> op, on |-> on]

\* audio_receiver_set_stream_type.
Select(s) == <<Op("select", s)>>

\* audio_receiver_start: a realtime stream is always restarted ...
StartRealtime ==
  Select("realtime") \o <<Op("stop", "realtime"), Op("start", "realtime")>>

\* ... and audio_receiver_start_buffered: a buffered one goes on.
StartBuffered(start) == Select("buffered") \o <<Op(start, "buffered")>>

\* audio_receiver_start_stream.
StartStream(s) ==
  IF s = "buffered" THEN StartBuffered("start") ELSE StartRealtime

\* Mutant: the key goes first.
StopAllWiped ==
  <<Op("wipe", "key"), Op("stop", "realtime"), Op("stop", "buffered"),
    Op("destroy", "decoder")>>

\* audio_receiver_stop.
StopAll ==
  <<Op("stop", "realtime"), Op("stop", "buffered"), Op("destroy", "decoder"),
    Op("wipe", "key")>>

----------------------------------------------------------------------------
(* The requests.                                                           *)

Request(version, program) ==
  /\ todo = <<>> /\ requests < MaxRequests
  /\ excuse # {} => requests < MaxDisturbed /\ ~reused
  /\ conn.version \in {0, version}
  /\ requests' = requests + 1
  /\ todo' = program
  /\ UNCHANGED <<shared, running, sock, peer, task, handle, history>>

Opened(version) == [conn EXCEPT !.version = version]

\* ANNOUNCE of a RAOP sender: parse_sdp sets format and key.
Announce ==
  /\ ~conn.active
  /\ Request(1, <<Op("format", "decoder"), Op("key", "key")>>)
  /\ conn' = [Opened(1) EXCEPT !.announced = TRUE]

\* SETUP of a RAOP sender; the stream is left to RECORD.
SetupRaop ==
  /\ conn.announced
  /\ Request(1, <<Op("format", "decoder")>> \o Select("realtime"))
  /\ conn' = [conn EXCEPT !.type = "realtime", !.active = TRUE]

\* SETUP with a stream (AirPlay 2).  A buffered stream that cannot be started
\* ends the handler; a realtime one does not.
Setup(s) ==
  /\ Request(2, Select(s) \o <<Op("format", "decoder"), Op("key", "key")>>
                \o (IF s = "buffered" THEN StartBuffered("listen") ELSE <<>>)
                \o Select(s) \o StartStream(s) \o <<Op("play", s)>>)
  /\ conn' = [Opened(2) EXCEPT !.type = s]

\* Mutant: RECORD always starts a realtime stream.
RecordRealtime == StartRealtime

\* The stream RECORD starts.
RecordStream == StartStream(stream)

\* RECORD (of a sender that has set up a stream, or torn it down and not the
\* session): after a pause only playout is enabled.
Record ==
  /\ conn.active \/ conn.paused
  /\ Request(conn.version,
             IF conn.paused THEN <<Op("resume", stream)>>
             ELSE RecordStream \o <<Op("resume", stream)>>)
  /\ UNCHANGED conn

\* PAUSE, or SETRATEANCHORTIME with rate 0.
Pause ==
  /\ conn.active
  /\ Request(conn.version, <<Op("pause", stream)>>)
  /\ UNCHANGED conn

\* SETRATEANCHORTIME with another rate.
Rate ==
  /\ conn.active /\ conn.version = 2
  /\ Request(2, <<Op("resume", stream)>>)
  /\ UNCHANGED conn

\* TEARDOWN: of the streams (AirPlay 2 only), or of the session.
Teardown(streams) ==
  /\ conn.active
  /\ streams => conn.version = 2
  /\ Request(conn.version, StopAll \o <<Op("torn", IF streams THEN "streams"
                                                   ELSE "session")>>)
  /\ UNCHANGED conn

\* The connection ends, and the client task cleans up.
Disconnect ==
  /\ conn.version # 0
  /\ Request(conn.version, StopAll \o <<Op("free", "conn")>>)
  /\ UNCHANGED conn

----------------------------------------------------------------------------
(* The operations.                                                         *)

At(op) == todo # <<>> /\ Head(todo).op = op
On == Head(todo).on
Then(program) == todo' = program \o Tail(todo)

\* Another task is in the decoder (decoder_mutex).
DecoderFree == \A t \in Feeders : task[t].at # "decode"

\* Mutant: the mutex is not taken.
DecoderFreeAlways == TRUE

\* The client task waits for the mutex before it replaces the decoder.
MayReplace == DecoderFree

\* Mutant: the decoder that is replaced stays.
NextDecoderKept == decoder + 1

\* A decoder other than the one there is.
NextDecoder == IF decoder = 1 THEN 2 ELSE 1

\* audio_receiver_set_format; without memory for a decoder the old one stays.
Format ==
  /\ At("format") /\ Then(<<>>)
  /\ \/ MayReplace /\ decoder' = NextDecoder
     \/ UNCHANGED decoder
  /\ UNCHANGED <<control, stream, running, playing, key, sock, peer, task, handle,
                 stacks, history>>

Destroy ==
  /\ At("destroy") /\ Then(<<>>)
  /\ MayReplace /\ decoder' = 0
  /\ UNCHANGED <<control, stream, running, playing, key, sock, peer, task, handle,
                 stacks, history>>

\* audio_receiver_set_encryption, and the end of audio_receiver_stop.
Key ==
  /\ At("key") \/ At("wipe")
  /\ Then(<<>>) /\ key' = At("key")
  /\ UNCHANGED <<control, stream, running, playing, decoder, sock, peer, task, handle,
                 stacks, history>>

\* Mutant: the stream is switched first, and the one now current is stopped.
SwitchedFirst(s) == <<Op("assign", s), Op("stop", s)>>

\* The other stream is stopped, then this one becomes the current one.
Switched(s) == <<Op("stop", stream), Op("assign", s)>>

SelectStream ==
  /\ At("select")
  /\ Then(IF stream # On THEN Switched(On) ELSE <<>>)
  /\ UNCHANGED <<control, shared, running, sock, peer, task, handle, history>>

Assign ==
  /\ At("assign") /\ Then(<<>>)
  /\ stream' = On
  /\ UNCHANGED <<control, running, playing, decoder, key, sock, peer, task, handle,
                 stacks, history>>

\* Mutant: one tick too few, the task may still be on its stack.
JoinsNoTick(s) ==
  IF s = "realtime" THEN <<Op("join", "recv"), Op("join", "ctrl")>>
  ELSE <<Op("join", "tcp")>>

\* The tasks a stop waits for, and the tick they have to delete themselves.
Joins(s) ==
  (IF s = "realtime" THEN <<Op("join", "recv"), Op("join", "ctrl")>>
   ELSE <<Op("join", "tcp")>>) \o <<Op("tick", s)>>

\* Mutant: the control socket stays open.
SocketsOfData(s) ==
  IF s = "realtime" THEN {"data"} ELSE {"listen"} \cup (IF peer THEN {"client"} ELSE {})

\* The sockets a stop closes: the connection only when it is known.
SocketsOf(s) ==
  IF s = "realtime" THEN {"data", "control"}
  ELSE {"listen"} \cup (IF peer THEN {"client"} ELSE {})

\* realtime_stop and buffered_stop: the flag, the sockets, and the wait.
Stop ==
  /\ At("stop")
  /\ \/ /\ running[On]
        /\ running' = [running EXCEPT ![On] = FALSE]
        /\ sock' = sock \ SocketsOf(On)
        /\ peer' = (peer /\ On # "buffered")
        /\ Then(Joins(On))
     \/ /\ ~running[On] /\ Then(<<>>)
        /\ UNCHANGED <<running, sock, peer>>
  /\ UNCHANGED <<control, shared, task, handle, history>>

\* Mutant: the wait has no end.
GivesUpNever == FALSE

\* The waits are for three and for five seconds.
GivesUp == TRUE

\* Waiting for a task to clear its handle.
Join ==
  /\ At("join") /\ Then(<<>>)
  /\ \/ ~handle[On] /\ UNCHANGED excuse
     \/ /\ handle[On] /\ GivesUp
        /\ excuse' = IF task[On].at # "none" THEN excuse \cup {"overrun"} ELSE excuse
  /\ UNCHANGED <<control, shared, running, sock, peer, task, handle, failed, reused>>

\* A tick, in which tasks that have cleared their handles are deleted; none
\* when a handle is still set.
TickOver ==
  /\ At("tick") /\ Then(<<>>)
  /\ (\A t \in TasksOf(On) : ~handle[t]) => \A t \in TasksOf(On) : task[t].at = "none"
  /\ UNCHANGED <<control, shared, running, sock, peer, task, handle, history>>

Spawn(t) == <<Op("spawn", t), Op("handle", t)>>

\* realtime_start: sockets, then tasks.  Without the stack of recv the sockets
\* stay open, without that of ctrl the control socket is closed.
OpenRealtime ==
  /\ At("start") /\ On = "realtime"
  /\ \/ /\ sock' = sock \cup {"data"} \cup
                     (IF "recv" \in stacks /\ "ctrl" \notin stacks THEN {}
                      ELSE {"control"})
        /\ running' = [running EXCEPT !["realtime"] = "recv" \in stacks]
        /\ failed' = ("recv" \notin stacks)
        /\ Then(IF "recv" \notin stacks THEN <<>>
                ELSE Spawn("recv") \o (IF "ctrl" \in stacks THEN Spawn("ctrl") ELSE <<>>))
     \/ /\ failed' = TRUE /\ Then(<<>>)        \* a port cannot be bound
        /\ UNCHANGED <<running, sock>>
  /\ UNCHANGED <<control, shared, peer, task, handle, excuse, reused>>

\* buffered_start; only SETUP looks at its result ("listen").
OpenBuffered ==
  /\ (At("start") \/ At("listen")) /\ On = "buffered"
  /\ \/ /\ running["buffered"] /\ Then(<<>>)
        /\ UNCHANGED <<running, sock, failed>>
     \/ /\ ~running["buffered"]
        /\ sock' = sock \cup {"listen"}
        /\ running' = [running EXCEPT !["buffered"] = TRUE]
        /\ failed' = FALSE /\ Then(Spawn("tcp"))
     \/ /\ ~running["buffered"]                \* no port or no memory
        /\ failed' = TRUE
        /\ todo' = IF At("listen") THEN <<>> ELSE Tail(todo)
        /\ UNCHANGED <<running, sock>>
  /\ UNCHANGED <<control, shared, peer, task, handle, excuse, reused>>

\* xTaskCreateStatic on the task's static memory (what follows when a task
\* still runs there is undefined, and not modelled) ...
Create ==
  /\ At("spawn") /\ Then(<<>>)
  /\ reused' = (reused \/ task[On].at # "none")
  /\ task' = IF task[On].at # "none" THEN task
             ELSE [task EXCEPT ![On] = [NoTask EXCEPT !.at = IF On = "tcp" THEN "accept"
                                                             ELSE "run"]]
  /\ UNCHANGED <<control, shared, running, sock, peer, handle, failed, excuse>>

\* ... and its result is stored.
Handle ==
  /\ At("handle") /\ Then(<<>>)
  /\ handle' = [handle EXCEPT ![On] = TRUE]
  /\ excuse' = IF task[On].at \in {"none", "exit"} THEN excuse \cup {"stale"} ELSE excuse
  /\ UNCHANGED <<control, shared, running, sock, peer, task, failed, reused>>

\* The last lines of the handlers.
Finish ==
  /\ \/ /\ At("play")
        /\ conn' = [conn EXCEPT !.active = TRUE, !.paused = FALSE] /\ playing' = TRUE
     \/ /\ At("resume")
        /\ conn' = [conn EXCEPT !.paused = FALSE] /\ playing' = TRUE
     \/ /\ At("pause")
        /\ conn' = [conn EXCEPT !.paused = TRUE] /\ playing' = FALSE
     \/ /\ At("torn")
        /\ conn' = [conn EXCEPT !.active = FALSE, !.paused = On = "streams",
                                !.announced = FALSE]
        /\ UNCHANGED playing
     \/ /\ At("free") /\ conn' = NewConn /\ UNCHANGED playing
  /\ Then(<<>>)
  /\ UNCHANGED <<requests, stream, running, decoder, key, sock, peer, task, handle,
                 stacks, history>>

----------------------------------------------------------------------------
(* The stream tasks.                                                       *)

TaskTo(t, at) == task' = [task EXCEPT ![t] = [NoTask EXCEPT !.at = at]]

\* A packet arrives and is decrypted, or taken as it is when there is no key.
Packet(t) ==
  /\ task[t].at = "run"
  /\ IF t = "recv" THEN "data" \in sock ELSE "client" \in sock /\ running["buffered"]
  /\ task' = [task EXCEPT ![t].at = "packet", ![t].clear = ~key]
  /\ UNCHANGED <<control, todo, shared, running, sock, peer, handle, history>>

\* audio_stream_process_frame: the mutex, and the decoder if there is one ...
TakeDecoder(t) ==
  /\ task[t].at = "packet" /\ DecoderFree
  /\ IF decoder = 0 THEN TaskTo(t, "run")
     ELSE task' = [task EXCEPT ![t].at = "decode", ![t].dec = decoder]
  /\ UNCHANGED <<control, todo, shared, running, sock, peer, handle, history>>

\* ... decodes and releases it.
Decoded(t) ==
  /\ task[t].at = "decode" /\ TaskTo(t, "run")
  /\ UNCHANGED <<control, todo, shared, running, sock, peer, handle, history>>

\* recv and ctrl leave when the stream stops, or on an error of the socket.
Leave(t) ==
  /\ task[t].at = "run" /\ TaskTo(t, "exit")
  /\ handle' = [handle EXCEPT ![t] = FALSE]
  /\ failed' = (failed \/ running["realtime"])
  /\ UNCHANGED <<control, todo, shared, running, sock, peer, excuse, reused>>

\* tcp accepts a connection ...
Accept ==
  /\ task["tcp"].at = "accept" /\ "listen" \in sock
  /\ sock' = sock \cup {"client"} /\ TaskTo("tcp", "accepted")
  /\ UNCHANGED <<control, todo, shared, running, peer, handle, history>>

\* ... and makes it known to buffered_stop.
Accepted ==
  /\ task["tcp"].at = "accepted"
  /\ peer' = TRUE /\ TaskTo("tcp", "run")
  /\ UNCHANGED <<control, todo, shared, running, sock, handle, history>>

\* The end of a connection: the stream stops, the peer closes it, an error,
\* or no packet for 30 s while playing.
Hangup ==
  /\ task["tcp"].at = "run"
  /\ sock' = sock \ {"client"} /\ peer' = FALSE /\ TaskTo("tcp", "accept")
  /\ UNCHANGED <<control, todo, shared, running, handle, history>>

TcpLeave ==
  /\ task["tcp"].at = "accept" /\ ~running["buffered"]
  /\ TaskTo("tcp", "exit") /\ handle' = [handle EXCEPT !["tcp"] = FALSE]
  /\ UNCHANGED <<control, todo, shared, running, sock, peer, history>>

Delete(t) ==
  /\ task[t].at = "exit" /\ TaskTo(t, "none")
  /\ UNCHANGED <<control, todo, shared, running, sock, peer, handle, history>>

Requests ==
  \/ Announce \/ SetupRaop \/ \E s \in Streams : Setup(s)
  \/ Record \/ Pause \/ Rate \/ \E streams \in BOOLEAN : Teardown(streams)
  \/ Disconnect

ClientStep ==
  \/ Format \/ Destroy \/ Key \/ SelectStream \/ Assign \/ Stop \/ Join
  \/ TickOver \/ OpenRealtime \/ OpenBuffered \/ Create \/ Handle \/ Finish

TaskStep ==
  \/ \E t \in Feeders : Packet(t) \/ TakeDecoder(t) \/ Decoded(t)
  \/ Leave("recv") \/ Leave("ctrl")
  \/ Accept \/ Accepted \/ Hangup \/ TcpLeave
  \/ \E t \in Tasks : Delete(t)

Next == Requests \/ ClientStep \/ TaskStep

\* The client task runs, decoding ends, and a task that has finished is
\* deleted.  That a task ever notices the end of its stream is not assumed.
Fairness ==
  /\ WF_vars(ClientStep)
  /\ \A t \in Feeders : WF_vars(Decoded(t))
  /\ \A t \in Tasks : WF_vars(Delete(t))

Spec == Init /\ [][Next]_vars /\ Fairness

----------------------------------------------------------------------------
(* Properties.                                                             *)

\* Every variable has its type.
TypeOK ==
  /\ conn \in [version : 0 .. 2, announced : BOOLEAN, type : Streams \cup {"none"},
               active : BOOLEAN, paused : BOOLEAN]
  /\ requests \in 0 .. MaxRequests
  /\ stream \in Streams /\ running \in [Streams -> BOOLEAN]
  /\ playing \in BOOLEAN /\ decoder \in 0 .. 2 /\ key \in BOOLEAN
  /\ sock \subseteq {"data", "control", "listen", "client"} /\ peer \in BOOLEAN
  /\ task \in [Tasks -> [at : {"none", "accept", "accepted", "run", "packet", "decode",
                               "exit"}, clear : BOOLEAN, dec : 0 .. 2]]
  /\ handle \in [Tasks -> BOOLEAN] /\ stacks \subseteq {"recv", "ctrl"}
  /\ failed \in BOOLEAN /\ excuse \subseteq {"overrun", "stale"} /\ reused \in BOOLEAN

Alive(t) == task[t].at \notin {"none", "exit"}

\* The two streams share the decrypt buffer without a lock: whatever the order
\* of SETUPs, RECORDs and TEARDOWNs, only one of the tasks that use it is
\* there, unless a stop has given up on a task.
SingleFeeder == "overrun" \notin excuse => ~(Alive("recv") /\ Alive("tcp"))

\* The tasks run on static memory: a start never reuses that of a task that
\* has not been deleted, unless a stop has given up on it.
TaskMemoryFree == reused => excuse # {}

\* Between requests a stream that does not run has no socket open (all of
\* them are closed by somebody, accepted ones and those of failed starts too),
\* as long as the stacks were there and no task was left behind.
SocketsClosed ==
  todo = <<>> /\ "recv" \in stacks /\ excuse = {} =>
    /\ ~running["realtime"] => sock \cap {"data", "control"} = {}
    /\ ~running["buffered"] => sock \cap {"listen", "client"} = {}

\* Encrypted audio is never decoded as if it were plain: the key is wiped only
\* when no task can still read packets, and set before any does.
NoNoise ==
  "overrun" \notin excuse =>
    \A t \in Feeders : task[t].at = "decode" => ~task[t].clear

\* A decoder is not destroyed while a task is in it, nor used by two.
DecoderInUse ==
  /\ \A t \in Feeders : task[t].at = "decode" => task[t].dec = decoder
  /\ Cardinality({t \in Feeders : task[t].at = "decode"}) =< 1

\* What the tasks of the two streams share (the decrypt buffer, their static
\* memory, the sockets, the key and the decoder) is used by one at a time and
\* given back, whatever the order of requests (audio_receiver.c,
\* audio_stream_realtime.c, audio_stream_buffered.c).
SharedSafely == SingleFeeder /\ TaskMemoryFree /\ SocketsClosed /\ NoNoise /\ DecoderInUse

\* Between requests an AirPlay 2 session that is active has the stream it
\* asked for, and that one only, unless it could not be started.
SessionRuns ==
  todo = <<>> /\ conn.active /\ conn.version = 2 /\ ~failed /\ excuse = {} =>
    /\ stream = conn.type
    /\ \A s \in Streams : running[s] <=> s = conn.type
    /\ \A t \in Feeders \cap TasksOf(conn.type) : Alive(t)

\* Every request is answered: no handler waits forever for a task, even one
\* that never notices that its stream has stopped.
RequestAnswered == todo # <<>> ~> todo = <<>>

\* RECORD that resumes from a pause finds the stream listener still running.
ResumeFindsListener ==
  At("resume") /\ conn.paused /\ ~failed => running[stream]
=============================================================================
