--------------------------- MODULE RtspServerProofs ---------------------------
(* Theorems about the connections of RtspServer, for any number of           *)
(* connections and restarts and behaviours of any length.                    *)
EXTENDS RtspServer, TLAPS

\* What the steps need to know of the types.
Fields ==
  /\ server = [at |-> server.at, conn |-> server.conn]
  /\ server.at \in {"none", "init", "accept", "wait", "create", "handle", "drain", "exit",
                    "undefined"}
  /\ current \in Slots
  /\ slot = [i \in Slots |-> slot[i]] /\ client = [i \in Slots |-> client[i]]
  /\ \A i \in Slots :
       /\ slot[i] = [task |-> slot[i].task, sock |-> slot[i].sock,
                     should_stop |-> slot[i].should_stop, is_old |-> slot[i].is_old]
       /\ client[i] = [at |-> client[i].at, conn |-> client[i].conn]
       /\ client[i].at \in {"none", "start", "serve", "request", "cleanup", "grace", "free",
                            "delete", "failed"}

\* A client that serves nobody any more, and one that serves nobody or knows
\* that it must not.
Dead(i) == client[i].at \in {"none", "failed", "delete"}
Quiet(i) == Dead(i) \/ slot[i].should_stop

\* A slot's handle is set as long as its task serves, but for the moment between
\* the task's creation and the handle's assignment.
HandleKept ==
  \A i \in Slots : ~Dead(i) => slot[i].task \/ (server.at = "handle" /\ i = NewSlot)

\* Where no server is, or none that has accepted yet, no client is; elsewhere
\* the one of the two slots that is not in use is quiet.
OtherQuiet ==
  /\ server.at \in {"none", "init", "exit"} => \A i \in Slots : Dead(i)
  /\ server.at \in {"create", "handle"} => Quiet(current)
  /\ server.at = "create" => Dead(NewSlot)
  /\ server.at \in {"accept", "wait", "drain"} => Quiet(NewSlot)
  /\ server.at # "undefined"

\* What plays has a client that will stop it, even where memory was reused.
AudioOwned ==
  audio # NoConn =>
    \E i \in Slots :
      client[i].conn = audio /\ client[i].at \in {"serve", "request", "cleanup"}

ConnInv == Fields /\ AudioOwned /\ (broken = {} => HandleKept /\ OtherQuiet)


LEMMA SlotsAre == Fields => /\ NewSlot \in Slots /\ NewSlot # current
                            /\ \A i \in Slots : i = current \/ i = NewSlot
BY DEF Fields, Slots, NewSlot

LEMMA StoppedIs ==
  ASSUME NEW s, s = [task |-> s.task, sock |-> s.sock, should_stop |-> s.should_stop,
                     is_old |-> s.is_old]
  PROVE  Stopped(s) = [task |-> s.task, sock |-> s.sock, should_stop |-> TRUE,
                       is_old |-> s.is_old]
<1>1. PICK t : t = [s EXCEPT !.should_stop = TRUE]
  OBVIOUS
<1>2. t = [task |-> s.task, sock |-> s.sock, should_stop |-> TRUE, is_old |-> s.is_old]
  BY <1>1
<1> QED
  BY <1>1, <1>2 DEF Stopped

\* The steps of a client task: it leaves its state only forwards, and gives its
\* handle up only when it is dead.
LEMMA ClientKeeps ==
  ASSUME ConnInv, NEW i \in Slots, ClientStep(i) \/ ClientRequest(i) \/ ClientGrace(i)
  PROVE  ConnInv'
<1> USE DEF ConnInv, Fields
<1>0. UNCHANGED <<server, current, broken>> /\ NewSlot' = NewSlot
  BY DEF ClientStep, ClientStart, ClientSession, ClientLeave, ClientStopAudio, ClientGrace,
         ClientFree, ClientDelete, ClientRequest, NewSlot
<1>1. /\ slot' = [slot EXCEPT ![i] = slot'[i]]
      /\ slot'[i] = [task |-> slot'[i].task, sock |-> slot'[i].sock,
                     should_stop |-> slot'[i].should_stop, is_old |-> slot'[i].is_old]
      /\ \/ slot'[i].task = slot[i].task
         \/ client'[i].at \in {"failed", "delete"}
      /\ \/ slot'[i].should_stop = slot[i].should_stop
         \/ client'[i].at = "none"
  BY DEF ClientStep, ClientStart, ClientSession, ClientLeave, ClientStopAudio, ClientGrace,
         ClientFree, ClientDelete, ClientRequest, ClientTo, NoTask
<1>2. /\ client' = [client EXCEPT ![i] = client'[i]]
      /\ client'[i] = [at |-> client'[i].at, conn |-> client'[i].conn]
      /\ client'[i].at \in {"none", "serve", "request", "cleanup", "grace", "free", "delete",
                            "failed"}
  BY DEF ClientStep, ClientStart, ClientSession, ClientLeave, ClientStopAudio, ClientGrace,
         ClientFree, ClientDelete, ClientRequest, ClientTo, NoTask
<1>3. client[i].at \in {"none", "failed", "delete"} =>
        client'[i].at \in {"none", "failed", "delete"}
  BY DEF ClientStep, ClientStart, ClientSession, ClientLeave, ClientStopAudio, ClientGrace,
         ClientFree, ClientDelete, ClientRequest, ClientTo, NoTask
<1>4. Fields'
  BY <1>0, <1>1, <1>2
<1>5. AudioOwned'
  <2>1. /\ audio' \in {audio, NoConn} \/ (audio' = client'[i].conn /\ client'[i].at = "serve")
        /\ client[i].at \in {"serve", "request", "cleanup"} /\ audio' # NoConn =>
             client'[i].conn = client[i].conn /\ client'[i].at \in {"serve", "request", "cleanup"}
    BY DEF ClientStep, ClientStart, ClientSession, ClientLeave, ClientStopAudio, ClientGrace,
           ClientFree, ClientDelete, ClientRequest, ClientTo, NoTask, AudioAfter
  <2>2. CASE audio' = NoConn
    BY <2>2 DEF AudioOwned
  <2>3. CASE audio' = client'[i].conn /\ client'[i].at = "serve"
    BY <2>3 DEF AudioOwned
  <2>4. CASE audio' = audio /\ audio' # NoConn
    <3>1. PICK j \in Slots :
            client[j].conn = audio /\ client[j].at \in {"serve", "request", "cleanup"}
      BY <2>4 DEF AudioOwned
    <3>2. client'[j].conn = audio /\ client'[j].at \in {"serve", "request", "cleanup"}
      BY <1>2, <2>1, <2>4, <3>1
    <3> QED
      BY <2>4, <3>2 DEF AudioOwned
  <2> QED
    BY <2>1, <2>2, <2>3, <2>4
<1>6. ASSUME broken = {}
      PROVE  (HandleKept /\ OtherQuiet)'
  <2>1. HandleKept /\ OtherQuiet
    BY <1>6
  <2>2. \A j \in Slots : Dead(j) => Dead(j)'
    BY <1>2, <1>3 DEF Dead
  <2>3. \A j \in Slots : Quiet(j) => Quiet(j)'
    BY <1>1, <1>2, <2>2 DEF Dead, Quiet
  <2>4. HandleKept'
    BY <1>0, <1>1, <1>2, <2>1, <2>2 DEF HandleKept, Dead
  <2>5. OtherQuiet'
    BY <1>0, <2>1, <2>2, <2>3, SlotsAre DEF OtherQuiet
  <2> QED
    BY <2>4, <2>5
<1> QED
  BY <1>0, <1>4, <1>5, <1>6

\* The server task's steps around a connection.
LEMMA AcceptKeeps ==
  ASSUME ConnInv, ServerAccept \/ ServerReject
  PROVE  ConnInv'
<1> USE DEF ConnInv, Fields
<1>1. /\ UNCHANGED <<current, client, audio, broken>> /\ NewSlot' = NewSlot
      /\ server' = [at |-> server'.at, conn |-> server'.conn]
      /\ server.at \in {"accept", "wait"} /\ server'.at \in {"accept", "wait"}
  BY DEF ServerAccept, ServerReject, NewSlot, NoTask
<1>2. /\ slot' = [j \in Slots |-> slot'[j]]
      /\ \A j \in Slots :
           /\ slot'[j] = [task |-> slot'[j].task, sock |-> slot'[j].sock,
                          should_stop |-> slot'[j].should_stop, is_old |-> slot'[j].is_old]
           /\ slot'[j].task = slot[j].task
           /\ slot[j].should_stop => slot'[j].should_stop
  <2>1. CASE UNCHANGED slot
    BY <2>1
  <2>2. CASE slot' = [slot EXCEPT ![NewSlot] = Stopped(slot[NewSlot])]
    <3>1. Stopped(slot[NewSlot]) = [task |-> slot[NewSlot].task, sock |-> slot[NewSlot].sock,
                                    should_stop |-> TRUE, is_old |-> slot[NewSlot].is_old]
      BY SlotsAre, StoppedIs
    <3>2. slot' = [j \in Slots |-> slot'[j]] /\ slot'[NewSlot] = Stopped(slot[NewSlot])
          /\ slot'[current] = slot[current]
      BY <2>2, SlotsAre
    <3> QED
      BY <3>1, <3>2, SlotsAre
  <2> QED
    BY <2>1, <2>2 DEF ServerAccept, ServerReject
<1>3. Fields' /\ AudioOwned'
  BY <1>1, <1>2 DEF AudioOwned
<1>4. broken = {} => HandleKept' /\ OtherQuiet'
  BY <1>1, <1>2, SlotsAre DEF HandleKept, OtherQuiet, Quiet, Dead
<1> QED
  BY <1>1, <1>3, <1>4

LEMMA ReplaceKeeps ==
  ASSUME ConnInv, ServerReplace
  PROVE  ConnInv'
<1> USE DEF ConnInv, Fields
<1>1. /\ UNCHANGED <<current, client, audio, broken>> /\ NewSlot' = NewSlot
      /\ server' = [at |-> server'.at, conn |-> server'.conn]
      /\ server.at = "wait" /\ server'.at = "create" /\ ~slot[NewSlot].task
  BY DEF ServerReplace, NewSlot
<1>2. /\ slot' = [j \in Slots |-> slot'[j]]
      /\ slot'[NewSlot] = [task |-> FALSE, sock |-> server.conn, should_stop |-> FALSE,
                           is_old |-> FALSE]
      /\ slot'[current] = IF slot[current].task THEN Replaced(slot[current])
                          ELSE slot[current]
  BY SlotsAre DEF ServerReplace, FreeSlot
<1>3. /\ slot'[current] = [task |-> slot'[current].task, sock |-> slot'[current].sock,
                           should_stop |-> slot'[current].should_stop,
                           is_old |-> slot'[current].is_old]
      /\ slot'[current].task = slot[current].task
      /\ slot[current].task => slot'[current].should_stop
  <2> DEFINE c == slot[current]  d == slot'[current]
  <2>1. c = [task |-> c.task, sock |-> c.sock, should_stop |-> c.should_stop,
             is_old |-> c.is_old]
    OBVIOUS
  <2>2. CASE c.task
    <3>1. d = [c EXCEPT !.is_old = TRUE, !.should_stop = TRUE]
      BY <1>2, <2>2 DEF Replaced
    <3> HIDE DEF c, d, ConnInv, Fields
    <3>2. d = [task |-> c.task, sock |-> c.sock, should_stop |-> TRUE, is_old |-> TRUE]
      BY <2>1, <3>1
    <3> QED
      BY <2>2, <3>2 DEF c, d
  <2>3. CASE ~c.task
    BY <1>2, <2>3
  <2> QED
    BY <2>2, <2>3
<1>4. Fields' /\ AudioOwned'
  BY <1>1, <1>2, <1>3, SlotsAre DEF AudioOwned
<1>5. ASSUME broken = {}
      PROVE  HandleKept' /\ OtherQuiet'
  <2>1. Dead(NewSlot)
    BY <1>1, <1>5, SlotsAre DEF HandleKept
  <2>2. ~slot[current].task => Dead(current)
    BY <1>1, <1>5, SlotsAre DEF HandleKept
  <2>3. \A j \in Slots : Dead(j)' = Dead(j)
    BY <1>1 DEF Dead
  <2>4. HandleKept'
    BY <1>1, <1>2, <1>3, <1>5, <2>1, <2>2, <2>3, SlotsAre DEF HandleKept
  <2>5. OtherQuiet'
    BY <1>1, <1>3, <2>1, <2>2, <2>3, SlotsAre DEF OtherQuiet, Quiet
  <2> QED
    BY <2>4, <2>5
<1> QED
  BY <1>1, <1>4, <1>5

LEMMA CreateKeeps ==
  ASSUME ConnInv, ServerCreate \/ ServerHandle
  PROVE  ConnInv'
<1> USE DEF ConnInv, Fields
<1>1. CASE ServerCreate
  <2>1. /\ UNCHANGED <<current, slot, audio>> /\ NewSlot' = NewSlot
        /\ server' = [at |-> server'.at, conn |-> server'.conn]
        /\ server.at = "create"
    BY <1>1 DEF ServerCreate, NewSlot
  <2>2. CASE client[NewSlot].at # "none" /\ broken' = broken \cup {"reused"}
             /\ server'.at = "undefined" /\ UNCHANGED client
    BY <2>1, <2>2 DEF AudioOwned
  <2>3. CASE /\ client[NewSlot].at = "none" /\ server'.at = "handle" /\ UNCHANGED broken
             /\ client' = [client EXCEPT ![NewSlot] = [at |-> "start", conn |-> server.conn]]
    <3>1. Fields' /\ AudioOwned'
      BY <2>1, <2>3, SlotsAre DEF AudioOwned
    <3>2. ASSUME broken = {}
          PROVE  HandleKept' /\ OtherQuiet'
      <4>1. client'[current] = client[current]
        BY <2>3, SlotsAre
      <4>2. HandleKept'
        BY <2>1, <2>3, <3>2, <4>1, SlotsAre DEF HandleKept, Dead
      <4>3. OtherQuiet'
        BY <2>1, <2>3, <3>2, <4>1, SlotsAre DEF OtherQuiet, Quiet, Dead
      <4> QED
        BY <4>2, <4>3
    <3> QED
      BY <2>3, <3>1, <3>2
  <2> QED
    BY <1>1, <2>2, <2>3 DEF ServerCreate
<1>2. CASE ServerHandle
  <2>1. /\ UNCHANGED <<client, audio>>
        /\ server' = [at |-> "accept", conn |-> NoConn]
        /\ server.at = "handle" /\ current' = NewSlot
        /\ slot' = [slot EXCEPT ![NewSlot].task = TRUE]
        /\ Dead(NewSlot) => broken' = broken \cup {"stale"}
        /\ ~Dead(NewSlot) => broken' = broken
    BY <1>2 DEF ServerHandle, NoTask, Dead
  <2>2. NewSlot' = current
    BY <2>1, SlotsAre DEF NewSlot, Slots
  <2>3. Fields' /\ AudioOwned'
    BY <2>1, SlotsAre DEF AudioOwned
  <2>4. ASSUME broken' = {}
        PROVE  HandleKept' /\ OtherQuiet'
    <3>1. broken = {} /\ ~Dead(NewSlot)
      BY <2>1, <2>4
    <3>2. slot'[NewSlot].task /\ slot'[current] = slot[current]
      BY <2>1, SlotsAre
    <3>3. HandleKept'
      BY <2>1, <3>1, <3>2, SlotsAre DEF HandleKept, Dead
    <3>4. OtherQuiet'
      BY <2>1, <2>2, <3>1, <3>2 DEF OtherQuiet, Quiet, Dead
    <3> QED
      BY <3>3, <3>4
  <2> QED
    BY <2>3, <2>4
<1> QED
  BY <1>1, <1>2

\* The server task's first and last steps, and its caller's.
LEMMA EndsKeep ==
  ASSUME ConnInv,
         ServerInit \/ ServerLeave \/ ServerDrained \/ ServerDelete \/ Start
  PROVE  ConnInv'
<1> USE DEF ConnInv, Fields
<1>0. UNCHANGED <<current, client, audio>> /\ NewSlot' = NewSlot
      /\ \A j \in Slots : Dead(j)' = Dead(j)
  BY DEF ServerInit, ServerLeave, ServerDrained, ServerDelete, Start, NewSlot, Dead
<1>1. AudioOwned'
  BY <1>0 DEF AudioOwned
<1>2. CASE ServerInit
  <2>1. /\ UNCHANGED broken /\ server.at = "init"
        /\ server' = [at |-> server'.at, conn |-> server'.conn]
        /\ server'.at \in {"accept", "exit"}
        /\ slot' = [j \in Slots |-> [task |-> FALSE, sock |-> NoConn, should_stop |-> FALSE,
                                     is_old |-> FALSE]]
    BY <1>2 DEF ServerInit, FreeSlot
  <2>2. Fields'
    BY <1>0, <2>1
  <2>3. broken = {} => HandleKept' /\ OtherQuiet'
    BY <1>0, <2>1, SlotsAre DEF HandleKept, OtherQuiet, Quiet
  <2> QED
    BY <1>1, <2>1, <2>2, <2>3
<1>3. CASE ServerLeave
  <2>1. /\ UNCHANGED broken /\ server.at = "accept" /\ server'.at = "drain"
        /\ server' = [at |-> server'.at, conn |-> server'.conn]
    BY <1>3 DEF ServerLeave
  <2>2. /\ slot' = [j \in Slots |-> slot'[j]]
        /\ \A j \in Slots :
             /\ slot'[j] = [task |-> slot'[j].task, sock |-> slot'[j].sock,
                            should_stop |-> slot'[j].should_stop, is_old |-> slot'[j].is_old]
             /\ slot'[j].task = slot[j].task
             /\ slot[j].should_stop => slot'[j].should_stop
    <3>1. /\ slot' = [j \in Slots |-> slot'[j]]
          /\ \A j \in Slots : /\ slot[j].task => slot'[j] = Stopped(slot[j])
                              /\ ~slot[j].task => slot'[j] = slot[j]
      BY <1>3 DEF ServerLeave
    <3>2. \A j \in Slots :
            Stopped(slot[j]) = [task |-> slot[j].task, sock |-> slot[j].sock,
                                should_stop |-> TRUE, is_old |-> slot[j].is_old]
      BY StoppedIs
    <3> QED
      BY <3>1, <3>2
  <2>3. Fields'
    BY <1>0, <2>1, <2>2
  <2>4. broken = {} => HandleKept' /\ OtherQuiet'
    BY <1>0, <2>1, <2>2, SlotsAre DEF HandleKept, OtherQuiet, Quiet
  <2> QED
    BY <1>1, <2>1, <2>3, <2>4
<1>4. CASE ServerDrained
  <2>1. /\ UNCHANGED slot /\ server.at = "drain" /\ server'.at = "exit"
        /\ server' = [at |-> server'.at, conn |-> server'.conn]
        /\ broken' = {} => broken = {} /\ \A j \in Slots : ~slot[j].task
    BY <1>4 DEF ServerDrained, Drained
  <2>2. Fields'
    BY <1>0, <2>1
  <2>3. broken' = {} => HandleKept' /\ OtherQuiet'
    BY <1>0, <2>1, SlotsAre DEF HandleKept, OtherQuiet, Quiet
  <2> QED
    BY <1>1, <2>2, <2>3
<1>5. CASE ServerDelete \/ Start
  <2>1. /\ UNCHANGED slot /\ server'.at \in {"none", "init"}
        /\ server' = [at |-> server'.at, conn |-> server'.conn]
        /\ broken' = {} => broken = {} /\ server.at \in {"exit", "none"}
    <3>1. CASE ServerDelete
      BY <3>1 DEF ServerDelete, NoTask
    <3>2. CASE Start
      <4>1. server' = [at |-> "init", conn |-> NoConn] /\ UNCHANGED slot
        BY <3>2 DEF Start, NoTask
      <4>2. broken' = {} => broken = {} /\ server.at = "none"
        BY <3>2 DEF Start
      <4> QED
        BY <4>1, <4>2
    <3> QED
      BY <1>5, <3>1, <3>2
  <2>2. Fields'
    BY <1>0, <2>1
  <2>3. broken' = {} => HandleKept' /\ OtherQuiet'
    BY <1>0, <2>1, SlotsAre DEF HandleKept, OtherQuiet, Quiet
  <2> QED
    BY <1>1, <2>2, <2>3
<1> QED
  BY <1>2, <1>3, <1>4, <1>5

LEMMA ConnStep ==
  ASSUME ConnInv, [Next]_vars
  PROVE  ConnInv'
<1>1. CASE \/ UNCHANGED vars \/ Connect \/ Stop \/ StopReturns
           \/ \E i \in Slots : Disconnect(i)
  <2>1. UNCHANGED <<server, current, slot, client, audio, broken>>
    BY <1>1 DEF vars, Connect, Stop, StopReturns, Disconnect
  <2> QED
    BY <2>1 DEF ConnInv, Fields, AudioOwned, HandleKept, OtherQuiet, Quiet, Dead, NewSlot
<1> QED
  BY <1>1, ClientKeeps, AcceptKeeps, ReplaceKeeps, CreateKeeps, EndsKeep DEF Next, ServerStep

LEMMA ConnStart == Init => ConnInv
BY DEF Init, NoTask, FreeSlot, NoConn, Slots, ConnInv, Fields, AudioOwned, HandleKept,
       OtherQuiet, Dead, Quiet

\* At most one sender is served and what plays has a client that will stop it,
\* however clients are replaced and the server is stopped and started again,
\* as long as no task was left behind or overwritten (server_task, client_task).
THEOREM OneSenderIsServed == Spec => []SessionFollowsClient
<1>1. ConnInv => SessionFollowsClient
  <2> SUFFICES ASSUME ConnInv PROVE SessionFollowsClient
    OBVIOUS
  <2>1. SessionHasClient
    BY DEF ConnInv, AudioOwned, SessionHasClient
  <2>2. ASSUME broken = {},
               NEW i \in Slots, NEW j \in Slots,
               client[i].at \in {"start", "serve"}, ~slot[i].should_stop,
               client[j].at \in {"start", "serve"}, ~slot[j].should_stop
        PROVE  i = j
    <3>1. ~Quiet(i) /\ ~Quiet(j) /\ ~Dead(i)
      BY <2>2 DEF Quiet, Dead
    <3>2. Quiet(current) \/ Quiet(NewSlot)
      BY <2>2, <3>1 DEF ConnInv, Fields, OtherQuiet
    <3> QED
      BY <3>1, <3>2, SlotsAre DEF ConnInv
  <2> QED
    BY <2>1, <2>2 DEF SessionFollowsClient, OneActiveSession
<1> QED
  BY <1>1, ConnStart, ConnStep, PTL DEF Spec

\* When the server task has gone, so have its clients, and nothing plays: a stop
\* leaves nothing behind that a later start could meet (server_task's drain).
THEOREM StopIsComplete == Spec => []StopLeavesNothing
<1>1. ConnInv => StopLeavesNothing
  <2> SUFFICES ASSUME ConnInv, broken = {}, server.at = "none"
               PROVE  /\ \A i \in Slots : client[i].at \in {"none", "failed", "delete"}
                      /\ audio = NoConn
    BY DEF StopLeavesNothing
  <2>1. \A i \in Slots : client[i].at \in {"none", "failed", "delete"}
    BY DEF ConnInv, OtherQuiet, Dead
  <2> QED
    BY <2>1 DEF ConnInv, AudioOwned
<1> QED
  BY <1>1, ConnStart, ConnStep, PTL DEF Spec
=============================================================================
