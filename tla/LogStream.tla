----------------------------- MODULE LogStream ------------------------------
(* Logs over WebSockets: main/network/log_stream.c.  Any task logs into a    *)
(* ring under a mutex it does not wait for, a task sends what the ring holds *)
(* to the clients every 100 ms, and the HTTP task opens and closes sessions. *)
(* Descriptors are reused as soon as a session has closed.                   *)
EXTENDS Naturals, Sequences, Functions

CONSTANTS RingSize,      \* LOG_RING_SIZE
          MaxWsClients,  \* MAX_WS_CLIENTS
          Fds,           \* descriptors the HTTP server has
          Chunk,         \* MAX_SEND_CHUNK
          MaxLogged,     \* bytes that are logged
          MaxOpened,     \* sessions that are opened
          MaxTimeouts    \* waits for the client mutex that time out

VARIABLES
  ring,     \* s_ring as a function, s_head, s_tail
  clients,  \* s_clients up to s_client_count
  open,     \* the server's sessions: plain, WebSocket, or on the way out with
            \* s_client_mutex held, by descriptor
  sweep,    \* how many entries log_stream_session_closed has still to look at
  caster,   \* broadcast_task: what it sends, the client it is at, and whether
            \* it holds s_client_mutex
  logHist   \* bytes logged, bytes that left the ring, the waits that
            \* timed out, sessions so far

logVars == <<ring, clients, open, sweep, caster, logHist>>

Closed == "closed"
Leaving == "leaving"
Idle == [at |-> "sleep", buf |-> << >>, i |-> 0]

Init ==
  /\ ring = [cells |-> [i \in 0 .. RingSize - 1 |-> 0], head |-> 0, tail |-> 0]
  /\ clients = << >>
  /\ open = [f \in Fds |-> Closed] /\ sweep = 0
  /\ caster = Idle
  /\ logHist = [logged |-> 0, read |-> 0, opened |-> 0, late |-> 0]

Used == (ring.head + RingSize - ring.tail) % RingSize

\* Mutant: the ring is taken for full one byte too late
FullLate == Used = RingSize

\* the head is about to meet the tail
Full == (ring.head + 1) % RingSize = ring.tail

\* log_vprintf_hook, ring_write of one byte: a full ring gives up its oldest.
\* A line that meets the mutex held is not logged at all.
Log ==
  /\ logHist.logged < MaxLogged
  /\ ring' = [cells |-> [ring.cells EXCEPT ![ring.head] = logHist.logged + 1],
              head |-> (ring.head + 1) % RingSize,
              tail |-> IF Full THEN (ring.tail + 1) % RingSize ELSE ring.tail]
  /\ logHist' = [logHist EXCEPT !.logged = @ + 1, !.read = IF Full THEN @ + 1 ELSE @]
  /\ UNCHANGED <<clients, open, sweep, caster>>

Contents == [i \in 1 .. Used |-> ring.cells[(ring.tail + i - 1) % RingSize]]

\* broadcast_task: ring_read of a chunk, unless nobody listens
Collect ==
  /\ caster.at = "sleep" /\ clients # << >> /\ Used > 0
  /\ LET n == IF Used > Chunk THEN Chunk ELSE Used IN
     /\ caster' = [at |-> "take", buf |-> SubSeq(Contents, 1, n), i |-> 0]
     /\ ring' = [ring EXCEPT !.tail = (@ + n) % RingSize]
     /\ logHist' = [logHist EXCEPT !.read = @ + n]
  /\ UNCHANGED <<clients, open, sweep>>

\* no session is on its way out: s_client_mutex is free, but for the broadcast
NoneLeaves == \A f \in Fds : open[f] # Leaving

\* it takes s_client_mutex and goes from the last client to the first
Take ==
  /\ caster.at = "take" /\ NoneLeaves
  /\ caster' = [caster EXCEPT !.at = "send", !.i = Len(clients)]
  /\ UNCHANGED <<ring, clients, open, sweep, logHist>>

\* Mutant: the last client goes, whichever was meant
LastRemoved(i) == SubSeq(clients, 1, Len(clients) - 1)

\* remove_client: the last one takes the place
Removed(i) ==
  [j \in 1 .. Len(clients) - 1 |-> IF j = i THEN clients[Len(clients)] ELSE clients[j]]

\* one client: a descriptor that is no WebSocket any more is dropped, and so
\* is one that cannot be sent to
SendOne ==
  /\ caster.at = "send" /\ caster.i > 0
  /\ LET f == clients[caster.i] IN
     /\ \/ open[f] # "ws" /\ clients' = Removed(caster.i)
        \/ open[f] = "ws" /\ clients' \in {clients, Removed(caster.i)}
     /\ caster' = [caster EXCEPT !.i = @ - 1]
  /\ UNCHANGED <<ring, open, sweep, logHist>>

\* it gives the mutex back
Give ==
  /\ caster.at = "send" /\ caster.i = 0
  /\ caster' = Idle
  /\ UNCHANGED <<ring, clients, open, sweep, logHist>>

\* a session opens: a page or a request
Open ==
  /\ NoneLeaves /\ logHist.opened < MaxOpened
  /\ \E f \in Fds : open[f] = Closed /\ open' = [open EXCEPT ![f] = "http"]
  /\ logHist' = [logHist EXCEPT !.opened = @ + 1]
  /\ UNCHANGED <<ring, clients, sweep, caster>>

\* ws_log_handler: the handshake of an authorised client, refused when the
\* table is full; a wait of 100 ms for the mutex, which a send may outlast
Handshake ==
  /\ NoneLeaves
  /\ \E f \in Fds :
       /\ open[f] = "http"
       /\ IF caster.at # "send" /\ Len(clients) < MaxWsClients
          THEN open' = [open EXCEPT ![f] = "ws"] /\ clients' = Append(clients, f)
          ELSE open' = [open EXCEPT ![f] = Closed] /\ UNCHANGED clients
  /\ UNCHANGED <<ring, sweep, caster, logHist>>

\* log_stream_session_closed: the wait for the mutex succeeds, or times out
\* while the broadcast sends, and the descriptor's entries stay
Close ==
  /\ NoneLeaves
  /\ \E f \in Fds :
       /\ open[f] # Closed
       /\ IF caster.at # "send"
          THEN /\ open' = [open EXCEPT ![f] = Leaving] /\ sweep' = Len(clients)
               /\ UNCHANGED logHist
          ELSE /\ logHist.late < MaxTimeouts
               /\ logHist' = [logHist EXCEPT !.late = @ + 1]
               /\ open' = [open EXCEPT ![f] = Closed] /\ UNCHANGED sweep
  /\ UNCHANGED <<ring, clients, caster>>

\* every entry of the descriptor is dropped, from the last to the first
Sweep ==
  /\ sweep > 0 /\ sweep' = sweep - 1
  /\ \E f \in Fds :
       /\ open[f] = Leaving
       /\ clients' = IF clients[sweep] = f THEN Removed(sweep) ELSE clients
  /\ UNCHANGED <<ring, open, caster, logHist>>

\* web_session_close: the descriptor is free for the next session
Left ==
  /\ sweep = 0
  /\ \E f \in Fds : open[f] = Leaving /\ open' = [open EXCEPT ![f] = Closed]
  /\ UNCHANGED <<ring, clients, sweep, caster, logHist>>

Next ==
  \/ Log \/ Collect \/ Take \/ SendOne \/ Give \/ Open \/ Handshake \/ Close
  \/ Sweep \/ Left

\* The ring holds what was logged last, in order: nothing is lost but the
\* oldest, and only when RingSize - 1 bytes wait (ring_write, ring_read).
RingHoldsNewest ==
  /\ Contents = [i \in 1 .. logHist.logged - logHist.read |-> logHist.read + i]
  /\ Used <= RingSize - 1

\* No client is listed twice, so none is sent a line twice, unless a close could
\* not wait for the mutex (log_stream_session_closed, broadcast_task).
ClientsListedOnce ==
  logHist.late = 0 => IsInjective(clients)

\* The log that is streamed is the newest, once to each client (log_stream.c).
LogStreamedOnce == RingHoldsNewest /\ ClientsListedOnce
=============================================================================
