------------------------- MODULE StreamSessionProofs -------------------------
(* Theorems about StreamSession, for any number of requests, connections and *)
(* steps of the stream tasks.                                                *)
EXTENDS StreamSession, FiniteSetTheorems, SequenceTheorems, TLAPS

StreamOf(t) == IF t = "tcp" THEN "buffered" ELSE "realtime"

-----------------------------------------------------------------------------
(* The shape of what is left of a handler: the programs of the requests, the *)
(* first operation perhaps expanded.                                         *)
Ops ==
  [op : {"select", "assign", "stop", "tick", "start", "listen", "play", "resume", "pause"},
   on : Streams]
  \cup [op : {"join", "spawn", "handle"}, on : Tasks]
  \cup [op : {"format", "destroy", "key", "wipe", "torn", "free"},
        on : {"decoder", "key", "streams", "session", "conn"}]

Has(q, op, on) == \E i \in 1 .. Len(q) : q[i].op = op /\ q[i].on = on
Some(q, ops) == \E i \in 1 .. Len(q) : q[i].op \in ops

\* y may follow x.
Follows(x, y) ==
  \/ y.op = "format" /\ x.op \in {"select", "assign"}
  \/ y.op = "key" /\ x.op = "format"
  \/ y.op = "select" /\ x.op \in {"format", "key", "select", "assign", "listen", "handle"}
  \/ y.op = "assign" /\ x.op \in {"stop", "tick"}
  \/ y.op = "stop" /\ y.on = "realtime" /\ x.op \in {"select", "assign"}
  \/ y.op = "stop" /\ y.on = "buffered" /\ x.op \in {"stop", "tick"}
  \/ y.op = "start" /\ y.on = "realtime" /\ x.op \in {"stop", "tick"} /\ x.on = "realtime"
  \/ y.op = "start" /\ y.on = "buffered" /\ x.op \in {"select", "assign"}
  \/ y.op = "listen" /\ y.on = "buffered" /\ x.op \in {"select", "assign"}
  \/ y.op = "join" /\ y.on = "ctrl" /\ x.op = "join" /\ x.on = "recv"
  \/ y.op = "tick" /\ x.op = "join" /\ x.on # "recv"
  \/ y.op = "spawn" /\ y.on = "ctrl" /\ x.op = "handle" /\ x.on = "recv"
  \/ y.op = "handle" /\ x.op = "spawn" /\ x.on = y.on
  \/ y.op \in {"play", "resume"} /\ x.op \in {"start", "handle"}
  \/ y.op = "destroy" /\ x.op \in {"stop", "tick"}
  \/ y.op = "wipe" /\ x.op = "destroy"
  \/ y.op \in {"torn", "free"} /\ x.op = "wipe"

\* The end of a session, what names its stream, and what ends a handler.
Closing == {"destroy", "wipe", "torn", "free"}
Naming == {"select", "assign", "start", "listen"}
Final == {"select", "assign", "key", "play", "resume", "pause", "torn", "free"}

\* y may come later than x.
Precedes(x, y) ==
  /\ y.op \in {"join", "tick"} => x.op = "join"
  /\ y.op \in {"spawn", "handle"} => x.op \in {"spawn", "handle"}
  /\ y.op = "assign" => x.op \in {"stop", "join", "tick"}
  /\ y.op \in Closing => x.op \in Closing \cup {"stop", "join", "tick"}
  /\ x.op \in Closing => y.op \in Closing
  /\ x.op \in Naming /\ y.op \in Naming => x.on = y.on
  /\ x.op \in {"listen", "start", "spawn", "handle"} => y.op \notin {"format", "key"}
  /\ x.op = "spawn" /\ y.op = "spawn" => x.on # y.on
  /\ x.op = "join" /\ y.op = "join" => x.on = "recv" /\ y.on = "ctrl"
  /\ x.op = "start" => y.op \in {"play", "resume"}
  /\ x.op \notin {"play", "resume", "pause", "torn", "free"}

Shape(q) ==
  /\ q \in Seq(Ops)
  /\ \A i \in 1 .. Len(q) : i + 1 <= Len(q) => Follows(q[i], q[i + 1])
  /\ \A i, j \in 1 .. Len(q) : i < j => Precedes(q[i], q[j])
  /\ q # <<>> => q[Len(q)].op \in Final

-----------------------------------------------------------------------------
(* The state.                                                                *)
Fields ==
  /\ conn = [version |-> conn.version, announced |-> conn.announced, type |-> conn.type,
             active |-> conn.active, paused |-> conn.paused]
  /\ stream \in Streams /\ running \in [Streams -> BOOLEAN]
  /\ task = [t \in Tasks |-> task[t]] /\ handle \in [Tasks -> BOOLEAN]
  /\ \A t \in Tasks :
       /\ task[t] = [at |-> task[t].at, clear |-> task[t].clear, dec |-> task[t].dec]
       /\ task[t].at \in {"none", "accept", "accepted", "run", "packet", "decode", "exit"}
  /\ key \in BOOLEAN

\* The stream that is stopped for another one is the current one.
Switching(q, current) ==
  \A i \in 1 .. Len(q) :
    i + 1 <= Len(q) /\ q[i].op = "stop" /\ q[i + 1].op = "assign" => q[i].on = current

\* Only the current stream runs, and none while one is stopped or switched.
OnlyCurrent ==
  /\ \A s \in Streams : running[s] => s = stream
  /\ todo # <<>> =>
       /\ todo[1].op \in {"join", "tick", "assign"} => \A s \in Streams : ~running[s]
       /\ todo[1].op = "start" /\ todo[1].on = "realtime" => ~running["realtime"]
       /\ todo[1].op \in {"spawn", "handle"} => running[StreamOf(todo[1].on)]
       /\ todo[1].op = "listen" => stream = "buffered"
  /\ Switching(todo, stream)
  /\ Some(todo, Closing) => \A s \in Streams : ~Has(todo, "stop", s) => ~running[s]
  /\ \A s \in Streams : Has(todo, "start", s) => stream = s \/ Some(todo, {"select", "assign"})

\* A task that serves belongs to a stream that runs or is being stopped, and its
\* handle is known; a task that is there at all has not been forgotten.
TasksKnown ==
  /\ "overrun" \notin excuse =>
       \A t \in Tasks : Alive(t) => running[StreamOf(t)] \/ Has(todo, "join", t)
  /\ \A t \in Tasks : Alive(t) => handle[t] \/ Has(todo, "handle", t)
  /\ excuse = {} =>
       \A t \in Tasks :
         /\ task[t].at # "none" => running[StreamOf(t)] \/ Has(todo, "tick", StreamOf(t))
         /\ Has(todo, "spawn", t) => task[t].at = "none"
         /\ handle[t] => Alive(t)
  /\ reused => excuse # {}

\* Who serves can decrypt: the key outlives the tasks, and is there before them.
KeyHeld ==
  /\ "overrun" \notin excuse =>
       \A t \in Feeders : /\ Alive(t) => key
                          /\ task[t].at \in {"packet", "decode"} => ~task[t].clear
  /\ Some(todo, {"start", "listen", "spawn", "play"}) => key \/ Some(todo, {"key"})
  /\ conn.active \/ conn.announced => key \/ Some(todo, {"key"}) \/ Some(todo, Closing)

DecoderHeld ==
  /\ \A t \in Feeders : task[t].at = "decode" => task[t].dec = decoder
  /\ ~(task["recv"].at = "decode" /\ task["tcp"].at = "decode")

SocketsKnown ==
  /\ "recv" \in stacks /\ sock \cap {"data", "control"} # {} => running["realtime"]
  /\ "listen" \in sock => running["buffered"]
  /\ "client" \in sock => task["tcp"].at \in {"accepted", "run", "packet", "decode"}

\* A session of AirPlay 2 has its stream, or is about to have it, or to end.
StreamKept ==
  /\ excuse = {} =>
       /\ running["buffered"] => Alive("tcp") \/ Has(todo, "spawn", "tcp")
       /\ running["realtime"] /\ ~failed => Alive("recv") \/ Has(todo, "spawn", "recv")
  /\ conn.version = 2 =>
       /\ conn.type \in Streams
       /\ stream = conn.type \/ Some(todo, {"select", "assign"})
       /\ \A s \in Streams : Has(todo, "select", s) \/ Has(todo, "assign", s) => s = conn.type
       /\ Some(todo, {"select", "assign", "stop"}) => Some(todo, {"start"} \cup Closing)
       /\ conn.active \/ Some(todo, {"play"}) =>
            failed \/ running[stream] \/ Some(todo, {"start", "listen"} \cup Closing)

SessInv ==
  /\ Shape(todo) /\ Fields /\ OnlyCurrent /\ TasksKnown /\ KeyHeld /\ DecoderHeld
  /\ SocketsKnown /\ StreamKept

-----------------------------------------------------------------------------
(* What is left of a handler.                                                *)

\* An operation is on a stream or on a task.
LEMMA OpsOn ==
  ASSUME NEW x \in Ops
  PROVE  /\ x.op \in {"select", "assign", "stop", "tick", "start", "listen"} => x.on \in Streams
         /\ x.op \in {"join", "spawn", "handle"} => x.on \in Tasks
<1>1. CASE x \in [op : {"select", "assign", "stop", "tick", "start", "listen", "play",
                        "resume", "pause"}, on : Streams]
  BY <1>1
<1>2. CASE x \in [op : {"join", "spawn", "handle"}, on : Tasks]
  BY <1>2
<1>3. CASE x \in [op : {"format", "destroy", "key", "wipe", "torn", "free"},
                  on : {"decoder", "key", "streams", "session", "conn"}]
  BY <1>3
<1>4. QED BY <1>1, <1>2, <1>3 DEF Ops

\* The operation in progress and the rest.
LEMMA Rest ==
  ASSUME NEW q \in Seq(Ops), q # <<>>
  PROVE  /\ Tail(q) \in Seq(Ops) /\ Len(q) \in Nat /\ Len(q) >= 1
         /\ Len(Tail(q)) = Len(q) - 1
         /\ \A i \in 1 .. Len(Tail(q)) : Tail(q)[i] = q[i + 1]
         /\ Head(q) = q[1] /\ q[1] \in Ops
         /\ <<>> \o Tail(q) = Tail(q)
<1>1. /\ Tail(q) \in Seq(Ops) /\ Len(Tail(q)) = Len(q) - 1
      /\ \A i \in 1 .. Len(Tail(q)) : Tail(q)[i] = q[i + 1]
  BY HeadTailProperties, Zenon
<1>2. Len(q) \in Nat /\ Len(q) >= 1
  BY EmptySeq
<1>3. Head(q) = q[1] /\ q[1] \in Ops
  BY <1>2, ElementOfSeq
<1>4. <<>> \o Tail(q) = Tail(q)
  BY <1>1, ConcatEmptySeq
<1>5. QED BY <1>1, <1>2, <1>3, <1>4

\* A program before the rest.
LEMMA Before ==
  ASSUME NEW p \in Seq(Ops), NEW r \in Seq(Ops)
  PROVE  /\ p \o r \in Seq(Ops) /\ Len(p) \in Nat /\ Len(r) \in Nat
         /\ Len(p \o r) = Len(p) + Len(r)
         /\ \A i \in 1 .. Len(p) : (p \o r)[i] = p[i]
         /\ \A i \in 1 .. Len(r) : (p \o r)[Len(p) + i] = r[i]
         /\ \A i \in 1 .. Len(p \o r) :
              \/ i \in 1 .. Len(p) /\ (p \o r)[i] = p[i]
              \/ i - Len(p) \in 1 .. Len(r) /\ (p \o r)[i] = r[i - Len(p)]
<1>1. /\ p \o r \in Seq(Ops)
      /\ Len(p \o r) = Len(p) + Len(r)
      /\ \A i \in 1 .. Len(p) + Len(r) : (p \o r)[i] =
                     IF i <= Len(p) THEN p[i] ELSE r[i - Len(p)]
  BY ConcatProperties, Zenon
<1>2. Len(p) \in Nat /\ Len(r) \in Nat
  BY LenProperties
<1>3. QED BY <1>1, <1>2

\* What is in the rest.
LEMMA HasRest ==
  ASSUME NEW q \in Seq(Ops), q # <<>>
  PROVE  /\ \A op, on : Has(q, op, on) <=>
              (q[1].op = op /\ q[1].on = on) \/ Has(Tail(q), op, on)
         /\ \A ops : Some(q, ops) <=> q[1].op \in ops \/ Some(Tail(q), ops)
<1>1. \A i \in 1 .. Len(q) : i = 1 \/ (i - 1 \in 1 .. Len(Tail(q)) /\ q[i] = Tail(q)[i - 1])
  BY Rest
<1>2. \A i \in 1 .. Len(Tail(q)) : i + 1 \in 1 .. Len(q) /\ Tail(q)[i] = q[i + 1]
  BY Rest
<1>3. 1 \in 1 .. Len(q)
  BY Rest
<1>4. QED BY <1>1, <1>2, <1>3, ZenonT(40) DEF Has, Some

\* What is in a program before the rest.
LEMMA HasBefore ==
  ASSUME NEW p \in Seq(Ops), NEW r \in Seq(Ops)
  PROVE  /\ \A op, on : Has(p \o r, op, on) <=> Has(p, op, on) \/ Has(r, op, on)
         /\ \A ops : Some(p \o r, ops) <=> Some(p, ops) \/ Some(r, ops)
<1>1. \A i \in 1 .. Len(p \o r) :
        \/ i \in 1 .. Len(p) /\ (p \o r)[i] = p[i]
        \/ i - Len(p) \in 1 .. Len(r) /\ (p \o r)[i] = r[i - Len(p)]
  BY Before
<1>2. \A i \in 1 .. Len(p) : i \in 1 .. Len(p \o r) /\ (p \o r)[i] = p[i]
  BY Before
<1>3. \A i \in 1 .. Len(r) : Len(p) + i \in 1 .. Len(p \o r) /\ (p \o r)[Len(p) + i] = r[i]
  BY Before
<1> DEFINE q == p \o r
<1> HIDE DEF q
<1>4. ASSUME NEW op, NEW on
      PROVE  Has(q, op, on) <=> Has(p, op, on) \/ Has(r, op, on)
  <2>1. Has(q, op, on) => Has(p, op, on) \/ Has(r, op, on)
    BY <1>1 DEF Has, q
  <2>2. Has(p, op, on) => Has(q, op, on)
    BY <1>2, Zenon DEF Has, q
  <2>3. Has(r, op, on) => Has(q, op, on)
    BY <1>3, Zenon DEF Has, q
  <2>4. QED BY <2>1, <2>2, <2>3
<1>5. ASSUME NEW ops
      PROVE  Some(q, ops) <=> Some(p, ops) \/ Some(r, ops)
  <2>1. Some(q, ops) => Some(p, ops) \/ Some(r, ops)
    BY <1>1 DEF Some, q
  <2>2. Some(p, ops) => Some(q, ops)
    BY <1>2, Zenon DEF Some, q
  <2>3. Some(r, ops) => Some(q, ops)
    BY <1>3, Zenon DEF Some, q
  <2>4. QED BY <2>1, <2>2, <2>3
<1>6. QED BY <1>4, <1>5, Zenon DEF q

\* What is in nothing.
LEMMA HasNothing ==
  /\ \A op, on : ~Has(<<>>, op, on)
  /\ \A ops : ~Some(<<>>, ops)
BY DEF Has, Some

\* The rest keeps the shape.
LEMMA ShapeRest ==
  ASSUME NEW q, Shape(q), q # <<>>
  PROVE  /\ Shape(Tail(q))
         /\ Tail(q) # <<>> => Follows(q[1], Tail(q)[1])
         /\ \A j \in 1 .. Len(Tail(q)) : Precedes(q[1], Tail(q)[j])
         /\ Tail(q) = <<>> => q[1].op \in Final
<1> DEFINE r == Tail(q)
<1>1. q \in Seq(Ops)
  BY DEF Shape
<1>2. /\ r \in Seq(Ops) /\ Len(q) \in Nat /\ Len(q) >= 1 /\ Len(r) = Len(q) - 1
      /\ \A i \in 1 .. Len(r) : r[i] = q[i + 1]
  BY <1>1, Rest
<1>3. r # <<>> => Len(r) >= 1
  BY <1>2, EmptySeq
<1> HIDE DEF r
<1>4. r = <<>> => Len(r) = 0
  OBVIOUS
<1>5. \A i \in 1 .. Len(r) : i + 1 <= Len(r) => Follows(r[i], r[i + 1])
  <2> SUFFICES ASSUME NEW i \in 1 .. Len(r), i + 1 <= Len(r)
               PROVE  Follows(r[i], r[i + 1])
    OBVIOUS
  <2>1. i + 1 \in 1 .. Len(q) /\ (i + 1) + 1 <= Len(q)
    BY <1>2
  <2>2. Follows(q[i + 1], q[(i + 1) + 1])
    BY <2>1 DEF Shape
  <2>3. r[i] = q[i + 1] /\ r[i + 1] = q[(i + 1) + 1]
    BY <1>2
  <2>4. QED BY <2>2, <2>3
<1>6. \A i, j \in 1 .. Len(r) : i < j => Precedes(r[i], r[j])
  <2> SUFFICES ASSUME NEW i \in 1 .. Len(r), NEW j \in 1 .. Len(r), i < j
               PROVE  Precedes(r[i], r[j])
    OBVIOUS
  <2>1. i + 1 \in 1 .. Len(q) /\ j + 1 \in 1 .. Len(q) /\ i + 1 < j + 1
    BY <1>2
  <2>2. Precedes(q[i + 1], q[j + 1])
    BY <2>1 DEF Shape
  <2>3. QED BY <1>2, <2>2
<1>7. r # <<>> => r[Len(r)].op \in Final
  <2>1. r # <<>> => r[Len(r)] = q[Len(q)]
    BY <1>2, <1>3
  <2>2. QED BY <2>1 DEF Shape
<1>8. r # <<>> => Follows(q[1], r[1])
  <2>1. r # <<>> => 1 \in 1 .. Len(q) /\ 1 + 1 <= Len(q) /\ r[1] = q[1 + 1]
    BY <1>2, <1>3
  <2>2. QED BY <2>1 DEF Shape
<1>9. \A j \in 1 .. Len(r) : Precedes(q[1], r[j])
  <2> SUFFICES ASSUME NEW j \in 1 .. Len(r)
               PROVE  Precedes(q[1], r[j])
    OBVIOUS
  <2>1. 1 \in 1 .. Len(q) /\ j + 1 \in 1 .. Len(q) /\ 1 < j + 1
    BY <1>2
  <2>2. Precedes(q[1], q[j + 1])
    BY <2>1 DEF Shape
  <2>3. QED BY <1>2, <2>2
<1>10. r = <<>> => q[1].op \in Final
  <2>1. r = <<>> => Len(q) = 1
    BY <1>2, <1>4
  <2>2. QED BY <2>1 DEF Shape
<1>11. Shape(r)
  BY <1>2, <1>5, <1>6, <1>7 DEF Shape
<1>12. QED BY <1>8, <1>9, <1>10, <1>11 DEF r

\* So does an operation before it that fits.
LEMMA ShapeBefore ==
  ASSUME NEW x \in Ops, NEW r, Shape(r),
         r # <<>> => Follows(x, r[1]),
         \A j \in 1 .. Len(r) : Precedes(x, r[j]),
         r = <<>> => x.op \in Final
  PROVE  /\ Shape(<<x>> \o r)
         /\ <<x>> \o r # <<>> /\ (<<x>> \o r)[1] = x /\ Tail(<<x>> \o r) = r
         /\ \A i \in 1 .. Len(<<x>> \o r) :
              i = 1 \/ (i - 1 \in 1 .. Len(r) /\ (<<x>> \o r)[i] = r[i - 1])
<1> DEFINE q == <<x>> \o r
<1>1. r \in Seq(Ops) /\ <<x>> \in Seq(Ops) /\ Len(<<x>>) = 1 /\ <<x>>[1] = x
  BY DEF Shape
<1>2. /\ q \in Seq(Ops) /\ Len(r) \in Nat /\ Len(q) = 1 + Len(r) /\ q[1] = x
      /\ \A i \in 1 .. Len(r) : q[1 + i] = r[i]
      /\ \A i \in 1 .. Len(q) : i = 1 \/ (i - 1 \in 1 .. Len(r) /\ q[i] = r[i - 1])
  <2>1. /\ q \in Seq(Ops) /\ Len(r) \in Nat /\ Len(q) = Len(<<x>>) + Len(r)
        /\ \A i \in 1 .. Len(<<x>>) : q[i] = <<x>>[i]
        /\ \A i \in 1 .. Len(r) : q[Len(<<x>>) + i] = r[i]
    BY <1>1, Before
  <2> HIDE DEF q
  <2>2. Len(q) = 1 + Len(r) /\ q[1] = x /\ \A i \in 1 .. Len(r) : q[1 + i] = r[i]
    BY <1>1, <2>1
  <2>3. \A i \in 1 .. Len(q) : i = 1 \/ (i - 1 \in 1 .. Len(r) /\ q[i] = q[1 + (i - 1)])
    BY <2>1, <2>2
  <2>4. QED BY <2>1, <2>2, <2>3
<1>3. q # <<>>
  <2> HIDE DEF q
  <2>1. QED BY <1>2
<1>4. r # <<>> => Len(r) >= 1
  BY <1>1, EmptySeq
<1>5. r = <<>> => Len(r) = 0
  OBVIOUS
<1> HIDE DEF q
<1>6. \A i \in 1 .. Len(q) : i + 1 <= Len(q) => Follows(q[i], q[i + 1])
  <2> SUFFICES ASSUME NEW i \in 1 .. Len(q), i + 1 <= Len(q)
               PROVE  Follows(q[i], q[i + 1])
    OBVIOUS
  <2>1. CASE i = 1
    <3>1. q[i] = x /\ q[i + 1] = r[1] /\ r # <<>>
      BY <1>2, <1>5, <2>1
    <3>2. QED BY <3>1
  <2>2. CASE i # 1
    <3>1. i - 1 \in 1 .. Len(r) /\ (i - 1) + 1 <= Len(r)
      BY <1>2, <2>2
    <3>2. Follows(r[i - 1], r[(i - 1) + 1])
      BY <3>1 DEF Shape
    <3>3. q[i] = r[i - 1] /\ q[i + 1] = r[(i - 1) + 1]
      BY <1>2, <2>2
    <3>4. QED BY <3>2, <3>3
  <2>3. QED BY <2>1, <2>2
<1>7. \A i, j \in 1 .. Len(q) : i < j => Precedes(q[i], q[j])
  <2> SUFFICES ASSUME NEW i \in 1 .. Len(q), NEW j \in 1 .. Len(q), i < j
               PROVE  Precedes(q[i], q[j])
    OBVIOUS
  <2>1. j - 1 \in 1 .. Len(r) /\ q[j] = r[j - 1]
    BY <1>2
  <2>2. CASE i = 1
    BY <1>2, <2>1, <2>2
  <2>3. CASE i # 1
    <3>1. i - 1 \in 1 .. Len(r) /\ q[i] = r[i - 1] /\ i - 1 < j - 1
      BY <1>2, <2>3
    <3>2. Precedes(r[i - 1], r[j - 1])
      BY <2>1, <3>1 DEF Shape
    <3>3. QED BY <2>1, <3>1, <3>2
  <2>4. QED BY <2>2, <2>3
<1>8. q[Len(q)].op \in Final
  <2>1. CASE r = <<>>
    BY <1>2, <1>5, <2>1
  <2>2. CASE r # <<>>
    <3>1. q[Len(q)] = r[Len(r)]
      BY <1>2, <1>4, <2>2
    <3>2. QED BY <2>2, <3>1 DEF Shape
  <2>3. QED BY <2>1, <2>2
<1>9. Tail(q) = r
  <2>1. /\ Tail(q) \in Seq(Ops) /\ Len(Tail(q)) = Len(q) - 1
        /\ \A i \in 1 .. Len(Tail(q)) : Tail(q)[i] = q[i + 1]
    BY <1>2, <1>3, Rest
  <2>2. Len(Tail(q)) = Len(r) /\ \A i \in 1 .. Len(Tail(q)) : Tail(q)[i] = r[i]
    BY <1>2, <2>1
  <2>3. QED BY <1>1, <2>1, <2>2, SeqEqual
<1>10. Shape(q)
  BY <1>2, <1>6, <1>7, <1>8 DEF Shape
<1>11. QED BY <1>2, <1>3, <1>9, <1>10 DEF q

\* What an operation says about what comes after it.
Later(x, r) ==
  /\ \A t : Has(r, "join", t) \/ Has(r, "tick", t) => x.op = "join"
  /\ \A t : Has(r, "spawn", t) \/ Has(r, "handle", t) => x.op \in {"spawn", "handle"}
  /\ \A s : Has(r, "assign", s) => x.op \in {"stop", "join", "tick"}
  /\ Some(r, Closing) => x.op \in Closing \cup {"stop", "join", "tick"}
  /\ x.op \in Closing =>
       /\ \A s : ~Has(r, "stop", s) /\ ~Has(r, "start", s)
       /\ ~Some(r, {"start", "listen", "spawn", "play"})
  /\ x.op \in Naming =>
       \A s : Has(r, "select", s) \/ Has(r, "assign", s) \/ Has(r, "start", s) => x.on = s
  /\ x.op \in {"listen", "start", "spawn", "handle"} => ~Some(r, {"key"})
  /\ x.op = "spawn" => ~Has(r, "spawn", x.on)
  /\ x.op = "start" => /\ ~Some(r, {"select", "assign"}) /\ ~Some(r, {"select", "assign", "stop"})
                       /\ ~Some(r, Closing) /\ \A s : ~Has(r, "start", s)
  /\ x.op \in {"play", "resume", "pause", "torn", "free"} => r = <<>>

LEMMA LaterHolds ==
  ASSUME NEW x, NEW r \in Seq(Ops), \A j \in 1 .. Len(r) : Precedes(x, r[j])
  PROVE  Later(x, r)
<1>1. \A t : Has(r, "join", t) \/ Has(r, "tick", t) => x.op = "join"
  BY DEF Has, Precedes
<1>2. \A t : Has(r, "spawn", t) \/ Has(r, "handle", t) => x.op \in {"spawn", "handle"}
  BY DEF Has, Precedes
<1>3. \A s : Has(r, "assign", s) => x.op \in {"stop", "join", "tick"}
  BY DEF Has, Precedes
<1>4. Some(r, Closing) => x.op \in Closing \cup {"stop", "join", "tick"}
  BY DEF Some, Precedes
<1>5. x.op \in Closing =>
       /\ \A s : ~Has(r, "stop", s) /\ ~Has(r, "start", s)
       /\ ~Some(r, {"start", "listen", "spawn", "play"})
  BY DEF Has, Some, Precedes, Closing
<1>6. x.op \in Naming =>
       \A s : Has(r, "select", s) \/ Has(r, "assign", s) \/ Has(r, "start", s) => x.on = s
  BY DEF Has, Precedes, Naming
<1>7. x.op \in {"listen", "start", "spawn", "handle"} => ~Some(r, {"key"})
  BY DEF Some, Precedes
<1>8. x.op = "spawn" => ~Has(r, "spawn", x.on)
  BY DEF Has, Precedes
<1>9. x.op = "start" => /\ ~Some(r, {"select", "assign"}) /\ ~Some(r, {"select", "assign", "stop"})
                        /\ ~Some(r, Closing) /\ \A s : ~Has(r, "start", s)
  BY DEF Has, Some, Precedes, Closing
<1>10. x.op \in {"play", "resume", "pause", "torn", "free"} => r = <<>>
  <2>1. r # <<>> => 1 \in 1 .. Len(r)
    BY EmptySeq
  <2>2. QED BY <2>1 DEF Precedes
<1>11. QED BY <1>1, <1>2, <1>3, <1>4, <1>5, <1>6, <1>7, <1>8, <1>9, <1>10 DEF Later

\* What is left after the operation in progress.
Left(x, q, r) ==
  /\ Shape(r) /\ r \in Seq(Ops) /\ x \in Ops
  /\ r # <<>> => Follows(x, r[1])
  /\ \A j \in 1 .. Len(r) : Precedes(x, r[j])
  /\ r = <<>> => x.op \in Final
  /\ Later(x, r)
  /\ \A op, on : Has(q, op, on) <=> (x.op = op /\ x.on = on) \/ Has(r, op, on)
  /\ \A ops : Some(q, ops) <=> x.op \in ops \/ Some(r, ops)
  /\ \A i \in 1 .. Len(r) : i + 1 <= Len(r) =>
       i + 1 \in 1 .. Len(q) /\ (i + 1) + 1 <= Len(q) /\ r[i] = q[i + 1]
       /\ r[i + 1] = q[(i + 1) + 1]
  /\ r # <<>> => 1 \in 1 .. Len(q) /\ 1 + 1 <= Len(q) /\ r[1] = q[1 + 1]

LEMMA IsLeft ==
  ASSUME NEW q, Shape(q), q # <<>>
  PROVE  Head(q) = q[1] /\ Left(q[1], q, Tail(q))
<1>1. q \in Seq(Ops)
  BY DEF Shape
<1> DEFINE r == Tail(q)
<1>2. /\ r \in Seq(Ops) /\ Len(q) \in Nat /\ Len(q) >= 1 /\ Len(r) = Len(q) - 1
      /\ \A i \in 1 .. Len(r) : r[i] = q[i + 1]
      /\ Head(q) = q[1] /\ q[1] \in Ops
  BY <1>1, Rest
<1>3. /\ Shape(r) /\ (r # <<>> => Follows(q[1], r[1]))
      /\ \A j \in 1 .. Len(r) : Precedes(q[1], r[j])
      /\ r = <<>> => q[1].op \in Final
  BY ShapeRest
<1>4. /\ \A op, on : Has(q, op, on) <=> (q[1].op = op /\ q[1].on = on) \/ Has(r, op, on)
      /\ \A ops : Some(q, ops) <=> q[1].op \in ops \/ Some(r, ops)
  BY <1>1, HasRest
<1>5. r # <<>> => Len(r) >= 1
  BY <1>2, EmptySeq
<1> HIDE DEF r
<1>6. Later(q[1], r)
  BY <1>2, <1>3, LaterHolds
<1>7. \A i \in 1 .. Len(r) : i + 1 <= Len(r) =>
        i + 1 \in 1 .. Len(q) /\ (i + 1) + 1 <= Len(q) /\ r[i] = q[i + 1]
        /\ r[i + 1] = q[(i + 1) + 1]
  BY <1>2
<1>8. r # <<>> => 1 \in 1 .. Len(q) /\ 1 + 1 <= Len(q) /\ r[1] = q[1 + 1]
  BY <1>2, <1>5
<1>9. Left(q[1], q, r)
  BY <1>2, <1>3, <1>4, <1>6, <1>7, <1>8 DEF Left
<1>10. QED BY <1>2, <1>9 DEF r

\* The client task goes on to the next operation.
LEMMA Dropping ==
  ASSUME Shape(todo), todo # <<>>, Then(<<>>)
  PROVE  /\ Head(todo) = todo[1] /\ On = todo[1].on
         /\ todo' = Tail(todo) /\ Left(todo[1], todo, todo')
<1>1. todo \in Seq(Ops)
  BY DEF Shape
<1>2. todo' = Tail(todo)
  BY <1>1, Rest DEF Then
<1>3. QED BY <1>2, IsLeft DEF On

\* It does so with what it waited for or did: only the current stream runs.
LEMMA OnlyCurrentRest ==
  ASSUME Shape(todo), todo # <<>>, Left(todo[1], todo, todo'), Fields, OnlyCurrent,
         UNCHANGED <<stream, running>>, todo[1].op # "assign",
         todo[1].op = "select" => todo[1].on = stream,
         todo[1].op = "stop" => ~running[todo[1].on]
  PROVE  OnlyCurrent'
<1>1. \A s \in Streams : running[s] => s = stream
  BY DEF OnlyCurrent
<1>2. todo' # <<>> => Follows(todo[1], todo'[1])
  BY DEF Left
<1>3. todo[1] \in Ops
  BY DEF Left
<1>4. todo' # <<>> /\ todo'[1].op \in {"join", "tick", "assign"} => \A s \in Streams : ~running[s]
  <2>1. CASE todo[1].op \in {"join", "tick"}
    BY <2>1 DEF OnlyCurrent
  <2>2. CASE todo[1].op = "stop" /\ todo' # <<>> /\ todo'[1].op = "assign"
    <3>1. 1 \in 1 .. Len(todo) /\ 1 + 1 <= Len(todo) /\ todo'[1] = todo[1 + 1]
      BY <2>2 DEF Left
    <3>2. todo[1].on = stream
      BY <2>2, <3>1 DEF OnlyCurrent, Switching
    <3>3. QED BY <1>1, <2>2, <3>2
  <2>3. QED BY <1>2, <2>1, <2>2 DEF Follows
<1>5. todo' # <<>> /\ todo'[1].op = "start" /\ todo'[1].on = "realtime" => ~running["realtime"]
  <2>1. CASE todo[1].op = "tick"
    BY <2>1 DEF OnlyCurrent, Streams
  <2>2. QED BY <1>2, <2>1 DEF Follows
<1>6. todo' # <<>> /\ todo'[1].op \in {"spawn", "handle"} => running[StreamOf(todo'[1].on)]
  <2>1. todo' # <<>> /\ todo'[1].op \in {"spawn", "handle"} =>
          todo[1].op \in {"spawn", "handle"} /\ StreamOf(todo[1].on) = StreamOf(todo'[1].on)
    BY <1>2 DEF Follows, StreamOf
  <2>2. QED BY <2>1 DEF OnlyCurrent
<1>7. todo' # <<>> /\ todo'[1].op = "listen" => stream = "buffered"
  <2> SUFFICES ASSUME todo' # <<>>, todo'[1].op = "listen" PROVE stream = "buffered"
    OBVIOUS
  <2>1. todo[1].op = "select" /\ todo'[1].on = "buffered" /\ todo[1].on = stream
    BY <1>2 DEF Follows
  <2>2. 1 \in 1 .. Len(todo')
    BY EmptySeq DEF Left
  <2>3. Precedes(todo[1], todo'[1])
    BY <2>2 DEF Left
  <2>4. QED BY <2>1, <2>3 DEF Precedes, Naming
<1>8. Switching(todo', stream)
  <2> SUFFICES ASSUME NEW i \in 1 .. Len(todo'), i + 1 <= Len(todo'),
                      todo'[i].op = "stop", todo'[i + 1].op = "assign"
               PROVE  todo'[i].on = stream
    BY DEF Switching
  <2>1. /\ i + 1 \in 1 .. Len(todo) /\ (i + 1) + 1 <= Len(todo) /\ todo'[i] = todo[i + 1]
        /\ todo'[i + 1] = todo[(i + 1) + 1]
    BY DEF Left
  <2>2. QED BY <2>1 DEF OnlyCurrent, Switching
<1>9. Some(todo', Closing) => \A s \in Streams : ~Has(todo', "stop", s) => ~running[s]
  BY DEF OnlyCurrent, Left
<1>10. \A s \in Streams : Has(todo', "start", s) => stream = s \/ Some(todo', {"select", "assign"})
  <2>1. \A s : Has(todo', "start", s) => Has(todo, "start", s)
    BY DEF Left
  <2>2. Some(todo, {"select", "assign"}) =>
           todo[1].op = "select" \/ Some(todo', {"select", "assign"})
    BY DEF Left
  <2>3. \A s : Has(todo', "start", s) /\ todo[1].op = "select" => todo[1].on = s
    BY DEF Left, Later, Naming
  <2>4. QED BY <2>1, <2>2, <2>3 DEF OnlyCurrent
<1>11. QED BY <1>1, <1>4, <1>5, <1>6, <1>7, <1>8, <1>9, <1>10 DEF OnlyCurrent

\* The same for the tasks, ...
LEMMA TasksKnownRest ==
  ASSUME Left(todo[1], todo, todo'), TasksKnown,
         UNCHANGED <<running, task, handle, excuse, reused>>,
         todo[1].op \notin {"join", "tick", "handle"}
  PROVE  TasksKnown'
<1>1. \A t : /\ Has(todo, "join", t) <=> Has(todo', "join", t)
             /\ Has(todo, "tick", t) <=> Has(todo', "tick", t)
             /\ Has(todo, "handle", t) <=> Has(todo', "handle", t)
             /\ Has(todo', "spawn", t) => Has(todo, "spawn", t)
  BY DEF Left
<1>2. \A t \in Tasks : Alive(t)' <=> Alive(t)
  BY DEF Alive
<1>3. QED BY <1>1, <1>2 DEF TasksKnown

\* ... the key ...
LEMMA KeyHeldRest ==
  ASSUME Left(todo[1], todo, todo'), KeyHeld,
         UNCHANGED <<key, task, excuse, conn>>,
         todo[1].op \notin {"key", "wipe", "torn", "free"}
  PROVE  KeyHeld'
<1>1. /\ Some(todo, {"key"}) <=> Some(todo', {"key"})
      /\ Some(todo', {"start", "listen", "spawn", "play"}) =>
           Some(todo, {"start", "listen", "spawn", "play"})
  BY DEF Left
<1>2. Some(todo, Closing) => Some(todo', Closing)
  <2>1. CASE todo[1].op = "destroy"
    <3>1. todo' # <<>> /\ 1 \in 1 .. Len(todo')
      BY <2>1, EmptySeq DEF Left, Final
    <3>2. Precedes(todo[1], todo'[1])
      BY <3>1 DEF Left
    <3>3. QED BY <2>1, <3>1, <3>2 DEF Precedes, Closing, Some
  <2>2. CASE todo[1].op # "destroy"
    BY <2>2 DEF Left, Closing
  <2>3. QED BY <2>1, <2>2
<1>3. \A t \in Tasks : Alive(t)' <=> Alive(t)
  BY DEF Alive
<1>4. QED BY <1>1, <1>2, <1>3 DEF KeyHeld, Feeders, Tasks

\* ... and the session's stream.
LEMMA StreamKeptRest ==
  ASSUME Left(todo[1], todo, todo'), Fields, StreamKept,
         UNCHANGED <<excuse, running, task, failed, conn, stream>>,
         todo[1].op \notin {"spawn", "assign", "start", "listen", "play", "torn", "free"},
         todo[1].op = "select" => todo[1].on = stream
  PROVE  StreamKept'
<1>1. /\ \A t : Has(todo, "spawn", t) <=> Has(todo', "spawn", t)
      /\ \A s : Has(todo', "select", s) => Has(todo, "select", s)
      /\ \A s : Has(todo', "assign", s) => Has(todo, "assign", s)
      /\ Some(todo, {"play"}) <=> Some(todo', {"play"})
      /\ Some(todo', {"select", "assign", "stop"}) => Some(todo, {"select", "assign", "stop"})
  BY DEF Left
<1>2. Some(todo, {"select", "assign"}) =>
        \/ Some(todo', {"select", "assign"})
        \/ todo[1].op = "select" /\ Has(todo, "select", stream)
  BY DEF Left
<1>3. /\ Some(todo, {"start"} \cup Closing) => Some(todo', {"start"} \cup Closing)
      /\ Some(todo, {"start", "listen"} \cup Closing) =>
           Some(todo', {"start", "listen"} \cup Closing)
  <2>1. CASE todo[1].op \in {"destroy", "wipe"}
    <3>1. todo' # <<>> /\ 1 \in 1 .. Len(todo')
      BY <2>1, EmptySeq DEF Left, Final
    <3>2. Precedes(todo[1], todo'[1])
      BY <3>1 DEF Left
    <3>3. QED BY <2>1, <3>1, <3>2 DEF Precedes, Closing, Some
  <2>2. CASE todo[1].op \notin {"destroy", "wipe"}
    BY <2>2 DEF Left, Closing
  <2>3. QED BY <2>1, <2>2
<1>4. \A t \in Tasks : Alive(t)' <=> Alive(t)
  BY DEF Alive
<1>5. excuse' = {} =>
       /\ running'["buffered"] => Alive("tcp")' \/ Has(todo', "spawn", "tcp")
       /\ running'["realtime"] /\ ~failed' => Alive("recv")' \/ Has(todo', "spawn", "recv")
  BY <1>1, <1>4 DEF StreamKept, Tasks
<1>6. conn'.version = 2 =>
       /\ conn'.type \in Streams
       /\ stream' = conn'.type \/ Some(todo', {"select", "assign"})
       /\ \A s \in Streams : Has(todo', "select", s) \/ Has(todo', "assign", s) => s = conn'.type
  BY <1>1, <1>2 DEF StreamKept, Fields
<1>7. conn'.version = 2 =>
       /\ Some(todo', {"select", "assign", "stop"}) => Some(todo', {"start"} \cup Closing)
       /\ conn'.active \/ Some(todo', {"play"}) =>
            failed' \/ running'[stream'] \/ Some(todo', {"start", "listen"} \cup Closing)
  BY <1>1, <1>3 DEF StreamKept
<1>8. QED BY <1>5, <1>6, <1>7 DEF StreamKept

-----------------------------------------------------------------------------
(* The operations of the client task.                                        *)

LEMMA FieldsSame ==
  ASSUME Fields, UNCHANGED <<conn, stream, running, task, handle, key>>
  PROVE  Fields'
BY DEF Fields

LEMMA SocketsSame ==
  ASSUME SocketsKnown, UNCHANGED <<stacks, sock, running, task>>
  PROVE  SocketsKnown'
BY DEF SocketsKnown

LEMMA DecoderSame ==
  ASSUME DecoderHeld, UNCHANGED <<task, decoder>>
  PROVE  DecoderHeld'
BY DEF DecoderHeld

\* The operation in progress is done.
LEMMA DoneIs ==
  ASSUME SessInv, NEW op, At(op), Then(<<>>)
  PROVE  /\ Shape(todo) /\ Shape(todo') /\ todo # <<>> /\ todo[1].op = op /\ On = todo[1].on
         /\ Left(todo[1], todo, todo') /\ todo[1] \in Ops
         /\ Fields /\ OnlyCurrent /\ TasksKnown /\ KeyHeld /\ DecoderHeld /\ SocketsKnown
         /\ StreamKept
<1>1. Shape(todo) /\ todo # <<>> /\ Head(todo).op = op
  BY DEF SessInv, At
<1>2. Head(todo) = todo[1] /\ On = todo[1].on /\ Left(todo[1], todo, todo')
  BY <1>1, Dropping
<1>3. Shape(todo') /\ todo[1] \in Ops
  BY <1>2 DEF Left
<1>4. QED BY <1>1, <1>2, <1>3 DEF SessInv

\* A new decoder, or none.
LEMMA DecoderStep ==
  ASSUME SessInv, Format \/ Destroy
  PROVE  SessInv'
<1>1. PICK op \in {"format", "destroy"} : At(op) /\ Then(<<>>)
  BY DEF Format, Destroy
<1>2. UNCHANGED <<conn, stream, running, key, sock, task, handle, stacks, failed, excuse, reused>>
  BY DEF Format, Destroy, control, history
<1>3. /\ Shape(todo) /\ Shape(todo') /\ todo # <<>> /\ todo[1].op = op
      /\ Left(todo[1], todo, todo')
      /\ Fields /\ OnlyCurrent /\ TasksKnown /\ KeyHeld /\ DecoderHeld /\ SocketsKnown
      /\ StreamKept
  BY <1>1, DoneIs
<1>4. Fields' /\ SocketsKnown'
  BY <1>2, <1>3, FieldsSame, SocketsSame
<1>5. OnlyCurrent' /\ TasksKnown'
  BY <1>2, <1>3, OnlyCurrentRest, TasksKnownRest
<1>6. KeyHeld' /\ StreamKept'
  BY <1>2, <1>3, KeyHeldRest, StreamKeptRest
<1>7. DecoderHeld'
  <2>1. CASE UNCHANGED decoder
    BY <1>2, <1>3, <2>1, DecoderSame
  <2>2. CASE DecoderFree
    BY <1>2, <2>2 DEF DecoderFree, DecoderHeld, Feeders
  <2>3. QED BY <2>1, <2>2 DEF Format, Destroy, MayReplace
<1>8. QED BY <1>3, <1>4, <1>5, <1>6, <1>7 DEF SessInv

\* The key is set before a task can need it, and wiped when none can.
LEMMA KeyStep ==
  ASSUME SessInv, Key
  PROVE  SessInv'
<1>1. PICK op \in {"key", "wipe"} : At(op) /\ Then(<<>>)
  BY DEF Key
<1>2. UNCHANGED <<conn, stream, running, decoder, sock, task, handle, stacks, failed, excuse,
                  reused>>
  BY DEF Key, control, history
<1>3. /\ Shape(todo) /\ Shape(todo') /\ todo # <<>> /\ todo[1].op = op
      /\ Left(todo[1], todo, todo')
      /\ Fields /\ OnlyCurrent /\ TasksKnown /\ KeyHeld /\ DecoderHeld /\ SocketsKnown
      /\ StreamKept
  BY <1>1, DoneIs
<1>4. key' = (op = "key")
  BY <1>1 DEF Key, At
<1>5. SocketsKnown' /\ DecoderHeld'
  BY <1>2, <1>3, SocketsSame, DecoderSame
<1>6. Fields'
  BY <1>2, <1>3, <1>4 DEF Fields
<1>7. OnlyCurrent' /\ TasksKnown' /\ StreamKept'
  BY <1>2, <1>3, OnlyCurrentRest, TasksKnownRest, StreamKeptRest
<1>8. KeyHeld'
  <2>1. \A t \in Tasks : Alive(t)' <=> Alive(t)
    BY <1>2 DEF Alive
  <2>2. CASE op = "key"
    BY <1>2, <1>3, <1>4, <2>1, <2>2 DEF KeyHeld, Feeders, Tasks
  <2>3. CASE op = "wipe"
    <3>1. /\ \A s : ~Has(todo, "stop", s) /\ Some(todo, Closing)
          /\ \A t : ~Has(todo, "join", t)
          /\ ~Some(todo', {"start", "listen", "spawn", "play"})
      BY <1>3, <2>3 DEF Left, Later, Closing
    <3>2. \A s \in Streams : ~running[s]
      BY <1>3, <3>1 DEF OnlyCurrent
    <3>3. "overrun" \notin excuse => \A t \in Tasks : ~Alive(t)
      BY <1>3, <3>1, <3>2 DEF TasksKnown, StreamOf, Streams
    <3>4. Some(todo', Closing)
      <4>1. todo' # <<>> /\ 1 \in 1 .. Len(todo')
        BY <1>3, <2>3, EmptySeq DEF Left, Final
      <4>2. Precedes(todo[1], todo'[1])
        BY <1>3, <4>1 DEF Left
      <4>3. QED BY <1>3, <2>3, <4>1, <4>2 DEF Precedes, Closing, Some
    <3>5. QED BY <1>2, <1>3, <2>1, <3>1, <3>3, <3>4 DEF KeyHeld, Feeders, Tasks, Alive
  <2>4. QED BY <2>2, <2>3
<1>9. QED BY <1>3, <1>5, <1>6, <1>7, <1>8 DEF SessInv

\* The stream that is to run becomes the current one.
LEMMA AssignStep ==
  ASSUME SessInv, Assign
  PROVE  SessInv'
<1>1. At("assign") /\ Then(<<>>) /\ stream' = On
  BY DEF Assign
<1>2. UNCHANGED <<conn, running, decoder, key, sock, task, handle, stacks, failed, excuse, reused>>
  BY DEF Assign, control, history
<1>3. /\ Shape(todo) /\ Shape(todo') /\ todo # <<>> /\ todo[1].op = "assign"
      /\ Left(todo[1], todo, todo') /\ On = todo[1].on /\ todo[1] \in Ops
      /\ Fields /\ OnlyCurrent /\ TasksKnown /\ KeyHeld /\ DecoderHeld /\ SocketsKnown
      /\ StreamKept
  BY <1>1, DoneIs
<1>4. stream' = todo[1].on /\ todo[1].on \in Streams
  BY <1>1, <1>3, OpsOn
<1>5. SocketsKnown' /\ DecoderHeld'
  BY <1>2, <1>3, SocketsSame, DecoderSame
<1>6. Fields'
  BY <1>2, <1>3, <1>4 DEF Fields
<1>7. TasksKnown' /\ KeyHeld'
  BY <1>2, <1>3, TasksKnownRest, KeyHeldRest
<1>8. \A s \in Streams : ~running[s]
  BY <1>3 DEF OnlyCurrent
<1>9. \A s : ~Has(todo', "assign", s)
  BY <1>3 DEF Left, Later
<1>10. todo' # <<>> => todo'[1].op \in {"select", "format", "stop", "start", "listen"}
                       /\ (todo'[1].op = "start" => todo'[1].on = "buffered")
  BY <1>3 DEF Left, Follows
<1>11. OnlyCurrent'
  <2>1. todo' # <<>> /\ todo'[1].op = "listen" => stream' = "buffered"
    <3> SUFFICES ASSUME todo' # <<>>, todo'[1].op = "listen" PROVE stream' = "buffered"
      OBVIOUS
    <3>1. 1 \in 1 .. Len(todo') /\ todo'[1].on = "buffered"
      BY <1>3, EmptySeq DEF Left, Follows
    <3>2. Precedes(todo[1], todo'[1])
      BY <1>3, <3>1 DEF Left
    <3>3. QED BY <1>3, <1>4, <3>1, <3>2 DEF Precedes, Naming
  <2>2. Switching(todo', stream')
    <3> SUFFICES ASSUME NEW i \in 1 .. Len(todo'), i + 1 <= Len(todo'), todo'[i + 1].op = "assign"
                 PROVE  FALSE
      BY DEF Switching
    <3>1. todo' \in Seq(Ops)
      BY <1>3 DEF Left
    <3>2. i + 1 \in 1 .. Len(todo')
      BY <3>1, LenProperties
    <3>3. QED BY <1>9, <3>2 DEF Has
  <2>3. \A s \in Streams : Has(todo', "start", s) => stream' = s
    BY <1>3, <1>4 DEF Left, Later, Naming
  <2>4. QED BY <1>2, <1>8, <1>10, <2>1, <2>2, <2>3 DEF OnlyCurrent
<1>12. StreamKept'
  <2>1. /\ \A t : Has(todo, "spawn", t) <=> Has(todo', "spawn", t)
        /\ \A s : Has(todo', "select", s) => Has(todo, "select", s)
        /\ Has(todo, "assign", stream')
        /\ Some(todo, {"select", "assign", "stop"})
        /\ Some(todo, {"start"} \cup Closing) => Some(todo', {"start"} \cup Closing)
        /\ Some(todo', {"start"} \cup Closing) => Some(todo', {"start", "listen"} \cup Closing)
    BY <1>3, <1>4 DEF Left, Closing, Some
  <2>2. excuse' = {} =>
         /\ running'["buffered"] => Alive("tcp")' \/ Has(todo', "spawn", "tcp")
         /\ running'["realtime"] /\ ~failed' => Alive("recv")' \/ Has(todo', "spawn", "recv")
    BY <1>2, <1>8 DEF Streams
  <2>3. conn.version = 2 => stream' = conn.type
    BY <1>3, <1>4, <2>1 DEF StreamKept
  <2>4. QED BY <1>2, <1>3, <1>9, <2>1, <2>2, <2>3 DEF StreamKept
<1>13. QED BY <1>3, <1>5, <1>6, <1>7, <1>11, <1>12 DEF SessInv

-----------------------------------------------------------------------------
(* Operations that are carried out as several.                               *)

\* An operation put before the rest.
LEMMA Prepending ==
  ASSUME NEW x \in Ops, NEW r, Shape(r),
         r # <<>> => Follows(x, r[1]),
         \A j \in 1 .. Len(r) : Precedes(x, r[j]),
         r = <<>> => x.op \in Final
  PROVE  /\ Shape(<<x>> \o r) /\ <<x>> \o r # <<>> /\ (<<x>> \o r)[1] = x
         /\ Left(x, <<x>> \o r, r)
         /\ \A y : Precedes(y, x) /\ (\A j \in 1 .. Len(r) : Precedes(y, r[j])) =>
              \A j \in 1 .. Len(<<x>> \o r) : Precedes(y, (<<x>> \o r)[j])
         /\ \A s : Switching(r, s) /\ (x.op = "stop" /\ r # <<>> /\ r[1].op = "assign" => x.on = s)
                   => Switching(<<x>> \o r, s)
<1> DEFINE q == <<x>> \o r
<1>1. /\ Shape(q) /\ q # <<>> /\ q[1] = x /\ Tail(q) = r
      /\ \A i \in 1 .. Len(q) : i = 1 \/ (i - 1 \in 1 .. Len(r) /\ q[i] = r[i - 1])
  BY ShapeBefore
<1> HIDE DEF q
<1>2. Left(x, q, r)
  BY <1>1, IsLeft
<1>3. ASSUME NEW y, Precedes(y, x), \A j \in 1 .. Len(r) : Precedes(y, r[j]),
             NEW j \in 1 .. Len(q)
      PROVE  Precedes(y, q[j])
  BY <1>1, <1>3, Zenon
<1>4. ASSUME NEW s, Switching(r, s), x.op = "stop" /\ r # <<>> /\ r[1].op = "assign" => x.on = s,
             NEW i \in 1 .. Len(q), i + 1 <= Len(q), q[i].op = "stop", q[i + 1].op = "assign"
      PROVE  q[i].on = s
  <2>1. /\ q \in Seq(Ops) /\ r \in Seq(Ops) /\ Len(q) \in Nat /\ Len(r) \in Nat
        /\ Len(r) = Len(q) - 1
    BY <1>1, Rest, LenProperties DEF Shape
  <2>2. i + 1 \in 1 .. Len(q) /\ i + 1 # 1
    BY <1>4, <2>1
  <2>3. (i + 1) - 1 \in 1 .. Len(r) /\ q[i + 1] = r[(i + 1) - 1] /\ (i + 1) - 1 = i
    BY <1>1, <2>1, <2>2
  <2>4. CASE i = 1
    BY <1>1, <1>4, <2>3, <2>4
  <2>5. CASE i # 1
    <3>1. i - 1 \in 1 .. Len(r) /\ q[i] = r[i - 1] /\ (i - 1) + 1 <= Len(r) /\ (i - 1) + 1 = i
      BY <1>1, <1>4, <2>1, <2>5
    <3>2. QED BY <1>4, <2>3, <3>1 DEF Switching
  <2>6. QED BY <2>4, <2>5
<1>5. \A s : Switching(r, s) /\ (x.op = "stop" /\ r # <<>> /\ r[1].op = "assign" => x.on = s)
             => Switching(q, s)
  BY <1>4 DEF Switching
<1>6. \A y : Precedes(y, x) /\ (\A j \in 1 .. Len(r) : Precedes(y, r[j])) =>
        \A j \in 1 .. Len(q) : Precedes(y, q[j])
  BY <1>3, Zenon
<1>7. QED BY <1>1, <1>2, <1>5, <1>6 DEF q

LEMMA PairIs ==
  ASSUME NEW x \in Ops, NEW y \in Ops
  PROVE  /\ <<x>> \in Seq(Ops) /\ <<x, y>> \in Seq(Ops) /\ <<x, y>> = <<x>> \o <<y>>
         /\ <<x, y>> \o <<>> = <<x, y>>
<1>1. /\ <<x>> \in Seq(Ops) /\ <<y>> \in Seq(Ops) /\ <<x, y>> \in Seq(Ops)
      /\ Len(<<x>>) = 1 /\ Len(<<y>>) = 1 /\ Len(<<x, y>>) = 2
      /\ <<x>>[1] = x /\ <<y>>[1] = y /\ <<x, y>>[1] = x /\ <<x, y>>[2] = y
  OBVIOUS
<1> DEFINE q == <<x>> \o <<y>>  p == <<x, y>>
<1>2. q \in Seq(Ops) /\ Len(q) = 2 /\ q[1] = x /\ q[2] = y
  <2>1. /\ q \in Seq(Ops) /\ Len(q) = Len(<<x>>) + Len(<<y>>)
        /\ \A i \in 1 .. Len(<<x>>) : q[i] = <<x>>[i]
        /\ \A i \in 1 .. Len(<<y>>) : q[Len(<<x>>) + i] = <<y>>[i]
    BY <1>1, Before
  <2> HIDE DEF q
  <2>2. 1 \in 1 .. Len(<<x>>) /\ 1 \in 1 .. Len(<<y>>) /\ Len(<<x>>) + 1 = 2
    BY <1>1
  <2>3. q[1] = <<x>>[1] /\ q[2] = <<y>>[1]
    BY <2>1, <2>2, Zenon
  <2>4. QED BY <1>1, <2>1, <2>3
<1>3. p \in Seq(Ops) /\ Len(p) = 2 /\ p[1] = x /\ p[2] = y
  BY <1>1
<1> HIDE DEF p, q
<1>4. Len(p) = Len(q) /\ \A i \in 1 .. Len(p) : p[i] = q[i]
  BY <1>2, <1>3
<1>5. p = q
  BY <1>2, <1>3, <1>4, SeqEqual
<1>6. p \o <<>> = p
  BY <1>3, ConcatEmptySeq
<1>7. QED BY <1>1, <1>5, <1>6 DEF p, q

LEMMA SeqAssoc ==
  ASSUME NEW s \in Seq(Ops), NEW t \in Seq(Ops), NEW u \in Seq(Ops)
  PROVE  (s \o t) \o u = s \o (t \o u) /\ s \o t \in Seq(Ops)
BY ConcatAssociative, ConcatProperties, SMTT(30)

LEMMA UnfoldTwo ==
  ASSUME NEW x \in Ops, NEW y \in Ops, NEW s \in Seq(Ops)
  PROVE  <<x, y>> \o s = <<x>> \o (<<y>> \o s)
<1>1. <<x>> \in Seq(Ops) /\ <<y>> \in Seq(Ops) /\ <<x, y>> = <<x>> \o <<y>>
  BY PairIs
<1>2. (<<x>> \o <<y>>) \o s = <<x>> \o (<<y>> \o s)
  BY <1>1, SeqAssoc
<1>3. QED BY <1>1, <1>2

LEMMA UnfoldMore ==
  ASSUME NEW x \in Ops, NEW y \in Ops, NEW s \in Seq(Ops), NEW u \in Seq(Ops)
  PROVE  (<<x, y>> \o u) \o s = <<x>> \o (<<y>> \o (u \o s))
<1>1. <<x, y>> \in Seq(Ops) /\ u \o s \in Seq(Ops)
  BY PairIs, SeqAssoc
<1>2. (<<x, y>> \o u) \o s = <<x, y>> \o (u \o s)
  BY <1>1, SeqAssoc
<1>3. <<x, y>> \o (u \o s) = <<x>> \o (<<y>> \o (u \o s))
  BY <1>1, UnfoldTwo
<1>4. QED BY <1>2, <1>3

\* The operation in progress is carried out as others.
LEMMA BeginIs ==
  ASSUME SessInv, NEW op, At(op)
  PROVE  /\ Shape(todo) /\ todo # <<>> /\ todo[1].op = op /\ On = todo[1].on
         /\ Left(todo[1], todo, Tail(todo)) /\ todo[1] \in Ops /\ Tail(todo) \in Seq(Ops)
         /\ Fields /\ OnlyCurrent /\ TasksKnown /\ KeyHeld /\ DecoderHeld /\ SocketsKnown
         /\ StreamKept
<1>1. Shape(todo) /\ todo # <<>> /\ Head(todo).op = op
  BY DEF SessInv, At
<1>2. Head(todo) = todo[1] /\ On = todo[1].on /\ Left(todo[1], todo, Tail(todo))
  BY <1>1, IsLeft DEF On
<1>3. QED BY <1>1, <1>2 DEF SessInv, Left

LEMMA SwitchingRest ==
  ASSUME NEW x, NEW q, NEW r, NEW s, Left(x, q, r), Switching(q, s)
  PROVE  Switching(r, s)
<1> SUFFICES ASSUME NEW i \in 1 .. Len(r), i + 1 <= Len(r), r[i].op = "stop",
                    r[i + 1].op = "assign"
             PROVE  r[i].on = s
  BY DEF Switching
<1>1. /\ i + 1 \in 1 .. Len(q) /\ (i + 1) + 1 <= Len(q) /\ r[i] = q[i + 1]
      /\ r[i + 1] = q[(i + 1) + 1]
  BY DEF Left
<1>2. QED BY <1>1 DEF Switching

\* A stream is selected: the other one is stopped first.
LEMMA SelectStep ==
  ASSUME SessInv, SelectStream
  PROVE  SessInv'
<1>1. At("select") /\ UNCHANGED <<conn, stream, running, decoder, key, sock, task, handle, stacks,
                                  failed, excuse, reused>>
  BY DEF SelectStream, control, shared, history
<1>2. CASE stream = On
  <2>1. Then(<<>>)
    BY <1>2 DEF SelectStream
  <2>2. /\ Shape(todo) /\ Shape(todo') /\ todo # <<>> /\ todo[1].op = "select"
        /\ Left(todo[1], todo, todo') /\ On = todo[1].on
        /\ Fields /\ OnlyCurrent /\ TasksKnown /\ KeyHeld /\ DecoderHeld /\ SocketsKnown
        /\ StreamKept
    BY <1>1, <2>1, DoneIs
  <2>3. Fields' /\ SocketsKnown' /\ DecoderHeld'
    BY <1>1, <2>2, FieldsSame, SocketsSame, DecoderSame
  <2>4. OnlyCurrent' /\ TasksKnown'
    BY <1>1, <1>2, <2>2, OnlyCurrentRest, TasksKnownRest
  <2>5. KeyHeld' /\ StreamKept'
    BY <1>1, <1>2, <2>2, KeyHeldRest, StreamKeptRest
  <2>6. QED BY <2>2, <2>3, <2>4, <2>5 DEF SessInv
<1>3. CASE stream # On
  <2> DEFINE r == Tail(todo)  b == Op("assign", On)  a == Op("stop", stream)
             q == <<b>> \o r
  <2>1. /\ Shape(todo) /\ todo # <<>> /\ todo[1].op = "select" /\ On = todo[1].on
        /\ Left(todo[1], todo, r) /\ todo[1] \in Ops /\ r \in Seq(Ops)
        /\ Fields /\ OnlyCurrent /\ TasksKnown /\ KeyHeld /\ DecoderHeld /\ SocketsKnown
        /\ StreamKept
    BY <1>1, BeginIs
  <2>2. /\ a.op = "stop" /\ a.on = stream /\ a \in Ops
        /\ b.op = "assign" /\ b.on = todo[1].on /\ b \in Ops /\ todo[1].on \in Streams
    <3>1. todo[1].on \in Streams /\ stream \in Streams
      BY <2>1, OpsOn DEF Fields
    <3>2. QED BY <2>1, <3>1 DEF Op, Ops
  <2>3. todo' = <<a>> \o q
    <3>1. todo' = <<a, b>> \o r
      BY <1>3 DEF SelectStream, Then, Switched
    <3> HIDE DEF a, b, r
    <3>2. <<a, b>> \o r = <<a>> \o (<<b>> \o r)
      BY <2>1, <2>2, UnfoldTwo
    <3>3. QED BY <3>1, <3>2, Zenon DEF q
  <2> HIDE DEF a, b, r
  <2>4. /\ Shape(r) /\ (r # <<>> => Follows(b, r[1])) /\ (r = <<>> => b.op \in Final)
        /\ \A j \in 1 .. Len(r) : Precedes(b, r[j]) /\ Precedes(a, r[j])
    <3>1. Shape(r)
      BY <2>1 DEF Left
    <3>2. r # <<>> => Follows(b, r[1])
      BY <2>1, <2>2 DEF Left, Follows
    <3>3. \A j \in 1 .. Len(r) : Precedes(b, r[j]) /\ Precedes(a, r[j])
      <4> TAKE j \in 1 .. Len(r)
      <4>1. Precedes(todo[1], r[j])
        BY <2>1 DEF Left
      <4>2. QED BY <2>1, <2>2, <4>1 DEF Precedes, Naming, Closing
    <3>4. QED BY <2>2, <3>1, <3>2, <3>3 DEF Final
  <2>5. Precedes(a, b) /\ Follows(a, b)
    BY <2>2 DEF Precedes, Follows, Naming, Closing
  <2>6. Switching(r, stream)
    BY <2>1, SwitchingRest DEF OnlyCurrent
  <2>7. /\ Shape(q) /\ q # <<>> /\ q[1] = b /\ Left(b, q, r) /\ Switching(q, stream)
        /\ \A j \in 1 .. Len(q) : Precedes(a, q[j])
    BY <2>2, <2>4, <2>5, <2>6, Prepending
  <2> HIDE DEF q
  <2>8. /\ Shape(todo') /\ todo' # <<>> /\ todo'[1] = a /\ Left(a, todo', q)
        /\ Switching(todo', stream)
    BY <2>2, <2>3, <2>5, <2>7, Prepending
  <2>9. /\ \A s : Has(todo', "start", s) <=> Has(todo, "start", s)
        /\ \A t : /\ Has(todo', "join", t) <=> Has(todo, "join", t)
                  /\ Has(todo', "tick", t) <=> Has(todo, "tick", t)
                  /\ Has(todo', "spawn", t) <=> Has(todo, "spawn", t)
                  /\ Has(todo', "handle", t) <=> Has(todo, "handle", t)
    BY <2>1, <2>2, <2>7, <2>8 DEF Left
  <2>10. /\ \A s : Has(todo', "select", s) => Has(todo, "select", s)
         /\ \A s : Has(todo', "assign", s) => s = todo[1].on
         /\ Has(todo, "select", todo[1].on)
    BY <2>1, <2>2, <2>7, <2>8 DEF Left, Later
  <2>11. /\ Some(todo', {"select", "assign"}) /\ Some(todo, {"select", "assign", "stop"})
         /\ ~Some(todo', Closing)
         /\ Some(todo, {"key"}) => Some(todo', {"key"})
         /\ Some(todo', {"start", "listen", "spawn", "play"}) =>
              Some(todo, {"start", "listen", "spawn", "play"})
         /\ Some(todo', {"play"}) => Some(todo, {"play"})
         /\ Some(todo, {"start"} \cup Closing) => Some(todo', {"start"} \cup Closing)
         /\ Some(todo, {"start", "listen"} \cup Closing) =>
              Some(todo', {"start", "listen"} \cup Closing)
         /\ ~Some(todo, Closing)
    <3>1. \A ops : /\ Some(todo', ops) <=> "stop" \in ops \/ "assign" \in ops \/ Some(r, ops)
                   /\ Some(todo, ops) <=> "select" \in ops \/ Some(r, ops)
      BY <2>1, <2>2, <2>7, <2>8 DEF Left
    <3>2. ~Some(r, Closing)
      BY <2>1 DEF Left, Later, Closing
    <3>3. QED BY <3>1, <3>2 DEF Closing
  <2>12. OnlyCurrent'
    BY <1>1, <2>1, <2>2, <2>8, <2>11 DEF OnlyCurrent
  <2>13. \A t \in Tasks : Alive(t)' <=> Alive(t)
    BY <1>1 DEF Alive
  <2>14. TasksKnown'
    BY <1>1, <2>1, <2>9, <2>13 DEF TasksKnown
  <2>15. KeyHeld'
    BY <1>1, <2>1, <2>11, <2>13 DEF KeyHeld, Feeders, Tasks
  <2>16. StreamKept'
    <3>1. excuse' = {} =>
           /\ running'["buffered"] => Alive("tcp")' \/ Has(todo', "spawn", "tcp")
           /\ running'["realtime"] /\ ~failed' => Alive("recv")' \/ Has(todo', "spawn", "recv")
      BY <1>1, <2>1, <2>9, <2>13 DEF StreamKept, Tasks
    <3>2. conn'.version = 2 =>
           /\ conn'.type \in Streams
           /\ \A s \in Streams : Has(todo', "select", s) \/ Has(todo', "assign", s) => s = conn'.type
      BY <1>1, <2>1, <2>2, <2>10 DEF StreamKept
    <3>3. QED BY <1>1, <2>1, <2>11, <3>1, <3>2 DEF StreamKept
  <2>17. Fields' /\ SocketsKnown' /\ DecoderHeld'
    BY <1>1, <2>1, FieldsSame, SocketsSame, DecoderSame
  <2>18. QED BY <2>8, <2>12, <2>14, <2>15, <2>16, <2>17 DEF SessInv
<1>4. QED BY <1>2, <1>3

\* A stream that runs is stopped: what is left then waits for its tasks.
LEMMA StopProgram ==
  ASSUME SessInv, At("stop"), Then(Joins(On))
  PROVE  /\ Shape(todo') /\ todo' # <<>> /\ todo'[1].op = "join" /\ Switching(todo', stream)
         /\ \A t \in Tasks : StreamOf(t) = On => Has(todo', "join", t)
         /\ Has(todo', "tick", On)
         /\ \A op, on : Has(Tail(todo), op, on) => Has(todo', op, on)
         /\ \A op, on : op \notin {"join", "tick"} /\ Has(todo', op, on) => Has(Tail(todo), op, on)
         /\ \A ops : Some(todo', ops) <=> "join" \in ops \/ "tick" \in ops \/ Some(Tail(todo), ops)
<1> DEFINE r == Tail(todo)  c == Op("tick", On)  q == <<c>> \o r
<1>1. /\ todo # <<>> /\ todo[1].op = "stop" /\ On = todo[1].on /\ On \in Streams
      /\ Left(todo[1], todo, r) /\ r \in Seq(Ops) /\ Switching(todo, stream)
  BY BeginIs, OpsOn DEF OnlyCurrent
<1>2. c.op = "tick" /\ c.on = On /\ c \in Ops
  BY <1>1 DEF Op, Ops
<1> HIDE DEF c, r
<1>3. /\ Shape(r) /\ (r # <<>> => Follows(c, r[1])) /\ (r = <<>> => c.op \in Final)
      /\ \A j \in 1 .. Len(r) : Precedes(c, r[j])
  <2>1. r # <<>> => Follows(c, r[1])
    BY <1>1, <1>2 DEF Left, Follows
  <2>2. \A j \in 1 .. Len(r) : Precedes(c, r[j])
    <3> TAKE j \in 1 .. Len(r)
    <3>1. Precedes(todo[1], r[j])
      BY <1>1 DEF Left
    <3>2. QED BY <1>1, <1>2, <3>1 DEF Precedes, Naming, Closing
  <2>3. QED BY <1>1, <2>1, <2>2 DEF Left, Final
<1>4. ASSUME NEW t \in Tasks
      PROVE  \A j \in 1 .. Len(r) : Precedes(Op("join", t), r[j])
  <2> TAKE j \in 1 .. Len(r)
  <2>1. Precedes(todo[1], r[j])
    BY <1>1 DEF Left
  <2>2. QED BY <1>1, <2>1 DEF Precedes, Naming, Closing, Op
<1>5. Switching(r, stream)
  BY <1>1, SwitchingRest
<1>6. ASSUME NEW t \in Tasks
      PROVE  Precedes(Op("join", t), c) /\ Op("join", t) \in Ops /\ Op("join", t).op = "join"
             /\ Op("join", t).on = t /\ (t # "recv" => Follows(Op("join", t), c))
  BY <1>2 DEF Precedes, Follows, Op, Ops, Naming, Closing
<1>7. /\ Shape(q) /\ q # <<>> /\ q[1] = c /\ Left(c, q, r) /\ Switching(q, stream)
      /\ \A t \in Tasks : \A j \in 1 .. Len(q) : Precedes(Op("join", t), q[j])
  <2>1. /\ Shape(q) /\ q # <<>> /\ q[1] = c /\ Left(c, q, r)
        /\ \A y : Precedes(y, c) /\ (\A j \in 1 .. Len(r) : Precedes(y, r[j])) =>
             \A j \in 1 .. Len(q) : Precedes(y, q[j])
        /\ Switching(q, stream)
    BY <1>2, <1>3, <1>5, Prepending
  <2> HIDE DEF q
  <2>2. QED BY <1>4, <1>6, <2>1
<1>8. CASE On = "buffered"
  <2> DEFINE a == Op("join", "tcp")
  <2>1. a \in Ops /\ a.op = "join" /\ a.on = "tcp" /\ Follows(a, c)
    BY <1>6 DEF Tasks
  <2>2. todo' = <<a>> \o q
    <3>1. todo' = (<<a>> \o <<c>>) \o r
      BY <1>8 DEF Then, Joins, c, r
    <3>2. <<a>> \in Seq(Ops) /\ <<c>> \in Seq(Ops)
      BY <1>2, <2>1, PairIs
    <3> HIDE DEF a
    <3>3. (<<a>> \o <<c>>) \o r = <<a>> \o (<<c>> \o r)
      BY <1>1, <3>2, SeqAssoc
    <3>4. QED BY <3>1, <3>3, Zenon DEF q
  <2>3. \A j \in 1 .. Len(q) : Precedes(a, q[j])
    BY <1>7 DEF Tasks
  <2> HIDE DEF a, q
  <2>4. /\ Shape(todo') /\ todo' # <<>> /\ todo'[1] = a /\ Left(a, todo', q)
        /\ Switching(todo', stream)
    BY <1>7, <2>1, <2>2, <2>3, Prepending
  <2>5. \A t \in Tasks : StreamOf(t) = On => t = "tcp"
    BY <1>8 DEF StreamOf, Tasks
  <2>6. Has(todo', "join", "tcp") /\ Has(todo', "tick", On)
    BY <1>2, <1>7, <2>1, <2>4 DEF Left
  <2>7. /\ \A op, on : Has(r, op, on) => Has(todo', op, on)
        /\ \A op, on : op \notin {"join", "tick"} /\ Has(todo', op, on) => Has(r, op, on)
    BY <1>2, <1>7, <2>1, <2>4 DEF Left
  <2>8. \A ops : Some(todo', ops) <=> "join" \in ops \/ "tick" \in ops \/ Some(r, ops)
    BY <1>2, <1>7, <2>1, <2>4 DEF Left
  <2>9. QED BY <2>1, <2>4, <2>5, <2>6, <2>7, <2>8 DEF r
<1>9. CASE On = "realtime"
  <2> DEFINE a == Op("join", "recv")  b == Op("join", "ctrl")  m == <<b>> \o q
  <2>1. /\ a \in Ops /\ a.op = "join" /\ a.on = "recv"
        /\ b \in Ops /\ b.op = "join" /\ b.on = "ctrl" /\ Follows(b, c)
    BY <1>6 DEF Tasks
  <2>2. Follows(a, b) /\ Precedes(a, b)
    BY DEF Follows, Precedes, Op, Naming, Closing
  <2>3. (\A j \in 1 .. Len(q) : Precedes(a, q[j])) /\ (\A j \in 1 .. Len(q) : Precedes(b, q[j]))
    BY <1>7 DEF Tasks
  <2>4. todo' = <<a>> \o m
    <3>1. todo' = (<<a, b>> \o <<c>>) \o r
      BY <1>9 DEF Then, Joins, c, r
    <3>2. <<c>> \in Seq(Ops)
      BY <1>2, PairIs
    <3> DEFINE u == <<c>>
    <3> HIDE DEF a, b, u
    <3>3. (<<a, b>> \o u) \o r = <<a>> \o (<<b>> \o (u \o r))
      <4>1. u \in Seq(Ops)
        BY <3>2 DEF u
      <4>2. a \in Ops /\ b \in Ops /\ r \in Seq(Ops)
        BY <1>1, <2>1
      <4> HIDE DEF r
      <4>3. QED BY <4>1, <4>2, UnfoldMore, SMTT(30)
    <3>4. QED BY <3>1, <3>3, Zenon DEF m, q, u
  <2> HIDE DEF a, b, q
  <2>5. /\ Shape(m) /\ m # <<>> /\ m[1] = b /\ Left(b, m, q) /\ Switching(m, stream)
        /\ \A j \in 1 .. Len(m) : Precedes(a, m[j])
    BY <1>7, <2>1, <2>2, <2>3, Prepending
  <2> HIDE DEF m
  <2>6. /\ Shape(todo') /\ todo' # <<>> /\ todo'[1] = a /\ Left(a, todo', m)
        /\ Switching(todo', stream)
    BY <2>1, <2>2, <2>4, <2>5, Prepending
  <2>7. \A t \in Tasks : StreamOf(t) = On => t = "recv" \/ t = "ctrl"
    BY <1>9 DEF StreamOf, Tasks
  <2>8. Has(todo', "join", "recv") /\ Has(todo', "join", "ctrl") /\ Has(todo', "tick", On)
    BY <1>2, <1>7, <2>1, <2>5, <2>6 DEF Left
  <2>9. /\ \A op, on : Has(r, op, on) => Has(todo', op, on)
        /\ \A op, on : op \notin {"join", "tick"} /\ Has(todo', op, on) => Has(r, op, on)
    BY <1>2, <1>7, <2>1, <2>5, <2>6 DEF Left
  <2>10. \A ops : Some(todo', ops) <=> "join" \in ops \/ "tick" \in ops \/ Some(r, ops)
    BY <1>2, <1>7, <2>1, <2>5, <2>6 DEF Left
  <2>11. QED BY <2>1, <2>6, <2>7, <2>8, <2>9, <2>10 DEF r
<1>10. QED BY <1>1, <1>8, <1>9 DEF Streams

\* realtime_stop and buffered_stop.
LEMMA StopStep ==
  ASSUME SessInv, Stop
  PROVE  SessInv'
<1>1. At("stop") /\ UNCHANGED <<conn, stream, decoder, key, task, handle, stacks, failed, excuse,
                                reused>>
  BY DEF Stop, control, shared, history
<1>2. CASE ~running[On] /\ Then(<<>>) /\ UNCHANGED <<running, sock, peer>>
  <2>1. /\ Shape(todo) /\ Shape(todo') /\ todo # <<>> /\ todo[1].op = "stop"
        /\ Left(todo[1], todo, todo') /\ On = todo[1].on
        /\ Fields /\ OnlyCurrent /\ TasksKnown /\ KeyHeld /\ DecoderHeld /\ SocketsKnown
        /\ StreamKept
    BY <1>1, <1>2, DoneIs
  <2>2. Fields' /\ SocketsKnown' /\ DecoderHeld'
    BY <1>1, <1>2, <2>1, FieldsSame, SocketsSame, DecoderSame
  <2>3. OnlyCurrent' /\ TasksKnown'
    BY <1>1, <1>2, <2>1, OnlyCurrentRest, TasksKnownRest
  <2>4. KeyHeld' /\ StreamKept'
    BY <1>1, <1>2, <2>1, KeyHeldRest, StreamKeptRest
  <2>5. QED BY <2>1, <2>2, <2>3, <2>4 DEF SessInv
<1>3. CASE /\ running[On] /\ running' = [running EXCEPT ![On] = FALSE]
           /\ sock' = sock \ SocketsOf(On) /\ Then(Joins(On))
  <2> DEFINE r == Tail(todo)
  <2>1. /\ Shape(todo) /\ todo # <<>> /\ todo[1].op = "stop" /\ On = todo[1].on /\ On \in Streams
        /\ Left(todo[1], todo, r) /\ todo[1] \in Ops
        /\ Fields /\ OnlyCurrent /\ TasksKnown /\ KeyHeld /\ DecoderHeld /\ SocketsKnown
        /\ StreamKept
    BY <1>1, BeginIs, OpsOn
  <2>2. /\ Shape(todo') /\ todo' # <<>> /\ todo'[1].op = "join" /\ Switching(todo', stream)
        /\ \A t \in Tasks : StreamOf(t) = On => Has(todo', "join", t)
        /\ Has(todo', "tick", On)
        /\ \A op, on : Has(r, op, on) => Has(todo', op, on)
        /\ \A op, on : op \notin {"join", "tick"} /\ Has(todo', op, on) => Has(r, op, on)
        /\ \A ops : Some(todo', ops) <=> "join" \in ops \/ "tick" \in ops \/ Some(r, ops)
    BY <1>1, <1>3, StopProgram
  <2> HIDE DEF r
  <2>3. \A s \in Streams : ~running'[s]
    BY <1>3, <2>1 DEF OnlyCurrent, Fields
  <2>4. running' \in [Streams -> BOOLEAN]
    BY <1>3, <2>1 DEF Fields
  <2>5. Fields'
    BY <1>1, <2>1, <2>4 DEF Fields
  <2>6. OnlyCurrent'
    <3>1. \A s \in Streams : Has(todo', "start", s) =>
            stream' = s \/ Some(todo', {"select", "assign"})
      <4>1. \A s : Has(todo', "start", s) => Has(todo, "start", s)
        BY <2>1, <2>2 DEF Left
      <4>2. Some(todo, {"select", "assign"}) => Some(todo', {"select", "assign"})
        BY <2>1, <2>2 DEF Left
      <4>3. QED BY <1>1, <2>1, <4>1, <4>2 DEF OnlyCurrent
    <3>2. QED BY <1>1, <2>2, <2>3, <3>1 DEF OnlyCurrent
  <2>7. \A t \in Tasks : Alive(t)' <=> Alive(t)
    BY <1>1 DEF Alive
  <2>8. TasksKnown'
    <3>1. /\ \A t : Has(todo, "join", t) => Has(todo', "join", t)
          /\ \A t : Has(todo, "tick", t) => Has(todo', "tick", t)
          /\ \A t : Has(todo, "handle", t) => Has(todo', "handle", t)
          /\ \A t : Has(todo', "spawn", t) => Has(todo, "spawn", t)
      BY <2>1, <2>2 DEF Left
    <3>2. \A t \in Tasks : running[StreamOf(t)] =>
            Has(todo', "join", t) /\ Has(todo', "tick", StreamOf(t))
      BY <1>3, <2>1, <2>2 DEF OnlyCurrent, StreamOf, Streams
    <3>3. QED BY <1>1, <2>1, <2>7, <3>1, <3>2 DEF TasksKnown
  <2>9. KeyHeld'
    <3>1. /\ Some(todo', {"start", "listen", "spawn", "play"}) =>
               Some(todo, {"start", "listen", "spawn", "play"})
          /\ Some(todo, {"key"}) => Some(todo', {"key"})
          /\ Some(todo, Closing) => Some(todo', Closing)
      BY <2>1, <2>2 DEF Left, Closing
    <3>2. QED BY <1>1, <2>1, <2>7, <3>1 DEF KeyHeld, Feeders, Tasks
  <2>10. DecoderHeld'
    BY <1>1, <2>1, DecoderSame
  <2>11. SocketsKnown'
    <3>1. /\ sock' \subseteq sock
          /\ On = "realtime" => "data" \notin sock' /\ "control" \notin sock'
          /\ On = "buffered" => "listen" \notin sock'
      BY <1>3 DEF SocketsOf
    <3>2. \A s \in Streams : s # On => running'[s] = running[s]
      BY <1>3, <2>1 DEF Fields
    <3>3. QED BY <1>1, <2>1, <3>1, <3>2 DEF SocketsKnown, Streams
  <2>12. StreamKept'
    <3>1. /\ \A s : Has(todo', "select", s) => Has(todo, "select", s)
          /\ \A s : Has(todo', "assign", s) => Has(todo, "assign", s)
      BY <2>1, <2>2 DEF Left
    <3>2. /\ Some(todo, {"select", "assign"}) => Some(todo', {"select", "assign"})
          /\ Some(todo, {"select", "assign", "stop"})
          /\ Some(todo, {"start"} \cup Closing) => Some(todo', {"start"} \cup Closing)
          /\ Some(todo, {"start"} \cup Closing) => Some(todo', {"start", "listen"} \cup Closing)
      <4>1. Some(r, {"start"} \cup Closing) => Some(r, {"start", "listen"} \cup Closing)
        BY DEF Some
      <4>2. QED BY <2>1, <2>2, <4>1 DEF Left, Closing
    <3>3. excuse' = {} =>
           /\ running'["buffered"] => Alive("tcp")' \/ Has(todo', "spawn", "tcp")
           /\ running'["realtime"] /\ ~failed' => Alive("recv")' \/ Has(todo', "spawn", "recv")
      BY <2>3 DEF Streams
    <3>4. QED BY <1>1, <2>1, <3>1, <3>2, <3>3 DEF StreamKept
  <2>13. QED BY <2>2, <2>5, <2>6, <2>8, <2>9, <2>10, <2>11, <2>12 DEF SessInv
<1>4. QED BY <1>2, <1>3 DEF Stop

\* Waiting for a task: it has gone, or the stop gives up on it.
LEMMA JoinStep ==
  ASSUME SessInv, Join
  PROVE  SessInv'
<1>1. /\ At("join") /\ Then(<<>>)
      /\ UNCHANGED <<conn, stream, running, decoder, key, sock, task, handle, stacks, failed, reused>>
      /\ excuse \subseteq excuse'
      /\ handle[On] /\ task[On].at # "none" => "overrun" \in excuse'
      /\ ~handle[On] => excuse' = excuse
  BY DEF Join, control, shared, history
<1>2. /\ Shape(todo) /\ Shape(todo') /\ todo # <<>> /\ todo[1].op = "join" /\ On = todo[1].on
      /\ Left(todo[1], todo, todo') /\ todo[1] \in Ops
      /\ Fields /\ OnlyCurrent /\ TasksKnown /\ KeyHeld /\ DecoderHeld /\ SocketsKnown
      /\ StreamKept
  BY <1>1, DoneIs
<1>3. Fields' /\ SocketsKnown' /\ DecoderHeld'
  BY <1>1, <1>2, FieldsSame, SocketsSame, DecoderSame
<1>4. OnlyCurrent'
  BY <1>1, <1>2, OnlyCurrentRest
<1>5. \A t \in Tasks : Alive(t)' <=> Alive(t)
  BY <1>1 DEF Alive
<1>6. /\ \A t : /\ Has(todo, "join", t) => t = On \/ Has(todo', "join", t)
                /\ Has(todo, "tick", t) => Has(todo', "tick", t)
                /\ ~Has(todo, "handle", t)
                /\ Has(todo', "spawn", t) <=> Has(todo, "spawn", t)
      /\ \A ops : "join" \notin ops => (Some(todo', ops) <=> Some(todo, ops))
      /\ \A op, s : op # "join" => (Has(todo', op, s) <=> Has(todo, op, s))
  <2>1. \A op, on : Has(todo, op, on) <=> (op = "join" /\ on = On) \/ Has(todo', op, on)
    BY <1>2 DEF Left
  <2>2. \A t : ~Has(todo', "handle", t)
    BY <1>2 DEF Left, Later
  <2>3. \A ops : Some(todo, ops) <=> "join" \in ops \/ Some(todo', ops)
    BY <1>2 DEF Left
  <2>4. QED BY <2>1, <2>2, <2>3
<1>7. TasksKnown'
  <2>1. "overrun" \notin excuse' => ~Alive(On)
    <3>1. On \in Tasks
      BY <1>2, OpsOn
    <3>2. Alive(On) => handle[On] /\ task[On].at # "none"
      BY <1>2, <1>6, <3>1 DEF TasksKnown, Alive
    <3>3. QED BY <1>1, <3>2
  <2>2. "overrun" \notin excuse' =>
          \A t \in Tasks : Alive(t)' => running'[StreamOf(t)] \/ Has(todo', "join", t)
    BY <1>1, <1>2, <1>5, <1>6, <2>1 DEF TasksKnown
  <2>3. excuse' = {} => excuse = {}
    BY <1>1
  <2>4. QED BY <1>1, <1>2, <1>5, <1>6, <2>2, <2>3 DEF TasksKnown
<1>8. KeyHeld'
  BY <1>1, <1>2, <1>5, <1>6 DEF KeyHeld, Feeders, Tasks, Closing
<1>9. StreamKept'
  <2>1. excuse' = {} => excuse = {}
    BY <1>1
  <2>2. /\ Some(todo', {"select", "assign"}) <=> Some(todo, {"select", "assign"})
        /\ Some(todo', {"select", "assign", "stop"}) <=> Some(todo, {"select", "assign", "stop"})
        /\ Some(todo', {"start"} \cup Closing) <=> Some(todo, {"start"} \cup Closing)
        /\ Some(todo', {"start", "listen"} \cup Closing) <=> Some(todo, {"start", "listen"} \cup Closing)
        /\ Some(todo', {"play"}) <=> Some(todo, {"play"})
    BY <1>6 DEF Closing
  <2>3. \A s : (Has(todo', "select", s) <=> Has(todo, "select", s))
               /\ (Has(todo', "assign", s) <=> Has(todo, "assign", s))
    BY <1>6
  <2>4. QED BY <1>1, <1>2, <1>5, <1>6, <2>1, <2>2, <2>3 DEF StreamKept, Tasks
<1>10. QED BY <1>2, <1>3, <1>4, <1>7, <1>8, <1>9 DEF SessInv

\* The tick after the tasks have cleared their handles, in which they are deleted.
LEMMA TickStep ==
  ASSUME SessInv, TickOver
  PROVE  SessInv'
<1>1. /\ At("tick") /\ Then(<<>>)
      /\ UNCHANGED <<conn, stream, running, decoder, key, sock, task, handle, stacks, failed, excuse,
                     reused>>
      /\ (\A t \in TasksOf(On) : ~handle[t]) => \A t \in TasksOf(On) : task[t].at = "none"
  BY DEF TickOver, control, shared, history
<1>2. /\ Shape(todo) /\ Shape(todo') /\ todo # <<>> /\ todo[1].op = "tick" /\ On = todo[1].on
      /\ Left(todo[1], todo, todo') /\ todo[1] \in Ops /\ On \in Streams
      /\ Fields /\ OnlyCurrent /\ TasksKnown /\ KeyHeld /\ DecoderHeld /\ SocketsKnown
      /\ StreamKept
  BY <1>1, DoneIs, OpsOn
<1>3. Fields' /\ SocketsKnown' /\ DecoderHeld'
  BY <1>1, <1>2, FieldsSame, SocketsSame, DecoderSame
<1>4. OnlyCurrent'
  BY <1>1, <1>2, OnlyCurrentRest
<1>5. KeyHeld' /\ StreamKept'
  BY <1>1, <1>2, KeyHeldRest, StreamKeptRest
<1>6. \A t \in Tasks : Alive(t)' <=> Alive(t)
  BY <1>1 DEF Alive
<1>7. TasksKnown'
  <2>1. /\ \A t : ~Has(todo, "join", t)
        /\ \A s : Has(todo, "tick", s) => s = On \/ Has(todo', "tick", s)
        /\ \A t : Has(todo, "handle", t) => Has(todo', "handle", t)
        /\ \A t : Has(todo', "spawn", t) => Has(todo, "spawn", t)
        /\ \A t : Has(todo, "join", t) => Has(todo', "join", t)
    BY <1>2 DEF Left, Later
  <2>2. \A s \in Streams : ~running[s]
    BY <1>2 DEF OnlyCurrent
  <2>3. excuse = {} => \A t \in Tasks : ~Alive(t) /\ ~handle[t]
    BY <1>2, <2>1, <2>2 DEF TasksKnown, StreamOf, Streams
  <2>4. \A t \in Tasks : StreamOf(t) = On => t \in TasksOf(On)
    BY <1>2 DEF StreamOf, TasksOf, Tasks, Streams
  <2>5. TasksOf(On) \subseteq Tasks
    BY DEF TasksOf, Tasks
  <2>6. excuse = {} => \A t \in Tasks : StreamOf(t) = On => task[t].at = "none"
    BY <1>1, <2>3, <2>4, <2>5
  <2>7. excuse' = {} => \A t \in Tasks :
          task'[t].at # "none" => running'[StreamOf(t)] \/ Has(todo', "tick", StreamOf(t))
    BY <1>1, <1>2, <2>1, <2>6 DEF TasksKnown
  <2>8. QED BY <1>1, <1>2, <1>6, <2>1, <2>7 DEF TasksKnown
<1>8. QED BY <1>2, <1>3, <1>4, <1>5, <1>7 DEF SessInv

\* A task is created on its memory.
LEMMA CreateStep ==
  ASSUME SessInv, Create
  PROVE  SessInv'
<1>1. /\ At("spawn") /\ Then(<<>>)
      /\ UNCHANGED <<conn, stream, running, decoder, key, sock, handle, stacks, failed, excuse>>
      /\ reused' = (reused \/ task[On].at # "none")
  BY DEF Create, control, shared, history
<1>2. /\ Shape(todo) /\ Shape(todo') /\ todo # <<>> /\ todo[1].op = "spawn" /\ On = todo[1].on
      /\ Left(todo[1], todo, todo') /\ todo[1] \in Ops /\ On \in Tasks
      /\ Fields /\ OnlyCurrent /\ TasksKnown /\ KeyHeld /\ DecoderHeld /\ SocketsKnown
      /\ StreamKept
  BY <1>1, DoneIs, OpsOn
<1>3. PICK new : new = [NoTask EXCEPT !.at = IF On = "tcp" THEN "accept" ELSE "run"]
  OBVIOUS
<1>4. new = [at |-> IF On = "tcp" THEN "accept" ELSE "run", clear |-> FALSE, dec |-> 0]
  BY <1>3 DEF NoTask
<1>5. /\ new.at \in {"accept", "run"} /\ new.clear = FALSE /\ new.dec = 0
      /\ new = [at |-> new.at, clear |-> new.clear, dec |-> new.dec]
  BY <1>4
<1>6. task' = IF task[On].at # "none" THEN task ELSE [task EXCEPT ![On] = new]
  BY <1>3 DEF Create
<1>7. /\ task' = [t \in Tasks |-> task'[t]]
      /\ \A t \in Tasks : task'[t] = IF t = On /\ task[On].at = "none" THEN new ELSE task[t]
  <2>1. CASE task[On].at # "none"
    BY <1>2, <1>6, <2>1 DEF Fields
  <2>2. CASE task[On].at = "none"
    BY <1>2, <1>6, <2>2 DEF Fields
  <2>3. QED BY <2>1, <2>2
<1>8. \A t \in Tasks : /\ Alive(t)' <=> Alive(t) \/ (t = On /\ task[On].at = "none")
                       /\ t # On => task'[t] = task[t]
                       /\ task'[t].at \in {"packet", "decode"} => task'[t] = task[t]
  <2> TAKE t \in Tasks
  <2>1. CASE t = On /\ task[On].at = "none"
    <3>1. task'[t] = new
      BY <1>7, <2>1
    <3>2. QED BY <1>5, <2>1, <3>1 DEF Alive
  <2>2. CASE ~(t = On /\ task[On].at = "none")
    <3>1. task'[t] = task[t]
      BY <1>7, <2>2
    <3>2. QED BY <2>2, <3>1 DEF Alive
  <2>3. QED BY <2>1, <2>2
<1>9. Fields'
  BY <1>1, <1>2, <1>5, <1>7 DEF Fields
<1>10. OnlyCurrent'
  BY <1>1, <1>2, OnlyCurrentRest
<1>11. running[StreamOf(On)] /\ Has(todo, "spawn", On) /\ Has(todo', "handle", On)
       /\ ~Has(todo', "spawn", On)
  <2>1. todo' # <<>> /\ 1 \in 1 .. Len(todo')
    BY <1>2, EmptySeq DEF Left, Final
  <2>2. Follows(todo[1], todo'[1])
    BY <1>2, <2>1 DEF Left
  <2>3. todo'[1].op = "handle" /\ todo'[1].on = On
    BY <1>2, <2>2 DEF Follows
  <2>4. QED BY <1>2, <2>1, <2>3 DEF OnlyCurrent, Left, Later, Has
<1>12. \A op, on : op # "spawn" => (Has(todo, op, on) <=> Has(todo', op, on))
  BY <1>2 DEF Left
<1>13. TasksKnown'
  <2>1. "overrun" \notin excuse' =>
          \A t \in Tasks : Alive(t)' => running'[StreamOf(t)] \/ Has(todo', "join", t)
    BY <1>1, <1>2, <1>8, <1>11, <1>12 DEF TasksKnown
  <2>2. \A t \in Tasks : Alive(t)' => handle'[t] \/ Has(todo', "handle", t)
    BY <1>1, <1>2, <1>8, <1>11, <1>12 DEF TasksKnown
  <2>3. excuse' = {} => \A t \in Tasks :
          task'[t].at # "none" => running'[StreamOf(t)] \/ Has(todo', "tick", StreamOf(t))
    BY <1>1, <1>2, <1>8, <1>11, <1>12 DEF TasksKnown
  <2>4. \A t : Has(todo', "spawn", t) => Has(todo, "spawn", t)
    BY <1>2 DEF Left
  <2>5. excuse' = {} => \A t \in Tasks : /\ Has(todo', "spawn", t) => task'[t].at = "none"
                                         /\ handle'[t] => Alive(t)'
    BY <1>1, <1>2, <1>8, <1>11, <2>4 DEF TasksKnown
  <2>6. reused' => excuse' # {}
    BY <1>1, <1>2, <1>11 DEF TasksKnown
  <2>7. QED BY <2>1, <2>2, <2>3, <2>5, <2>6 DEF TasksKnown
<1>14. KeyHeld'
  <2>1. Some(todo, {"start", "listen", "spawn", "play"}) /\ ~Some(todo, {"key"})
    BY <1>2 DEF Left, Later
  <2>2. key
    BY <1>2, <2>1 DEF KeyHeld
  <2>3. QED BY <1>1, <1>2, <1>8, <2>2 DEF KeyHeld, Feeders, Tasks
<1>15. DecoderHeld'
  BY <1>1, <1>2, <1>8 DEF DecoderHeld, Feeders, Tasks
<1>16. SocketsKnown'
  <2>1. task["tcp"].at # "none" => task'["tcp"] = task["tcp"]
    BY <1>7 DEF Tasks
  <2>2. QED BY <1>1, <1>2, <2>1 DEF SocketsKnown
<1>17. StreamKept'
  <2>1. excuse' = {} =>
         /\ running'["buffered"] => Alive("tcp")' \/ Has(todo', "spawn", "tcp")
         /\ running'["realtime"] /\ ~failed' => Alive("recv")' \/ Has(todo', "spawn", "recv")
    <3>1. \A t : Has(todo, "spawn", t) => t = On \/ Has(todo', "spawn", t)
      BY <1>2 DEF Left
    <3>2. excuse = {} => \A t \in Tasks : t = On => Alive(t)'
      BY <1>2, <1>8, <1>11 DEF TasksKnown
    <3>3. QED BY <1>1, <1>2, <1>8, <3>1, <3>2 DEF StreamKept, Tasks
  <2>2. \A s : (Has(todo', "select", s) <=> Has(todo, "select", s))
               /\ (Has(todo', "assign", s) <=> Has(todo, "assign", s))
    BY <1>12
  <2>3. /\ Some(todo', {"select", "assign"}) <=> Some(todo, {"select", "assign"})
        /\ Some(todo', {"select", "assign", "stop"}) <=> Some(todo, {"select", "assign", "stop"})
        /\ Some(todo', {"start"} \cup Closing) <=> Some(todo, {"start"} \cup Closing)
        /\ Some(todo', {"start", "listen"} \cup Closing) <=> Some(todo, {"start", "listen"} \cup Closing)
        /\ Some(todo', {"play"}) <=> Some(todo, {"play"})
    BY <1>2 DEF Left, Closing
  <2>4. QED BY <1>1, <1>2, <2>1, <2>2, <2>3 DEF StreamKept
<1>18. QED BY <1>2, <1>9, <1>10, <1>13, <1>14, <1>15, <1>16, <1>17 DEF SessInv

\* The handle of a task is stored.
LEMMA HandleStep ==
  ASSUME SessInv, Handle
  PROVE  SessInv'
<1>1. /\ At("handle") /\ Then(<<>>)
      /\ UNCHANGED <<conn, stream, running, decoder, key, sock, task, stacks, failed, reused>>
      /\ handle' = [handle EXCEPT ![On] = TRUE]
      /\ excuse \subseteq excuse' /\ (excuse' = {} => task[On].at \notin {"none", "exit"})
      /\ "overrun" \notin excuse' => "overrun" \notin excuse
  BY DEF Handle, control, shared, history
<1>2. /\ Shape(todo) /\ Shape(todo') /\ todo # <<>> /\ todo[1].op = "handle" /\ On = todo[1].on
      /\ Left(todo[1], todo, todo') /\ todo[1] \in Ops /\ On \in Tasks
      /\ Fields /\ OnlyCurrent /\ TasksKnown /\ KeyHeld /\ DecoderHeld /\ SocketsKnown
      /\ StreamKept
  BY <1>1, DoneIs, OpsOn
<1>3. handle' \in [Tasks -> BOOLEAN] /\ \A t \in Tasks : handle'[t] <=> t = On \/ handle[t]
  <2>1. \A t \in Tasks : handle'[t] = IF t = On THEN TRUE ELSE handle[t]
    BY <1>1, <1>2 DEF Fields
  <2>2. handle' \in [Tasks -> BOOLEAN]
    BY <1>1, <1>2 DEF Fields
  <2>3. QED BY <2>1, <2>2
<1>4. Fields'
  BY <1>1, <1>2, <1>3 DEF Fields
<1>5. SocketsKnown' /\ DecoderHeld'
  BY <1>1, <1>2, SocketsSame, DecoderSame
<1>6. OnlyCurrent'
  BY <1>1, <1>2, OnlyCurrentRest
<1>7. \A t \in Tasks : Alive(t)' <=> Alive(t)
  BY <1>1 DEF Alive
<1>8. /\ \A op, on : op # "handle" => (Has(todo, op, on) <=> Has(todo', op, on))
      /\ \A t : Has(todo, "handle", t) => t = On \/ Has(todo', "handle", t)
      /\ \A ops : "handle" \notin ops => (Some(todo', ops) <=> Some(todo, ops))
  BY <1>2 DEF Left
<1>9. excuse' = {} => excuse = {} /\ Alive(On)
  BY <1>1 DEF Alive
<1>10. TasksKnown'
  <2>1. "overrun" \notin excuse' =>
          \A t \in Tasks : Alive(t)' => running'[StreamOf(t)] \/ Has(todo', "join", t)
    BY <1>1, <1>2, <1>7, <1>8 DEF TasksKnown
  <2>2. \A t \in Tasks : Alive(t)' => handle'[t] \/ Has(todo', "handle", t)
    BY <1>2, <1>3, <1>7, <1>8 DEF TasksKnown
  <2>3. excuse' = {} => \A t \in Tasks :
          /\ task'[t].at # "none" => running'[StreamOf(t)] \/ Has(todo', "tick", StreamOf(t))
          /\ Has(todo', "spawn", t) => task'[t].at = "none"
          /\ handle'[t] => Alive(t)'
    BY <1>1, <1>2, <1>3, <1>7, <1>8, <1>9 DEF TasksKnown
  <2>4. QED BY <1>1, <1>2, <1>9, <2>1, <2>2, <2>3 DEF TasksKnown
<1>11. KeyHeld'
  <2>1. /\ Some(todo', {"start", "listen", "spawn", "play"}) <=>
             Some(todo, {"start", "listen", "spawn", "play"})
        /\ Some(todo, {"key"}) <=> Some(todo', {"key"})
        /\ Some(todo, Closing) <=> Some(todo', Closing)
    BY <1>8 DEF Closing
  <2>2. QED BY <1>1, <1>2, <1>7, <2>1 DEF KeyHeld, Feeders, Tasks
<1>12. StreamKept'
  <2>1. /\ Some(todo', {"select", "assign"}) <=> Some(todo, {"select", "assign"})
        /\ Some(todo', {"select", "assign", "stop"}) <=> Some(todo, {"select", "assign", "stop"})
        /\ Some(todo', {"start"} \cup Closing) <=> Some(todo, {"start"} \cup Closing)
        /\ Some(todo', {"start", "listen"} \cup Closing) <=> Some(todo, {"start", "listen"} \cup Closing)
        /\ Some(todo', {"play"}) <=> Some(todo, {"play"})
    BY <1>8 DEF Closing
  <2>2. \A s : /\ Has(todo', "select", s) <=> Has(todo, "select", s)
               /\ Has(todo', "assign", s) <=> Has(todo, "assign", s)
               /\ Has(todo', "spawn", s) <=> Has(todo, "spawn", s)
    BY <1>8
  <2>3. QED BY <1>1, <1>2, <1>7, <1>9, <2>1, <2>2 DEF StreamKept, Tasks
<1>13. QED BY <1>2, <1>4, <1>5, <1>6, <1>10, <1>11, <1>12 DEF SessInv

\* What the last lines of a handler do to the connection.
LEMMA FinishConn ==
  ASSUME Fields, Finish, todo # <<>>, Head(todo) = todo[1]
  PROVE  /\ conn' = [version |-> conn'.version, announced |-> conn'.announced,
                     type |-> conn'.type, active |-> conn'.active, paused |-> conn'.paused]
         /\ conn'.version = 2 => conn.version = 2 /\ conn'.type = conn.type
         /\ conn'.active => /\ conn.active \/ todo[1].op = "play"
                            /\ todo[1].op \notin {"torn", "free"}
         /\ conn'.announced => conn.announced /\ todo[1].op \notin {"torn", "free"}
<1>1. conn = [version |-> conn.version, announced |-> conn.announced, type |-> conn.type,
              active |-> conn.active, paused |-> conn.paused]
  BY DEF Fields
<1>2. CASE At("play") /\ conn' = [conn EXCEPT !.active = TRUE, !.paused = FALSE]
  <2>1. conn' = [version |-> conn.version, announced |-> conn.announced, type |-> conn.type,
                 active |-> TRUE, paused |-> FALSE]
    BY <1>1, <1>2
  <2>2. QED BY <1>2, <2>1 DEF At
<1>3. CASE At("resume") /\ conn' = [conn EXCEPT !.paused = FALSE]
  <2>1. conn' = [version |-> conn.version, announced |-> conn.announced, type |-> conn.type,
                 active |-> conn.active, paused |-> FALSE]
    BY <1>1, <1>3
  <2>2. QED BY <1>3, <2>1 DEF At
<1>4. CASE At("pause") /\ conn' = [conn EXCEPT !.paused = TRUE]
  <2>1. conn' = [version |-> conn.version, announced |-> conn.announced, type |-> conn.type,
                 active |-> conn.active, paused |-> TRUE]
    BY <1>1, <1>4
  <2>2. QED BY <1>4, <2>1 DEF At
<1>5. CASE At("torn") /\ conn' = [conn EXCEPT !.active = FALSE, !.paused = On = "streams",
                                              !.announced = FALSE]
  <2>1. conn' = [version |-> conn.version, announced |-> FALSE, type |-> conn.type,
                 active |-> FALSE, paused |-> On = "streams"]
    BY <1>1, <1>5
  <2>2. QED BY <1>5, <2>1 DEF At
<1>6. CASE At("free") /\ conn' = NewConn
  BY <1>6 DEF At, NewConn
<1>7. QED BY <1>2, <1>3, <1>4, <1>5, <1>6 DEF Finish

LEMMA FinishStep ==
  ASSUME SessInv, Finish
  PROVE  SessInv'
<1>1. PICK op \in {"play", "resume", "pause", "torn", "free"} : At(op) /\ Then(<<>>)
  BY DEF Finish
<1>2. UNCHANGED <<stream, running, decoder, key, sock, task, handle, stacks, failed, excuse, reused>>
  BY DEF Finish, history
<1>3. /\ Shape(todo) /\ Shape(todo') /\ todo # <<>> /\ todo[1].op = op
      /\ Left(todo[1], todo, todo')
      /\ Fields /\ OnlyCurrent /\ TasksKnown /\ KeyHeld /\ DecoderHeld /\ SocketsKnown
      /\ StreamKept
  BY <1>1, DoneIs
<1>4. Head(todo) = todo[1] /\ todo' = <<>>
  BY <1>3, IsLeft DEF Left, Later
<1>5. /\ conn' = [version |-> conn'.version, announced |-> conn'.announced,
                  type |-> conn'.type, active |-> conn'.active, paused |-> conn'.paused]
      /\ conn'.version = 2 => conn.version = 2 /\ conn'.type = conn.type
      /\ conn'.active => /\ conn.active \/ todo[1].op = "play"
                         /\ todo[1].op \notin {"torn", "free"}
      /\ conn'.announced => conn.announced /\ todo[1].op \notin {"torn", "free"}
  BY <1>3, <1>4, FinishConn
<1>6. Fields'
  BY <1>2, <1>3, <1>5 DEF Fields
<1>7. SocketsKnown' /\ DecoderHeld' /\ TasksKnown' /\ OnlyCurrent'
  BY <1>2, <1>3, SocketsSame, DecoderSame, TasksKnownRest, OnlyCurrentRest
<1>8. /\ \A ops : ~Some(todo', ops) /\ (Some(todo, ops) <=> op \in ops)
      /\ \A o, on : ~Has(todo', o, on) /\ (o # op => ~Has(todo, o, on))
  BY <1>3, <1>4, HasNothing DEF Left
<1>9. \A t \in Tasks : Alive(t)' <=> Alive(t)
  BY <1>2 DEF Alive
<1>10. KeyHeld'
  <2>1. conn'.active \/ conn'.announced => key
    <3>1. CASE op = "play"
      BY <1>3, <1>5, <1>8, <3>1 DEF KeyHeld
    <3>2. CASE op \in {"resume", "pause"}
      BY <1>3, <1>5, <1>8, <3>2 DEF KeyHeld, Closing
    <3>3. QED BY <1>3, <1>5, <3>1, <3>2
  <2>2. QED BY <1>2, <1>3, <1>8, <1>9, <2>1 DEF KeyHeld, Feeders, Tasks
<1>11. StreamKept'
  <2>1. excuse' = {} =>
         /\ running'["buffered"] => Alive("tcp")' \/ Has(todo', "spawn", "tcp")
         /\ running'["realtime"] /\ ~failed' => Alive("recv")' \/ Has(todo', "spawn", "recv")
    BY <1>2, <1>3, <1>8, <1>9 DEF StreamKept, Tasks
  <2>2. conn'.version = 2 =>
         /\ conn'.type \in Streams /\ stream' = conn'.type
    BY <1>2, <1>3, <1>5, <1>8 DEF StreamKept
  <2>3. conn'.version = 2 /\ conn'.active => failed' \/ running'[stream']
    <3> SUFFICES ASSUME conn'.version = 2, conn'.active PROVE failed \/ running[stream]
      BY <1>2
    <3>1. conn.version = 2 /\ (conn.active \/ op = "play") /\ op \notin {"torn", "free"}
      BY <1>3, <1>5
    <3>2. ~Some(todo, {"start", "listen"} \cup Closing) /\ (op = "play" => Some(todo, {"play"}))
      BY <1>8, <3>1 DEF Closing
    <3>3. QED BY <1>3, <3>1, <3>2 DEF StreamKept
  <2>4. QED BY <1>8, <2>1, <2>2, <2>3 DEF StreamKept
<1>12. QED BY <1>3, <1>6, <1>7, <1>10, <1>11 DEF SessInv

\* The tasks of a stream are created: what is left then begins with them.
LEMMA SpawnProgram ==
  ASSUME NEW t \in Tasks, NEW r, Shape(r), r # <<>>,
         \/ r[1].op \in {"play", "resume", "select"}
         \/ t = "recv" /\ r[1].op = "spawn" /\ r[1].on = "ctrl",
         \A j \in 1 .. Len(r) : Precedes(Op("spawn", t), r[j]) /\ Precedes(Op("handle", t), r[j]),
         NEW s, Switching(r, s)
  PROVE  /\ Shape(Spawn(t) \o r) /\ Spawn(t) \o r # <<>>
         /\ (Spawn(t) \o r)[1] = Op("spawn", t) /\ Switching(Spawn(t) \o r, s)
         /\ \A op, on : Has(Spawn(t) \o r, op, on) <=>
              (op \in {"spawn", "handle"} /\ on = t) \/ Has(r, op, on)
         /\ \A ops : Some(Spawn(t) \o r, ops) <=>
              "spawn" \in ops \/ "handle" \in ops \/ Some(r, ops)
         /\ \A y : Precedes(y, Op("spawn", t)) /\ Precedes(y, Op("handle", t))
                   /\ (\A j \in 1 .. Len(r) : Precedes(y, r[j])) =>
              \A j \in 1 .. Len(Spawn(t) \o r) : Precedes(y, (Spawn(t) \o r)[j])
<1> DEFINE a == Op("spawn", t)  b == Op("handle", t)  q == <<b>> \o r
<1>1. /\ a \in Ops /\ a.op = "spawn" /\ a.on = t /\ b \in Ops /\ b.op = "handle" /\ b.on = t
  BY DEF Op, Ops
<1>2. r \in Seq(Ops)
  BY DEF Shape
<1>3. Spawn(t) \o r = <<a>> \o q
  <2>1. Spawn(t) \o r = <<a, b>> \o r
    BY DEF Spawn
  <2> HIDE DEF a, b
  <2>2. <<a, b>> \o r = <<a>> \o (<<b>> \o r)
    BY <1>1, <1>2, UnfoldTwo
  <2>3. QED BY <2>1, <2>2, Zenon DEF q
<1>4. (\A j \in 1 .. Len(r) : Precedes(a, r[j])) /\ (\A j \in 1 .. Len(r) : Precedes(b, r[j]))
  OBVIOUS
<1> HIDE DEF a, b
<1>5. Follows(b, r[1]) /\ Follows(a, b) /\ Precedes(a, b)
  BY <1>1 DEF Follows, Precedes, Naming, Closing
<1>6. /\ Shape(q) /\ q # <<>> /\ q[1] = b /\ Left(b, q, r) /\ Switching(q, s)
      /\ \A y : Precedes(y, b) /\ (\A j \in 1 .. Len(r) : Precedes(y, r[j])) =>
           \A j \in 1 .. Len(q) : Precedes(y, q[j])
  BY <1>1, <1>4, <1>5, Prepending
<1> HIDE DEF q
<1> DEFINE m == <<a>> \o q
<1>7. /\ Shape(m) /\ m # <<>> /\ m[1] = a /\ Left(a, m, q) /\ Switching(m, s)
      /\ \A y : Precedes(y, a) /\ (\A j \in 1 .. Len(q) : Precedes(y, q[j])) =>
           \A j \in 1 .. Len(m) : Precedes(y, m[j])
  <2>1. \A j \in 1 .. Len(q) : Precedes(a, q[j])
    BY <1>4, <1>5, <1>6
  <2>2. QED BY <1>1, <1>5, <1>6, <2>1, Prepending
<1> HIDE DEF m
<1>8. /\ \A op, on : Has(m, op, on) <=> (op \in {"spawn", "handle"} /\ on = t) \/ Has(r, op, on)
      /\ \A ops : Some(m, ops) <=> "spawn" \in ops \/ "handle" \in ops \/ Some(r, ops)
  BY <1>1, <1>6, <1>7 DEF Left
<1>9. \A y : Precedes(y, a) /\ Precedes(y, b) /\ (\A j \in 1 .. Len(r) : Precedes(y, r[j])) =>
        \A j \in 1 .. Len(m) : Precedes(y, m[j])
  BY <1>6, <1>7
<1>10. Spawn(t) \o r = m
  BY <1>3 DEF m
<1>11. QED BY <1>7, <1>8, <1>9, <1>10 DEF a, b

\* A start that changes nothing: the stream runs already, or cannot be started.
LEMMA NotOpenedStep ==
  ASSUME SessInv, NEW op \in {"start", "listen"}, At(op), Then(<<>>),
         UNCHANGED <<conn, stream, running, decoder, key, task, handle, stacks, excuse, reused>>,
         failed' = TRUE \/ (failed' = failed /\ running[stream]),
         SocketsKnown'
  PROVE  SessInv'
<1>1. /\ Shape(todo) /\ Shape(todo') /\ todo # <<>> /\ todo[1].op = op
      /\ Left(todo[1], todo, todo')
      /\ Fields /\ OnlyCurrent /\ TasksKnown /\ KeyHeld /\ DecoderHeld /\ SocketsKnown
      /\ StreamKept
  BY DoneIs
<1>2. Fields' /\ DecoderHeld' /\ TasksKnown'
  BY <1>1, FieldsSame, DecoderSame, TasksKnownRest
<1>3. OnlyCurrent' /\ KeyHeld'
  BY <1>1, OnlyCurrentRest, KeyHeldRest
<1>4. \A t \in Tasks : Alive(t)' <=> Alive(t)
  BY DEF Alive
<1>5. StreamKept'
  <2>1. excuse' = {} =>
         /\ running'["buffered"] => Alive("tcp")' \/ Has(todo', "spawn", "tcp")
         /\ running'["realtime"] /\ ~failed' => Alive("recv")' \/ Has(todo', "spawn", "recv")
    <3>1. \A t : Has(todo, "spawn", t) <=> Has(todo', "spawn", t)
      BY <1>1 DEF Left
    <3>2. QED BY <1>1, <1>4, <3>1 DEF StreamKept, Tasks
  <2>2. /\ \A s : Has(todo', "select", s) => Has(todo, "select", s)
        /\ \A s : Has(todo', "assign", s) => Has(todo, "assign", s)
        /\ Some(todo, {"select", "assign"}) => Some(todo', {"select", "assign"})
    BY <1>1 DEF Left
  <2>3. Some(todo', {"select", "assign", "stop"}) =>
          /\ Some(todo, {"select", "assign", "stop"})
          /\ Some(todo, {"start"} \cup Closing) => Some(todo', {"start"} \cup Closing)
    BY <1>1 DEF Left, Later, Closing
  <2>4. QED BY <1>1, <2>1, <2>2, <2>3 DEF StreamKept
<1>6. QED BY <1>1, <1>2, <1>3, <1>5 DEF SessInv

\* A start that succeeds: the stream runs and its tasks T are about to be created.
LEMMA OpenedStep ==
  ASSUME SessInv, NEW op \in {"start", "listen"}, At(op), NEW s \in Streams, On = s, ~running[s],
         op = "listen" => s = "buffered",
         NEW f \in Feeders, StreamOf(f) = s,
         NEW T, f \in T, \A t \in T : t \in Tasks /\ StreamOf(t) = s,
         running' = [running EXCEPT ![s] = TRUE], failed' = FALSE,
         UNCHANGED <<conn, stream, decoder, key, task, handle, stacks, excuse, reused>>,
         SocketsKnown',
         Shape(todo'), todo' # <<>>, todo'[1] = Op("spawn", f), Switching(todo', stream),
         \A o, on : Has(todo', o, on) <=>
           (o \in {"spawn", "handle"} /\ on \in T) \/ Has(Tail(todo), o, on),
         \A ops : Some(todo', ops) <=> "spawn" \in ops \/ "handle" \in ops \/ Some(Tail(todo), ops)
  PROVE  SessInv'
<1> DEFINE r == Tail(todo)
<1>1. /\ Shape(todo) /\ todo # <<>> /\ todo[1].op = op /\ todo[1].on = s
      /\ Left(todo[1], todo, r)
      /\ Fields /\ OnlyCurrent /\ TasksKnown /\ KeyHeld /\ DecoderHeld /\ SocketsKnown
      /\ StreamKept
  BY BeginIs
<1>2. /\ \A o, on : Has(todo', o, on) <=>
           (o \in {"spawn", "handle"} /\ on \in T) \/ Has(r, o, on)
      /\ \A ops : Some(todo', ops) <=> "spawn" \in ops \/ "handle" \in ops \/ Some(r, ops)
  OBVIOUS
<1> HIDE DEF r
<1>3. /\ \A o, on : Has(todo, o, on) <=> (o = op /\ on = s) \/ Has(r, o, on)
      /\ \A ops : Some(todo, ops) <=> op \in ops \/ Some(r, ops)
  BY <1>1 DEF Left
<1>4. /\ \A t : ~Has(r, "join", t) /\ ~Has(r, "tick", t) /\ ~Has(r, "spawn", t)
                /\ ~Has(r, "handle", t)
      /\ ~Some(r, Closing) /\ ~Some(r, {"key"})
      /\ \A x : Has(r, "select", x) \/ Has(r, "assign", x) \/ Has(r, "start", x) => x = s
      /\ op = "start" => ~Some(r, {"select", "assign"}) /\ ~Some(r, {"select", "assign", "stop"})
  BY <1>1 DEF Left, Later, Closing, Naming
<1>5. stream = s
  <2>1. CASE op = "start"
    <3>1. Has(todo, "start", s) /\ ~Some(todo, {"select", "assign"})
      BY <1>3, <1>4, <2>1
    <3>2. QED BY <1>1, <3>1 DEF OnlyCurrent
  <2>2. CASE op = "listen"
    BY <1>1, <2>2 DEF OnlyCurrent
  <2>3. QED BY <2>1, <2>2
<1>6. running' \in [Streams -> BOOLEAN] /\ \A x \in Streams : running'[x] <=> x = s
  <2>1. running' \in [Streams -> BOOLEAN]
    BY <1>1 DEF Fields
  <2>2. \A x \in Streams : running'[x] = IF x = s THEN TRUE ELSE running[x]
    BY <1>1 DEF Fields
  <2>3. \A x \in Streams : running[x] => x = s
    BY <1>1, <1>5 DEF OnlyCurrent
  <2>4. QED BY <2>1, <2>2, <2>3
<1>7. Fields'
  BY <1>1, <1>6 DEF Fields
<1>8. OnlyCurrent'
  <2>1. todo'[1].op = "spawn" /\ todo'[1].on = f
    BY DEF Op
  <2>2. ~Some(todo', Closing)
    BY <1>2, <1>4 DEF Closing
  <2>3. \A x \in Streams : Has(todo', "start", x) => x = s
    BY <1>2, <1>4
  <2>4. QED BY <1>5, <1>6, <2>1, <2>2, <2>3 DEF OnlyCurrent
<1>9. \A t \in Tasks : Alive(t)' <=> Alive(t)
  BY DEF Alive
<1>10. \A t \in Tasks : StreamOf(t) \in Streams
  BY DEF StreamOf, Streams
<1>11. TasksKnown'
  <2>1. \A t \in Tasks : running[StreamOf(t)] => running'[StreamOf(t)]
    BY <1>1, <1>5, <1>6, <1>10 DEF OnlyCurrent
  <2>2. \A t : ~Has(todo, "join", t) /\ ~Has(todo, "tick", t) /\ ~Has(todo, "handle", t)
    BY <1>3, <1>4
  <2>3. \A t : Has(todo', "spawn", t) => t \in T
    BY <1>2, <1>4
  <2>4. excuse = {} => \A t \in T : task[t].at = "none"
    BY <1>1, <2>2 DEF TasksKnown
  <2>5. QED BY <1>1, <1>9, <2>1, <2>2, <2>3, <2>4 DEF TasksKnown
<1>12. KeyHeld'
  <2>1. Some(todo, {"start", "listen", "spawn", "play"}) /\ ~Some(todo, {"key"})
    BY <1>3, <1>4
  <2>2. key
    BY <1>1, <2>1 DEF KeyHeld
  <2>3. QED BY <1>1, <1>9, <2>2 DEF KeyHeld, Feeders, Tasks
<1>13. DecoderHeld'
  BY <1>1, DecoderSame
<1>14. StreamKept'
  <2>1. excuse' = {} =>
         /\ running'["buffered"] => Alive("tcp")' \/ Has(todo', "spawn", "tcp")
         /\ running'["realtime"] /\ ~failed' => Alive("recv")' \/ Has(todo', "spawn", "recv")
    <3>1. Has(todo', "spawn", f)
      BY <1>2
    <3>2. (s = "buffered" => f = "tcp") /\ (s = "realtime" => f = "recv")
      BY DEF StreamOf, Feeders
    <3>3. QED BY <1>6, <3>1, <3>2 DEF Streams
  <2>2. \A x : Has(todo', "select", x) \/ Has(todo', "assign", x) =>
           Has(todo, "select", x) \/ Has(todo, "assign", x)
    BY <1>2, <1>3
  <2>3. Some(todo, {"select", "assign"}) => Some(todo', {"select", "assign"})
    BY <1>2, <1>3
  <2>4. Some(todo', {"select", "assign", "stop"}) =>
          /\ Some(todo, {"select", "assign", "stop"})
          /\ Some(todo, {"start"} \cup Closing) => Some(todo', {"start"} \cup Closing)
    BY <1>2, <1>3, <1>4 DEF Closing
  <2>5. running'[stream']
    BY <1>5, <1>6
  <2>6. QED BY <1>1, <2>1, <2>2, <2>3, <2>4, <2>5 DEF StreamKept
<1>15. QED BY <1>7, <1>8, <1>11, <1>12, <1>13, <1>14 DEF SessInv

LEMMA SpawnIsProgram ==
  ASSUME NEW t \in Tasks
  PROVE  Spawn(t) \in Seq(Ops)
<1>1. Op("spawn", t) \in Ops /\ Op("handle", t) \in Ops
  BY DEF Op, Ops
<1>2. QED BY <1>1, PairIs DEF Spawn

\* realtime_start.
LEMMA OpenRealtimeStep ==
  ASSUME SessInv, OpenRealtime
  PROVE  SessInv'
<1> DEFINE r == Tail(todo)
<1>1. /\ At("start") /\ On = "realtime"
      /\ UNCHANGED <<conn, stream, decoder, key, task, handle, stacks, excuse, reused>>
  BY DEF OpenRealtime, control, shared
<1>2. /\ Shape(todo) /\ todo # <<>> /\ todo[1].op = "start" /\ todo[1].on = "realtime"
      /\ Left(todo[1], todo, r) /\ r \in Seq(Ops) /\ Fields /\ OnlyCurrent /\ SocketsKnown
  BY <1>1, BeginIs
<1>3. ~running["realtime"] /\ "realtime" \in Streams /\ "start" \in {"start", "listen"}
  BY <1>2 DEF OnlyCurrent, Streams
<1>4. CASE failed' = TRUE /\ Then(<<>>) /\ UNCHANGED <<running, sock>>
  <2>1. SocketsKnown'
    BY <1>1, <1>2, <1>4, SocketsSame
  <2>2. QED BY <1>1, <1>3, <1>4, <2>1, NotOpenedStep
<1>5. CASE /\ "recv" \notin stacks /\ failed' = ("recv" \notin stacks) /\ Then(<<>>)
           /\ running' = [running EXCEPT !["realtime"] = "recv" \in stacks]
           /\ sock' = sock \cup {"data"} \cup
                        (IF "recv" \in stacks /\ "ctrl" \notin stacks THEN {} ELSE {"control"})
  <2>1. failed' = TRUE
    BY <1>5
  <2>2. running' = running
    BY <1>2, <1>3, <1>5 DEF Fields
  <2>3. SocketsKnown'
    BY <1>1, <1>2, <1>5, <2>2 DEF SocketsKnown
  <2>4. QED BY <1>1, <1>3, <1>5, <2>1, <2>2, <2>3, NotOpenedStep
<1>6. CASE /\ "recv" \in stacks /\ failed' = ("recv" \notin stacks)
           /\ Then(Spawn("recv") \o (IF "ctrl" \in stacks THEN Spawn("ctrl") ELSE <<>>))
           /\ running' = [running EXCEPT !["realtime"] = "recv" \in stacks]
           /\ sock' = sock \cup {"data"} \cup
                        (IF "recv" \in stacks /\ "ctrl" \notin stacks THEN {} ELSE {"control"})
  <2>1. failed' = FALSE
    BY <1>6
  <2>2. running' = [running EXCEPT !["realtime"] = TRUE]
    BY <1>6
  <2>3. SocketsKnown'
    <3>1. running'["realtime"] /\ running'["buffered"] = running["buffered"]
      BY <1>2, <2>2 DEF Fields, Streams
    <3>2. ("listen" \in sock' <=> "listen" \in sock) /\ ("client" \in sock' <=> "client" \in sock)
      BY <1>6
    <3>3. QED BY <1>1, <1>2, <3>1, <3>2 DEF SocketsKnown
  <2>4. Shape(r) /\ r # <<>> /\ r[1].op \in {"play", "resume"} /\ Switching(r, stream)
    <3>1. r # <<>> /\ Shape(r)
      BY <1>2 DEF Left, Final
    <3>2. 1 \in 1 .. Len(r)
      BY <1>2, <3>1, EmptySeq
    <3>3. Precedes(todo[1], r[1])
      BY <1>2, <3>2 DEF Left
    <3>4. Switching(r, stream)
      BY <1>2, SwitchingRest DEF OnlyCurrent
    <3>5. QED BY <1>2, <3>1, <3>3, <3>4 DEF Precedes
  <2>5. \A t \in Tasks : \A j \in 1 .. Len(r) :
          Precedes(Op("spawn", t), r[j]) /\ Precedes(Op("handle", t), r[j])
    <3> TAKE t \in Tasks
    <3> TAKE j \in 1 .. Len(r)
    <3>1. Precedes(todo[1], r[j])
      BY <1>2 DEF Left
    <3>2. r[j].op \in {"play", "resume"}
      BY <1>2, <3>1 DEF Precedes
    <3>3. QED BY <3>2 DEF Precedes, Op, Naming, Closing
  <2>6. "recv" \in Tasks /\ "ctrl" \in Tasks /\ "recv" \in Feeders
        /\ StreamOf("recv") = "realtime" /\ StreamOf("ctrl") = "realtime"
    BY DEF Tasks, Feeders, StreamOf
  <2>7. Spawn("recv") \in Seq(Ops) /\ Spawn("ctrl") \in Seq(Ops)
    BY <2>6, SpawnIsProgram
  <2> HIDE DEF r
  <2>8. CASE "ctrl" \in stacks
    <3> DEFINE q == Spawn("ctrl") \o r  T == {"recv", "ctrl"}
    <3>1. todo' = Spawn("recv") \o q
      <4>1. todo' = (Spawn("recv") \o Spawn("ctrl")) \o r
        BY <1>6, <2>8 DEF Then, r
      <4>2. QED BY <1>2, <2>7, <4>1, SeqAssoc
    <3>2. /\ Shape(q) /\ q # <<>> /\ q[1] = Op("spawn", "ctrl") /\ Switching(q, stream)
          /\ \A o, on : Has(q, o, on) <=>
               (o \in {"spawn", "handle"} /\ on = "ctrl") \/ Has(r, o, on)
          /\ \A ops : Some(q, ops) <=> "spawn" \in ops \/ "handle" \in ops \/ Some(r, ops)
          /\ \A y : Precedes(y, Op("spawn", "ctrl")) /\ Precedes(y, Op("handle", "ctrl"))
                    /\ (\A j \in 1 .. Len(r) : Precedes(y, r[j])) =>
               \A j \in 1 .. Len(q) : Precedes(y, q[j])
      BY <2>4, <2>5, <2>6, SpawnProgram
    <3> HIDE DEF q
    <3>3. /\ Precedes(Op("spawn", "recv"), Op("spawn", "ctrl"))
          /\ Precedes(Op("spawn", "recv"), Op("handle", "ctrl"))
          /\ Precedes(Op("handle", "recv"), Op("spawn", "ctrl"))
          /\ Precedes(Op("handle", "recv"), Op("handle", "ctrl"))
          /\ Op("spawn", "ctrl").op = "spawn" /\ Op("spawn", "ctrl").on = "ctrl"
      BY DEF Precedes, Op, Naming, Closing
    <3>4. \A j \in 1 .. Len(q) :
            Precedes(Op("spawn", "recv"), q[j]) /\ Precedes(Op("handle", "recv"), q[j])
      BY <2>5, <2>6, <3>2, <3>3
    <3>5. /\ Shape(todo') /\ todo' # <<>> /\ todo'[1] = Op("spawn", "recv")
          /\ Switching(todo', stream)
          /\ \A o, on : Has(todo', o, on) <=>
               (o \in {"spawn", "handle"} /\ on = "recv") \/ Has(q, o, on)
          /\ \A ops : Some(todo', ops) <=> "spawn" \in ops \/ "handle" \in ops \/ Some(q, ops)
      BY <2>6, <3>1, <3>2, <3>3, <3>4, SpawnProgram
    <3>6. /\ \A o, on : Has(todo', o, on) <=>
               (o \in {"spawn", "handle"} /\ on \in T) \/ Has(Tail(todo), o, on)
          /\ \A ops : Some(todo', ops) <=>
               "spawn" \in ops \/ "handle" \in ops \/ Some(Tail(todo), ops)
      BY <3>2, <3>5 DEF r
    <3>7. "recv" \in T /\ \A t \in T : t \in Tasks /\ StreamOf(t) = "realtime"
      BY <2>6
    <3> HIDE DEF T
    <3>8. QED BY <1>1, <1>3, <2>1, <2>2, <2>3, <2>6, <3>5, <3>6, <3>7, OpenedStep
  <2>9. CASE "ctrl" \notin stacks
    <3> DEFINE T == {"recv"}
    <3>1. todo' = Spawn("recv") \o r
      <4>1. todo' = (Spawn("recv") \o <<>>) \o r
        BY <1>6, <2>9 DEF Then, r
      <4>2. Spawn("recv") \o <<>> = Spawn("recv")
        BY <2>7, ConcatEmptySeq
      <4>3. QED BY <4>1, <4>2
    <3>2. /\ Shape(todo') /\ todo' # <<>> /\ todo'[1] = Op("spawn", "recv")
          /\ Switching(todo', stream)
          /\ \A o, on : Has(todo', o, on) <=>
               (o \in {"spawn", "handle"} /\ on = "recv") \/ Has(r, o, on)
          /\ \A ops : Some(todo', ops) <=> "spawn" \in ops \/ "handle" \in ops \/ Some(r, ops)
      BY <2>4, <2>5, <2>6, <3>1, SpawnProgram
    <3>3. /\ \A o, on : Has(todo', o, on) <=>
               (o \in {"spawn", "handle"} /\ on \in T) \/ Has(Tail(todo), o, on)
          /\ \A ops : Some(todo', ops) <=>
               "spawn" \in ops \/ "handle" \in ops \/ Some(Tail(todo), ops)
      BY <3>2 DEF r
    <3>4. "recv" \in T /\ \A t \in T : t \in Tasks /\ StreamOf(t) = "realtime"
      BY <2>6
    <3> HIDE DEF T
    <3>5. QED BY <1>1, <1>3, <2>1, <2>2, <2>3, <2>6, <3>2, <3>3, <3>4, OpenedStep
  <2>10. QED BY <2>8, <2>9
<1>7. QED BY <1>4, <1>5, <1>6 DEF OpenRealtime

\* The handler ends when a buffered stream cannot be started in a SETUP.
LEMMA ListenFails ==
  ASSUME SessInv, At("listen"), On = "buffered", ~running["buffered"], failed' = TRUE,
         todo' = <<>>,
         UNCHANGED <<conn, stream, running, decoder, key, sock, task, handle, stacks, excuse, reused>>
  PROVE  SessInv'
<1>1. /\ Shape(todo) /\ todo # <<>> /\ todo[1].op = "listen" /\ todo[1].on = "buffered"
      /\ Left(todo[1], todo, Tail(todo))
      /\ Fields /\ OnlyCurrent /\ TasksKnown /\ KeyHeld /\ DecoderHeld /\ SocketsKnown
      /\ StreamKept
  BY BeginIs
<1>2. Shape(todo') /\ Switching(todo', stream)
  BY EmptySeq DEF Shape, Switching
<1>3. (\A o, on : ~Has(todo', o, on)) /\ (\A ops : ~Some(todo', ops))
  BY HasNothing
<1>4. /\ \A t : /\ ~Has(todo, "join", t) /\ ~Has(todo, "tick", t) /\ ~Has(todo, "handle", t)
                /\ ~Has(todo, "spawn", t)
      /\ \A s : Has(todo, "select", s) \/ Has(todo, "assign", s) => s = "buffered"
      /\ ~Some(todo, {"key"}) /\ Some(todo, {"start", "listen", "spawn", "play"})
  BY <1>1 DEF Left, Later, Naming
<1>5. Fields' /\ SocketsKnown' /\ DecoderHeld'
  BY <1>1, FieldsSame, SocketsSame, DecoderSame
<1>6. \A t \in Tasks : Alive(t)' <=> Alive(t)
  BY DEF Alive
<1>7. OnlyCurrent'
  BY <1>1, <1>2, <1>3 DEF OnlyCurrent
<1>8. TasksKnown'
  BY <1>1, <1>3, <1>4, <1>6 DEF TasksKnown
<1>9. KeyHeld'
  BY <1>1, <1>3, <1>4, <1>6 DEF KeyHeld, Feeders, Tasks
<1>10. StreamKept'
  <2>1. conn.version = 2 => stream = conn.type
    <3>1. stream = "buffered"
      BY <1>1 DEF OnlyCurrent
    <3>2. Some(todo, {"select", "assign"}) => Has(todo, "select", "buffered") \/
                                              Has(todo, "assign", "buffered")
      <4>1. Some(todo, {"select", "assign"}) =>
              \E s : Has(todo, "select", s) \/ Has(todo, "assign", s)
        BY DEF Some, Has
      <4>2. QED BY <1>4, <4>1
    <3>3. QED BY <1>1, <3>1, <3>2 DEF StreamKept, Streams
  <2>2. QED BY <1>1, <1>3, <1>4, <1>6, <2>1 DEF StreamKept, Tasks
<1>11. QED BY <1>2, <1>5, <1>7, <1>8, <1>9, <1>10 DEF SessInv

\* buffered_start.
LEMMA OpenBufferedStep ==
  ASSUME SessInv, OpenBuffered
  PROVE  SessInv'
<1> DEFINE r == Tail(todo)
<1>1. /\ On = "buffered" /\ UNCHANGED <<conn, stream, decoder, key, task, handle, stacks, excuse,
                                        reused>>
  BY DEF OpenBuffered, control, shared
<1>2. PICK op \in {"start", "listen"} : At(op)
  BY DEF OpenBuffered
<1>3. /\ Shape(todo) /\ todo # <<>> /\ todo[1].op = op /\ todo[1].on = "buffered"
      /\ Left(todo[1], todo, r) /\ r \in Seq(Ops) /\ Fields /\ OnlyCurrent /\ SocketsKnown
  BY <1>1, <1>2, BeginIs
<1>4. CASE running["buffered"] /\ Then(<<>>) /\ UNCHANGED <<running, sock, failed>>
  <2>1. SocketsKnown'
    BY <1>1, <1>3, <1>4, SocketsSame
  <2>2. running[stream]
    BY <1>3, <1>4 DEF OnlyCurrent, Streams
  <2>3. QED BY <1>1, <1>2, <1>4, <2>1, <2>2, NotOpenedStep
<1>5. CASE /\ ~running["buffered"] /\ failed' = TRUE /\ UNCHANGED <<running, sock>>
           /\ todo' = IF At("listen") THEN <<>> ELSE Tail(todo)
  <2>1. CASE At("listen")
    BY <1>1, <1>5, <2>1, ListenFails
  <2>2. CASE ~At("listen")
    <3>1. Then(<<>>)
      BY <1>3, <1>5, <2>2, Rest DEF Then
    <3>2. SocketsKnown'
      BY <1>1, <1>3, <1>5, SocketsSame
    <3>3. QED BY <1>1, <1>2, <1>5, <3>1, <3>2, NotOpenedStep
  <2>3. QED BY <2>1, <2>2
<1>6. CASE /\ ~running["buffered"] /\ sock' = sock \cup {"listen"}
           /\ running' = [running EXCEPT !["buffered"] = TRUE]
           /\ failed' = FALSE /\ Then(Spawn("tcp"))
  <2> DEFINE T == {"tcp"}
  <2>1. SocketsKnown'
    <3>1. running'["buffered"] /\ running'["realtime"] = running["realtime"]
      BY <1>3, <1>6 DEF Fields, Streams
    <3>2. /\ "client" \in sock' <=> "client" \in sock
          /\ sock' \cap {"data", "control"} = sock \cap {"data", "control"}
      BY <1>6
    <3>3. QED BY <1>1, <1>3, <3>1, <3>2 DEF SocketsKnown
  <2>2. todo' = Spawn("tcp") \o r
    BY <1>6 DEF Then
  <2> HIDE DEF r
  <2>3. Shape(r) /\ r # <<>> /\ r[1].op \in {"play", "resume", "select"} /\ Switching(r, stream)
    <3>1. r # <<>> /\ Shape(r)
      BY <1>3 DEF Left, Final
    <3>2. Follows(todo[1], r[1])
      BY <1>3, <3>1 DEF Left
    <3>3. Switching(r, stream)
      BY <1>3, SwitchingRest DEF OnlyCurrent
    <3>4. QED BY <1>3, <3>1, <3>2, <3>3 DEF Follows
  <2>4. \A j \in 1 .. Len(r) : Precedes(Op("spawn", "tcp"), r[j]) /\ Precedes(Op("handle", "tcp"), r[j])
    <3> TAKE j \in 1 .. Len(r)
    <3>1. Precedes(todo[1], r[j])
      BY <1>3 DEF Left
    <3>2. QED BY <1>3, <3>1 DEF Precedes, Op, Naming, Closing
  <2>5. "tcp" \in Tasks /\ "tcp" \in Feeders /\ StreamOf("tcp") = "buffered"
        /\ "buffered" \in Streams
    BY DEF Tasks, Feeders, StreamOf, Streams
  <2>6. /\ Shape(todo') /\ todo' # <<>> /\ todo'[1] = Op("spawn", "tcp")
        /\ Switching(todo', stream)
        /\ \A o, on : Has(todo', o, on) <=>
             (o \in {"spawn", "handle"} /\ on = "tcp") \/ Has(r, o, on)
        /\ \A ops : Some(todo', ops) <=> "spawn" \in ops \/ "handle" \in ops \/ Some(r, ops)
    BY <2>2, <2>3, <2>4, <2>5, SpawnProgram
  <2>7. /\ \A o, on : Has(todo', o, on) <=>
             (o \in {"spawn", "handle"} /\ on \in T) \/ Has(Tail(todo), o, on)
        /\ \A ops : Some(todo', ops) <=>
             "spawn" \in ops \/ "handle" \in ops \/ Some(Tail(todo), ops)
    BY <2>6 DEF r
  <2>8. "tcp" \in T /\ \A t \in T : t \in Tasks /\ StreamOf(t) = "buffered"
    BY <2>5
  <2> HIDE DEF T
  <2>9. QED BY <1>1, <1>2, <1>6, <2>1, <2>5, <2>6, <2>7, <2>8, OpenedStep
<1>7. QED BY <1>4, <1>5, <1>6 DEF OpenBuffered

-----------------------------------------------------------------------------
(* The requests.                                                             *)

\* A handler that has not begun.
Fresh(q) ==
  /\ Shape(q) /\ q # <<>>
  /\ q[1].op \in {"select", "stop", "format", "resume", "pause"}
  /\ \A t : /\ ~Has(q, "join", t) /\ ~Has(q, "tick", t) /\ ~Has(q, "spawn", t)
            /\ ~Has(q, "handle", t)
  /\ \A i \in 1 .. Len(q) : q[i].op # "assign"
  /\ Some(q, Closing) => \A s \in Streams : Has(q, "stop", s)
  /\ \A s : Has(q, "start", s) => Some(q, {"select", "assign"})

LEMMA RequestStep ==
  ASSUME SessInv, todo = <<>>, Fresh(todo'),
         UNCHANGED <<stream, running, decoder, key, sock, task, handle, stacks, failed, excuse,
                     reused>>,
         conn' = [version |-> conn'.version, announced |-> conn'.announced, type |-> conn'.type,
                  active |-> conn'.active, paused |-> conn'.paused],
         conn'.active \/ conn'.announced =>
           key \/ Some(todo', {"key"}) \/ Some(todo', Closing),
         Some(todo', {"start", "listen", "spawn", "play"}) => key \/ Some(todo', {"key"}),
         conn'.version = 2 =>
           /\ conn'.type \in Streams
           /\ stream = conn'.type \/ Some(todo', {"select", "assign"})
           /\ \A s \in Streams : Has(todo', "select", s) => s = conn'.type
           /\ Some(todo', {"select", "assign", "stop"}) => Some(todo', {"start"} \cup Closing)
           /\ conn'.active \/ Some(todo', {"play"}) =>
                failed \/ running[stream] \/ Some(todo', {"start", "listen"} \cup Closing)
  PROVE  SessInv'
<1>1. /\ Fields /\ OnlyCurrent /\ TasksKnown /\ KeyHeld /\ DecoderHeld /\ SocketsKnown
      /\ StreamKept
  BY DEF SessInv
<1>2. (\A o, on : ~Has(todo, o, on)) /\ (\A ops : ~Some(todo, ops))
  BY HasNothing
<1>3. \A s : ~Has(todo', "assign", s)
  BY DEF Fresh, Has
<1>4. Switching(todo', stream)
  <2> SUFFICES ASSUME NEW i \in 1 .. Len(todo'), i + 1 <= Len(todo'), todo'[i + 1].op = "assign"
               PROVE  FALSE
    BY DEF Switching
  <2>1. Len(todo') \in Nat
    BY LenProperties DEF Fresh, Shape
  <2>2. i + 1 \in 1 .. Len(todo')
    BY <2>1
  <2>3. QED BY <2>2 DEF Fresh
<1>5. Fields'
  BY <1>1 DEF Fields
<1>6. SocketsKnown' /\ DecoderHeld'
  BY <1>1, SocketsSame, DecoderSame
<1>7. OnlyCurrent'
  BY <1>1, <1>4 DEF OnlyCurrent, Fresh
<1>8. \A t \in Tasks : Alive(t)' <=> Alive(t)
  BY DEF Alive
<1>9. TasksKnown'
  BY <1>1, <1>2, <1>8 DEF TasksKnown, Fresh
<1>10. KeyHeld'
  BY <1>1, <1>8 DEF KeyHeld, Feeders, Tasks
<1>11. StreamKept'
  BY <1>1, <1>2, <1>3, <1>8 DEF StreamKept, Tasks
<1>12. QED BY <1>5, <1>6, <1>7, <1>9, <1>10, <1>11 DEF SessInv, Fresh

LEMMA NotEmpty ==
  ASSUME NEW q, Len(q) # 0
  PROVE  q # <<>>
OBVIOUS

\* ANNOUNCE.
LEMMA AnnounceProgram ==
  ASSUME NEW q, q = <<Op("format", "decoder"), Op("key", "key")>>
  PROVE  /\ Fresh(q)
         /\ Some(q, {"key"})
         /\ ~Some(q, {"start", "listen", "spawn", "play"})
<1>1. /\ Len(q) = 2
      /\ q[1] = Op("format", "decoder") /\ q[2] = Op("key", "key")
  OBVIOUS
<1>2. q \in Seq(Ops)
  BY DEF Ops, Op, Streams
<1>3. ASSUME NEW p \in Seq(Ops), Len(p) = 2,
             p[1] = Op("format", "decoder"), p[2] = Op("key", "key")
      PROVE  /\ Fresh(p)
             /\ Some(p, {"key"})
             /\ ~Some(p, {"start", "listen", "spawn", "play"})
  <2>1. p # <<>> /\ p[Len(p)].op \in Final
    <3>1. p # <<>>
      <4>1. Len(p) # 0
        BY <1>3
      <4>2. QED BY <4>1, NotEmpty
    <3>2. p[Len(p)].op \in Final
      BY <1>3 DEF Final, Op
    <3>3. QED BY <3>1, <3>2
  <2>2. \A i \in 1 .. Len(p) : i + 1 <= Len(p) => Follows(p[i], p[i + 1])
    BY <1>3 DEF Follows, Op
  <2>3. \A i, j \in 1 .. Len(p) : i < j => Precedes(p[i], p[j])
    BY <1>3 DEF Precedes, Op, Naming, Closing
  <2>4. Shape(p)
    BY <2>1, <2>2, <2>3 DEF Shape
  <2>5. /\ p[1].op \in {"select", "stop", "format", "resume", "pause"}
        /\ \A i \in 1 .. Len(p) :
             p[i].op \notin {"join", "tick", "spawn", "handle", "assign"}
    BY <1>3 DEF Op
  <2>6. Some(p, Closing) => \A s \in Streams : Has(p, "stop", s)
    BY <1>3 DEF Op, Some, Has, Closing, Streams
  <2>7. \A s : Has(p, "start", s) => Some(p, {"select", "assign"})
    BY <1>3 DEF Op, Some, Has
  <2>8. Fresh(p)
    BY <2>1, <2>4, <2>5, <2>6, <2>7 DEF Fresh, Has
  <2>9. /\ Some(p, {"key"})
        /\ ~Some(p, {"start", "listen", "spawn", "play"})
    BY <1>3 DEF Op, Some, Has, Closing
  <2>10. QED BY <2>8, <2>9
<1>4. QED BY <1>1, <1>2, <1>3

\* SETUP of a RAOP sender.
LEMMA RaopProgram ==
  ASSUME NEW q, q = <<Op("format", "decoder")>> \o Select("realtime")
  PROVE  /\ Fresh(q)
         /\ ~Some(q, {"start", "listen", "spawn", "play"})
<1>1. /\ Len(q) = 2
      /\ q[1] = Op("format", "decoder") /\ q[2] = Op("select", "realtime")
  BY DEF Select
<1>2. q \in Seq(Ops)
  BY DEF Select, Ops, Op, Streams
<1>3. ASSUME NEW p \in Seq(Ops), Len(p) = 2,
             p[1] = Op("format", "decoder"), p[2] = Op("select", "realtime")
      PROVE  /\ Fresh(p)
             /\ ~Some(p, {"start", "listen", "spawn", "play"})
  <2>1. p # <<>> /\ p[Len(p)].op \in Final
    <3>1. p # <<>>
      <4>1. Len(p) # 0
        BY <1>3
      <4>2. QED BY <4>1, NotEmpty
    <3>2. p[Len(p)].op \in Final
      BY <1>3 DEF Final, Op
    <3>3. QED BY <3>1, <3>2
  <2>2. \A i \in 1 .. Len(p) : i + 1 <= Len(p) => Follows(p[i], p[i + 1])
    BY <1>3 DEF Follows, Op
  <2>3. \A i, j \in 1 .. Len(p) : i < j => Precedes(p[i], p[j])
    BY <1>3 DEF Precedes, Op, Naming, Closing
  <2>4. Shape(p)
    BY <2>1, <2>2, <2>3 DEF Shape
  <2>5. /\ p[1].op \in {"select", "stop", "format", "resume", "pause"}
        /\ \A i \in 1 .. Len(p) :
             p[i].op \notin {"join", "tick", "spawn", "handle", "assign"}
    BY <1>3 DEF Op
  <2>6. Some(p, Closing) => \A s \in Streams : Has(p, "stop", s)
    BY <1>3 DEF Op, Some, Has, Closing, Streams
  <2>7. \A s : Has(p, "start", s) => Some(p, {"select", "assign"})
    BY <1>3 DEF Op, Some, Has
  <2>8. Fresh(p)
    BY <2>1, <2>4, <2>5, <2>6, <2>7 DEF Fresh, Has
  <2>9. /\ ~Some(p, {"start", "listen", "spawn", "play"})
    BY <1>3 DEF Op, Some, Has, Closing
  <2>10. QED BY <2>8, <2>9
<1>4. QED BY <1>1, <1>2, <1>3

\* SETUP of a realtime stream.
LEMMA SetupRealtimeProgram ==
  ASSUME NEW q, q = Select("realtime") \o <<Op("format", "decoder"), Op("key", "key")>> \o <<>>
                       \o Select("realtime") \o StartStream("realtime") \o <<Op("play", "realtime")>>
  PROVE  /\ Fresh(q)
         /\ Some(q, {"key"})
         /\ Some(q, {"start"} \cup Closing)
         /\ Some(q, {"start", "listen"} \cup Closing)
         /\ Some(q, {"select", "assign"})
         /\ \A x : Has(q, "select", x) => x = "realtime"
<1>1. /\ Len(q) = 8
      /\ q[1] = Op("select", "realtime") /\ q[2] = Op("format", "decoder")
      /\ q[3] = Op("key", "key") /\ q[4] = Op("select", "realtime")
      /\ q[5] = Op("select", "realtime") /\ q[6] = Op("stop", "realtime")
      /\ q[7] = Op("start", "realtime") /\ q[8] = Op("play", "realtime")
  BY DEF Select, StartRealtime, StartStream
<1>2. q \in Seq(Ops)
  BY DEF Select, StartRealtime, StartStream, Ops, Op, Streams
<1>3. ASSUME NEW p \in Seq(Ops), Len(p) = 8,
             p[1] = Op("select", "realtime"), p[2] = Op("format", "decoder"),
             p[3] = Op("key", "key"), p[4] = Op("select", "realtime"),
             p[5] = Op("select", "realtime"), p[6] = Op("stop", "realtime"),
             p[7] = Op("start", "realtime"), p[8] = Op("play", "realtime")
      PROVE  /\ Fresh(p)
             /\ Some(p, {"key"})
             /\ Some(p, {"start"} \cup Closing)
             /\ Some(p, {"start", "listen"} \cup Closing)
             /\ Some(p, {"select", "assign"})
             /\ \A x : Has(p, "select", x) => x = "realtime"
  <2>1. p # <<>> /\ p[Len(p)].op \in Final
    <3>1. p # <<>>
      <4>1. Len(p) # 0
        BY <1>3
      <4>2. QED BY <4>1, NotEmpty
    <3>2. p[Len(p)].op \in Final
      BY <1>3 DEF Final, Op
    <3>3. QED BY <3>1, <3>2
  <2>2. \A i \in 1 .. Len(p) : i + 1 <= Len(p) => Follows(p[i], p[i + 1])
    BY <1>3 DEF Follows, Op
  <2>3. \A i, j \in 1 .. Len(p) : i < j => Precedes(p[i], p[j])
    BY <1>3 DEF Precedes, Op, Naming, Closing
  <2>4. Shape(p)
    BY <2>1, <2>2, <2>3 DEF Shape
  <2>5. /\ p[1].op \in {"select", "stop", "format", "resume", "pause"}
        /\ \A i \in 1 .. Len(p) :
             p[i].op \notin {"join", "tick", "spawn", "handle", "assign"}
    BY <1>3 DEF Op
  <2>6. Some(p, Closing) => \A s \in Streams : Has(p, "stop", s)
    BY <1>3 DEF Op, Some, Has, Closing, Streams
  <2>7. \A s : Has(p, "start", s) => Some(p, {"select", "assign"})
    BY <1>3 DEF Op, Some, Has
  <2>8. Fresh(p)
    BY <2>1, <2>4, <2>5, <2>6, <2>7 DEF Fresh, Has
  <2>9. /\ Some(p, {"key"})
        /\ Some(p, {"start"} \cup Closing)
        /\ Some(p, {"start", "listen"} \cup Closing)
        /\ Some(p, {"select", "assign"})
        /\ \A x : Has(p, "select", x) => x = "realtime"
    BY <1>3 DEF Op, Some, Has, Closing
  <2>10. QED BY <2>8, <2>9
<1>4. QED BY <1>1, <1>2, <1>3

\* SETUP of a buffered stream.
LEMMA SetupBufferedProgram ==
  ASSUME NEW q, q = Select("buffered") \o <<Op("format", "decoder"), Op("key", "key")>>
                       \o StartBuffered("listen") \o Select("buffered") \o StartStream("buffered")
                       \o <<Op("play", "buffered")>>
  PROVE  /\ Fresh(q)
         /\ Some(q, {"key"})
         /\ Some(q, {"start"} \cup Closing)
         /\ Some(q, {"start", "listen"} \cup Closing)
         /\ Some(q, {"select", "assign"})
         /\ \A x : Has(q, "select", x) => x = "buffered"
<1>1. /\ Len(q) = 9
      /\ q[1] = Op("select", "buffered") /\ q[2] = Op("format", "decoder")
      /\ q[3] = Op("key", "key") /\ q[4] = Op("select", "buffered")
      /\ q[5] = Op("listen", "buffered") /\ q[6] = Op("select", "buffered")
      /\ q[7] = Op("select", "buffered") /\ q[8] = Op("start", "buffered")
      /\ q[9] = Op("play", "buffered")
  BY DEF Select, StartBuffered, StartStream
<1>2. q \in Seq(Ops)
  BY DEF Select, StartBuffered, StartStream, Ops, Op, Streams
<1>3. ASSUME NEW p \in Seq(Ops), Len(p) = 9,
             p[1] = Op("select", "buffered"), p[2] = Op("format", "decoder"),
             p[3] = Op("key", "key"), p[4] = Op("select", "buffered"),
             p[5] = Op("listen", "buffered"), p[6] = Op("select", "buffered"),
             p[7] = Op("select", "buffered"), p[8] = Op("start", "buffered"),
             p[9] = Op("play", "buffered")
      PROVE  /\ Fresh(p)
             /\ Some(p, {"key"})
             /\ Some(p, {"start"} \cup Closing)
             /\ Some(p, {"start", "listen"} \cup Closing)
             /\ Some(p, {"select", "assign"})
             /\ \A x : Has(p, "select", x) => x = "buffered"
  <2>1. p # <<>> /\ p[Len(p)].op \in Final
    <3>1. p # <<>>
      <4>1. Len(p) # 0
        BY <1>3
      <4>2. QED BY <4>1, NotEmpty
    <3>2. p[Len(p)].op \in Final
      BY <1>3 DEF Final, Op
    <3>3. QED BY <3>1, <3>2
  <2>2. \A i \in 1 .. Len(p) : i + 1 <= Len(p) => Follows(p[i], p[i + 1])
    BY <1>3 DEF Follows, Op
  <2>3. \A i, j \in 1 .. Len(p) : i < j => Precedes(p[i], p[j])
    BY <1>3 DEF Precedes, Op, Naming, Closing
  <2>4. Shape(p)
    BY <2>1, <2>2, <2>3 DEF Shape
  <2>5. /\ p[1].op \in {"select", "stop", "format", "resume", "pause"}
        /\ \A i \in 1 .. Len(p) :
             p[i].op \notin {"join", "tick", "spawn", "handle", "assign"}
    BY <1>3 DEF Op
  <2>6. Some(p, Closing) => \A s \in Streams : Has(p, "stop", s)
    BY <1>3 DEF Op, Some, Has, Closing, Streams
  <2>7. \A s : Has(p, "start", s) => Some(p, {"select", "assign"})
    BY <1>3 DEF Op, Some, Has
  <2>8. Fresh(p)
    BY <2>1, <2>4, <2>5, <2>6, <2>7 DEF Fresh, Has
  <2>9. /\ Some(p, {"key"})
        /\ Some(p, {"start"} \cup Closing)
        /\ Some(p, {"start", "listen"} \cup Closing)
        /\ Some(p, {"select", "assign"})
        /\ \A x : Has(p, "select", x) => x = "buffered"
    BY <1>3 DEF Op, Some, Has, Closing
  <2>10. QED BY <2>8, <2>9
<1>4. QED BY <1>1, <1>2, <1>3

\* RECORD of a realtime stream.
LEMMA RecordRealtimeProgram ==
  ASSUME NEW q, q = StartStream("realtime") \o <<Op("resume", "realtime")>>
  PROVE  /\ Fresh(q)
         /\ Some(q, {"start"} \cup Closing)
         /\ ~Some(q, {"play"})
         /\ \A x : Has(q, "select", x) => x = "realtime"
<1>1. /\ Len(q) = 4
      /\ q[1] = Op("select", "realtime") /\ q[2] = Op("stop", "realtime")
      /\ q[3] = Op("start", "realtime") /\ q[4] = Op("resume", "realtime")
  BY DEF Select, StartRealtime, StartStream
<1>2. q \in Seq(Ops)
  BY DEF Select, StartRealtime, StartStream, Ops, Op, Streams
<1>3. ASSUME NEW p \in Seq(Ops), Len(p) = 4,
             p[1] = Op("select", "realtime"), p[2] = Op("stop", "realtime"),
             p[3] = Op("start", "realtime"), p[4] = Op("resume", "realtime")
      PROVE  /\ Fresh(p)
             /\ Some(p, {"start"} \cup Closing)
             /\ ~Some(p, {"play"})
             /\ \A x : Has(p, "select", x) => x = "realtime"
  <2>1. p # <<>> /\ p[Len(p)].op \in Final
    <3>1. p # <<>>
      <4>1. Len(p) # 0
        BY <1>3
      <4>2. QED BY <4>1, NotEmpty
    <3>2. p[Len(p)].op \in Final
      BY <1>3 DEF Final, Op
    <3>3. QED BY <3>1, <3>2
  <2>2. \A i \in 1 .. Len(p) : i + 1 <= Len(p) => Follows(p[i], p[i + 1])
    BY <1>3 DEF Follows, Op
  <2>3. \A i, j \in 1 .. Len(p) : i < j => Precedes(p[i], p[j])
    BY <1>3 DEF Precedes, Op, Naming, Closing
  <2>4. Shape(p)
    BY <2>1, <2>2, <2>3 DEF Shape
  <2>5. /\ p[1].op \in {"select", "stop", "format", "resume", "pause"}
        /\ \A i \in 1 .. Len(p) :
             p[i].op \notin {"join", "tick", "spawn", "handle", "assign"}
    BY <1>3 DEF Op
  <2>6. Some(p, Closing) => \A s \in Streams : Has(p, "stop", s)
    BY <1>3 DEF Op, Some, Has, Closing, Streams
  <2>7. \A s : Has(p, "start", s) => Some(p, {"select", "assign"})
    BY <1>3 DEF Op, Some, Has
  <2>8. Fresh(p)
    BY <2>1, <2>4, <2>5, <2>6, <2>7 DEF Fresh, Has
  <2>9. /\ Some(p, {"start"} \cup Closing)
        /\ ~Some(p, {"play"})
        /\ \A x : Has(p, "select", x) => x = "realtime"
    BY <1>3 DEF Op, Some, Has, Closing
  <2>10. QED BY <2>8, <2>9
<1>4. QED BY <1>1, <1>2, <1>3

\* RECORD of a buffered stream.
LEMMA RecordBufferedProgram ==
  ASSUME NEW q, q = StartStream("buffered") \o <<Op("resume", "buffered")>>
  PROVE  /\ Fresh(q)
         /\ Some(q, {"start"} \cup Closing)
         /\ ~Some(q, {"play"})
         /\ \A x : Has(q, "select", x) => x = "buffered"
<1>1. /\ Len(q) = 3
      /\ q[1] = Op("select", "buffered") /\ q[2] = Op("start", "buffered")
      /\ q[3] = Op("resume", "buffered")
  BY DEF Select, StartBuffered, StartStream
<1>2. q \in Seq(Ops)
  BY DEF Select, StartBuffered, StartStream, Ops, Op, Streams
<1>3. ASSUME NEW p \in Seq(Ops), Len(p) = 3,
             p[1] = Op("select", "buffered"), p[2] = Op("start", "buffered"),
             p[3] = Op("resume", "buffered")
      PROVE  /\ Fresh(p)
             /\ Some(p, {"start"} \cup Closing)
             /\ ~Some(p, {"play"})
             /\ \A x : Has(p, "select", x) => x = "buffered"
  <2>1. p # <<>> /\ p[Len(p)].op \in Final
    <3>1. p # <<>>
      <4>1. Len(p) # 0
        BY <1>3
      <4>2. QED BY <4>1, NotEmpty
    <3>2. p[Len(p)].op \in Final
      BY <1>3 DEF Final, Op
    <3>3. QED BY <3>1, <3>2
  <2>2. \A i \in 1 .. Len(p) : i + 1 <= Len(p) => Follows(p[i], p[i + 1])
    BY <1>3 DEF Follows, Op
  <2>3. \A i, j \in 1 .. Len(p) : i < j => Precedes(p[i], p[j])
    BY <1>3 DEF Precedes, Op, Naming, Closing
  <2>4. Shape(p)
    BY <2>1, <2>2, <2>3 DEF Shape
  <2>5. /\ p[1].op \in {"select", "stop", "format", "resume", "pause"}
        /\ \A i \in 1 .. Len(p) :
             p[i].op \notin {"join", "tick", "spawn", "handle", "assign"}
    BY <1>3 DEF Op
  <2>6. Some(p, Closing) => \A s \in Streams : Has(p, "stop", s)
    BY <1>3 DEF Op, Some, Has, Closing, Streams
  <2>7. \A s : Has(p, "start", s) => Some(p, {"select", "assign"})
    BY <1>3 DEF Op, Some, Has
  <2>8. Fresh(p)
    BY <2>1, <2>4, <2>5, <2>6, <2>7 DEF Fresh, Has
  <2>9. /\ Some(p, {"start"} \cup Closing)
        /\ ~Some(p, {"play"})
        /\ \A x : Has(p, "select", x) => x = "buffered"
    BY <1>3 DEF Op, Some, Has, Closing
  <2>10. QED BY <2>8, <2>9
<1>4. QED BY <1>1, <1>2, <1>3

\* A handler of one operation on the current stream.
LEMMA OneProgram ==
  ASSUME NEW o \in {"resume", "pause"}, NEW on \in Streams,
         NEW q, q = <<Op(o, on)>>
  PROVE  /\ Fresh(q)
         /\ ~Some(q, {"start", "listen", "spawn", "play"}) /\ ~Some(q, {"play"})
         /\ ~Some(q, {"select", "assign", "stop"})
         /\ \A x : ~Has(q, "select", x)
<1>1. /\ Len(q) = 1
      /\ q[1] = Op(o, on)
  OBVIOUS
<1>2. q \in Seq(Ops)
  BY DEF Ops, Op, Streams
<1>3. ASSUME NEW p \in Seq(Ops), Len(p) = 1,
             p[1] = Op(o, on)
      PROVE  /\ Fresh(p)
             /\ ~Some(p, {"start", "listen", "spawn", "play"}) /\ ~Some(p, {"play"})
             /\ ~Some(p, {"select", "assign", "stop"})
             /\ \A x : ~Has(p, "select", x)
  <2>1. p # <<>> /\ p[Len(p)].op \in Final
    <3>1. p # <<>>
      <4>1. Len(p) # 0
        BY <1>3
      <4>2. QED BY <4>1, NotEmpty
    <3>2. p[Len(p)].op \in Final
      BY <1>3 DEF Final, Op
    <3>3. QED BY <3>1, <3>2
  <2>2. \A i \in 1 .. Len(p) : i + 1 <= Len(p) => Follows(p[i], p[i + 1])
    BY <1>3 DEF Follows, Op
  <2>3. \A i, j \in 1 .. Len(p) : i < j => Precedes(p[i], p[j])
    BY <1>3 DEF Precedes, Op, Naming, Closing
  <2>4. Shape(p)
    BY <2>1, <2>2, <2>3 DEF Shape
  <2>5. /\ p[1].op \in {"select", "stop", "format", "resume", "pause"}
        /\ \A i \in 1 .. Len(p) :
             p[i].op \notin {"join", "tick", "spawn", "handle", "assign"}
    BY <1>3 DEF Op
  <2>6. Some(p, Closing) => \A s \in Streams : Has(p, "stop", s)
    BY <1>3 DEF Op, Some, Has, Closing, Streams
  <2>7. \A s : Has(p, "start", s) => Some(p, {"select", "assign"})
    BY <1>3 DEF Op, Some, Has
  <2>8. Fresh(p)
    BY <2>1, <2>4, <2>5, <2>6, <2>7 DEF Fresh, Has
  <2>9. /\ ~Some(p, {"start", "listen", "spawn", "play"}) /\ ~Some(p, {"play"})
        /\ ~Some(p, {"select", "assign", "stop"})
        /\ \A x : ~Has(p, "select", x)
    BY <1>3 DEF Op, Some, Has, Closing
  <2>10. QED BY <2>8, <2>9
<1>4. QED BY <1>1, <1>2, <1>3

\* The end of a session.
LEMMA StopAllProgram ==
  ASSUME NEW o \in {"torn", "free"}, NEW on \in {"streams", "session", "conn"},
         NEW q, q = StopAll \o <<Op(o, on)>>
  PROVE  /\ Fresh(q)
         /\ Some(q, Closing)
         /\ Some(q, {"start"} \cup Closing)
         /\ Some(q, {"start", "listen"} \cup Closing)
         /\ ~Some(q, {"start", "listen", "spawn", "play"})
         /\ \A x : ~Has(q, "select", x)
<1>1. /\ Len(q) = 5
      /\ q[1] = Op("stop", "realtime") /\ q[2] = Op("stop", "buffered")
      /\ q[3] = Op("destroy", "decoder") /\ q[4] = Op("wipe", "key") /\ q[5] = Op(o, on)
  BY DEF StopAll
<1>2. q \in Seq(Ops)
  BY DEF StopAll, Ops, Op, Streams
<1>3. ASSUME NEW p \in Seq(Ops), Len(p) = 5,
             p[1] = Op("stop", "realtime"), p[2] = Op("stop", "buffered"),
             p[3] = Op("destroy", "decoder"), p[4] = Op("wipe", "key"), p[5] = Op(o, on)
      PROVE  /\ Fresh(p)
             /\ Some(p, Closing)
             /\ Some(p, {"start"} \cup Closing)
             /\ Some(p, {"start", "listen"} \cup Closing)
             /\ ~Some(p, {"start", "listen", "spawn", "play"})
             /\ \A x : ~Has(p, "select", x)
  <2>1. p # <<>> /\ p[Len(p)].op \in Final
    <3>1. p # <<>>
      <4>1. Len(p) # 0
        BY <1>3
      <4>2. QED BY <4>1, NotEmpty
    <3>2. p[Len(p)].op \in Final
      BY <1>3 DEF Final, Op
    <3>3. QED BY <3>1, <3>2
  <2>2. \A i \in 1 .. Len(p) : i + 1 <= Len(p) => Follows(p[i], p[i + 1])
    BY <1>3 DEF Follows, Op
  <2>3. \A i, j \in 1 .. Len(p) : i < j => Precedes(p[i], p[j])
    BY <1>3 DEF Precedes, Op, Naming, Closing
  <2>4. Shape(p)
    BY <2>1, <2>2, <2>3 DEF Shape
  <2>5. /\ p[1].op \in {"select", "stop", "format", "resume", "pause"}
        /\ \A i \in 1 .. Len(p) :
             p[i].op \notin {"join", "tick", "spawn", "handle", "assign"}
    BY <1>3 DEF Op
  <2>6. Some(p, Closing) => \A s \in Streams : Has(p, "stop", s)
    BY <1>3 DEF Op, Some, Has, Closing, Streams
  <2>7. \A s : Has(p, "start", s) => Some(p, {"select", "assign"})
    BY <1>3 DEF Op, Some, Has
  <2>8. Fresh(p)
    BY <2>1, <2>4, <2>5, <2>6, <2>7 DEF Fresh, Has
  <2>9. /\ Some(p, Closing)
        /\ Some(p, {"start"} \cup Closing)
        /\ Some(p, {"start", "listen"} \cup Closing)
        /\ ~Some(p, {"start", "listen", "spawn", "play"})
        /\ \A x : ~Has(p, "select", x)
    BY <1>3 DEF Op, Some, Has, Closing
  <2>10. QED BY <2>8, <2>9
<1>4. QED BY <1>1, <1>2, <1>3

\* What every request leaves as it was.
LEMMA RequestIs ==
  ASSUME SessInv, NEW v, NEW program, Request(v, program)
  PROVE  /\ todo = <<>> /\ todo' = program /\ conn.version \in {0, v}
         /\ UNCHANGED <<stream, running, decoder, key, sock, task, handle, stacks, failed, excuse,
                        reused>>
         /\ Fields /\ stream \in Streams
         /\ conn.active \/ conn.announced => key
         /\ conn.version = 2 =>
              /\ conn.type \in Streams /\ stream = conn.type
              /\ conn.active => failed \/ running[stream]
<1>1. todo = <<>>
  BY DEF Request
<1>2. \A ops : ~Some(todo, ops)
  BY <1>1, HasNothing
<1>3. Fields /\ KeyHeld /\ StreamKept
  BY DEF SessInv
<1>4. conn.active \/ conn.announced => key
  BY <1>2, <1>3 DEF KeyHeld
<1>5. conn.version = 2 =>
        /\ conn.type \in Streams /\ stream = conn.type
        /\ conn.active => failed \/ running[stream]
  BY <1>2, <1>3 DEF StreamKept
<1>6. QED BY <1>1, <1>3, <1>4, <1>5 DEF Request, shared, history, Fields

LEMMA AnnounceStep ==
  ASSUME SessInv, Announce
  PROVE  SessInv'
<1>1. Request(1, <<Op("format", "decoder"), Op("key", "key")>>)
      /\ conn' = [[conn EXCEPT !.version = 1] EXCEPT !.announced = TRUE]
  BY DEF Announce, Opened
<1>2. /\ todo = <<>> /\ todo' = <<Op("format", "decoder"), Op("key", "key")>>
      /\ UNCHANGED <<stream, running, decoder, key, sock, task, handle, stacks, failed, excuse,
                     reused>>
      /\ Fields
  BY <1>1, RequestIs
<1>3. /\ Fresh(todo') /\ Some(todo', {"key"})
      /\ ~Some(todo', {"start", "listen", "spawn", "play"})
  BY <1>2, AnnounceProgram
<1>4. conn' = [version |-> 1, announced |-> TRUE, type |-> conn.type,
               active |-> conn.active, paused |-> conn.paused]
  BY <1>1, <1>2 DEF Fields
<1>5. conn'.version # 2 /\ conn' = [version |-> conn'.version, announced |-> conn'.announced,
         type |-> conn'.type, active |-> conn'.active, paused |-> conn'.paused]
  BY <1>4
<1>6. QED BY <1>2, <1>3, <1>5, RequestStep

LEMMA SetupRaopStep ==
  ASSUME SessInv, SetupRaop
  PROVE  SessInv'
<1>1. /\ Request(1, <<Op("format", "decoder")>> \o Select("realtime")) /\ conn.announced
      /\ conn' = [conn EXCEPT !.type = "realtime", !.active = TRUE]
  BY DEF SetupRaop
<1>2. /\ todo = <<>> /\ todo' = <<Op("format", "decoder")>> \o Select("realtime")
      /\ conn.version \in {0, 1}
      /\ UNCHANGED <<stream, running, decoder, key, sock, task, handle, stacks, failed, excuse,
                     reused>>
      /\ Fields /\ key
  BY <1>1, RequestIs
<1>3. Fresh(todo') /\ ~Some(todo', {"start", "listen", "spawn", "play"})
  BY <1>2, RaopProgram
<1>4. conn' = [version |-> conn.version, announced |-> conn.announced, type |-> "realtime",
               active |-> TRUE, paused |-> conn.paused]
  BY <1>1, <1>2 DEF Fields
<1>5. conn'.version # 2 /\ conn' = [version |-> conn'.version, announced |-> conn'.announced,
         type |-> conn'.type, active |-> conn'.active, paused |-> conn'.paused]
  BY <1>2, <1>4
<1>6. QED BY <1>2, <1>3, <1>5, RequestStep

LEMMA SetupStep ==
  ASSUME SessInv, NEW s \in Streams, Setup(s)
  PROVE  SessInv'
<1> DEFINE program == Select(s) \o <<Op("format", "decoder"), Op("key", "key")>>
                \o (IF s = "buffered" THEN StartBuffered("listen") ELSE <<>>)
                \o Select(s) \o StartStream(s) \o <<Op("play", s)>>
<1>1. Request(2, program) /\ conn' = [[conn EXCEPT !.version = 2] EXCEPT !.type = s]
  BY DEF Setup, Opened
<1>2. /\ todo = <<>> /\ todo' = program
      /\ UNCHANGED <<stream, running, decoder, key, sock, task, handle, stacks, failed, excuse,
                     reused>>
      /\ Fields
  <2> HIDE DEF program
  <2>1. QED BY <1>1, RequestIs
<1>3. /\ Fresh(todo') /\ Some(todo', {"key"}) /\ Some(todo', {"start"} \cup Closing)
      /\ Some(todo', {"start", "listen"} \cup Closing) /\ Some(todo', {"select", "assign"})
      /\ \A x : Has(todo', "select", x) => x = s
  <2>1. CASE s = "buffered"
    <3>1. todo' = Select("buffered") \o <<Op("format", "decoder"), Op("key", "key")>>
                  \o StartBuffered("listen") \o Select("buffered") \o StartStream("buffered")
                  \o <<Op("play", "buffered")>>
      BY <1>2, <2>1
    <3>2. QED BY <2>1, <3>1, SetupBufferedProgram
  <2>2. CASE s = "realtime"
    <3>1. todo' = Select("realtime") \o <<Op("format", "decoder"), Op("key", "key")>> \o <<>>
                  \o Select("realtime") \o StartStream("realtime") \o <<Op("play", "realtime")>>
      BY <1>2, <2>2
    <3>2. QED BY <2>2, <3>1, SetupRealtimeProgram
  <2>3. QED BY <2>1, <2>2 DEF Streams
<1> HIDE DEF program
<1>4. conn' = [version |-> 2, announced |-> conn.announced, type |-> s,
               active |-> conn.active, paused |-> conn.paused]
  BY <1>1, <1>2 DEF Fields
<1>5. conn'.type = s /\ conn' = [version |-> conn'.version, announced |-> conn'.announced,
         type |-> conn'.type, active |-> conn'.active, paused |-> conn'.paused]
  BY <1>4
<1>6. QED BY <1>2, <1>3, <1>5, RequestStep

\* A request of a session that is there, and its connection stays as it is.
LEMMA SameConnStep ==
  ASSUME SessInv, NEW program, Request(conn.version, program), UNCHANGED conn, Fresh(program),
         Some(program, {"start", "listen", "spawn", "play"}) => conn.active,
         Some(program, {"select", "assign", "stop"}) => Some(program, {"start"} \cup Closing),
         ~Some(program, {"play"}),
         \A x : Has(program, "select", x) => x = stream
  PROVE  SessInv'
<1>1. /\ todo = <<>> /\ todo' = program
      /\ UNCHANGED <<stream, running, decoder, key, sock, task, handle, stacks, failed, excuse,
                     reused>>
      /\ Fields /\ (conn.active \/ conn.announced => key)
      /\ conn.version = 2 =>
           /\ conn.type \in Streams /\ stream = conn.type
           /\ conn.active => failed \/ running[stream]
  BY RequestIs
<1>2. conn' = [version |-> conn'.version, announced |-> conn'.announced, type |-> conn'.type,
               active |-> conn'.active, paused |-> conn'.paused]
  BY <1>1 DEF Fields
<1>3. QED BY <1>1, <1>2, RequestStep

LEMMA PlayingStep ==
  ASSUME SessInv, Record \/ Pause \/ Rate
  PROVE  SessInv'
<1>1. stream \in Streams
  BY DEF SessInv, Fields
<1>2. ASSUME NEW o \in {"resume", "pause"}, NEW v, Request(v, <<Op(o, stream)>>),
             v = conn.version, UNCHANGED conn
      PROVE  SessInv'
  <2> DEFINE program == <<Op(o, stream)>>
  <2>1. /\ Fresh(program)
        /\ ~Some(program, {"start", "listen", "spawn", "play"}) /\ ~Some(program, {"play"})
        /\ ~Some(program, {"select", "assign", "stop"})
        /\ \A x : ~Has(program, "select", x)
    BY <1>1, OneProgram
  <2>2. Request(conn.version, program) /\ UNCHANGED conn
    BY <1>2
  <2> HIDE DEF program
  <2>3. QED BY <2>1, <2>2, SameConnStep
<1>3. CASE Record
  <2>1. CASE conn.paused
    <3>1. Request(conn.version, <<Op("resume", stream)>>) /\ UNCHANGED conn
      BY <1>3, <2>1 DEF Record
    <3>2. QED BY <1>2, <3>1
  <2>2. CASE ~conn.paused
    <3> DEFINE program == StartStream(stream) \o <<Op("resume", stream)>>
    <3>1. Request(conn.version, program) /\ UNCHANGED conn /\ conn.active
      BY <1>3, <2>2 DEF Record, RecordStream
    <3>2. /\ Fresh(program) /\ Some(program, {"start"} \cup Closing) /\ ~Some(program, {"play"})
          /\ \A x : Has(program, "select", x) => x = stream
      <4>1. CASE stream = "realtime"
        BY <4>1, RecordRealtimeProgram
      <4>2. CASE stream = "buffered"
        BY <4>2, RecordBufferedProgram
      <4>3. QED BY <1>1, <4>1, <4>2 DEF Streams
    <3> HIDE DEF program
    <3>3. QED BY <3>1, <3>2, SameConnStep
  <2>3. QED BY <2>1, <2>2
<1>4. CASE Pause
  <2>1. Request(conn.version, <<Op("pause", stream)>>) /\ UNCHANGED conn
    BY <1>4 DEF Pause
  <2>2. QED BY <1>2, <2>1
<1>5. CASE Rate
  <2>1. Request(2, <<Op("resume", stream)>>) /\ conn.version = 2 /\ UNCHANGED conn
    BY <1>5 DEF Rate
  <2>2. QED BY <1>2, <2>1
<1>6. QED BY <1>3, <1>4, <1>5

LEMMA EndStep ==
  ASSUME SessInv, Disconnect \/ \E streams \in BOOLEAN : Teardown(streams)
  PROVE  SessInv'
<1>1. PICK o \in {"torn", "free"}, on \in {"streams", "session", "conn"} :
        Request(conn.version, StopAll \o <<Op(o, on)>>)
  <2>1. CASE Disconnect
    BY <2>1 DEF Disconnect
  <2>2. ASSUME NEW streams \in BOOLEAN, Teardown(streams)
        PROVE  \E on \in {"streams", "session", "conn"} :
                 Request(conn.version, StopAll \o <<Op("torn", on)>>)
    <3>1. PICK on \in {"streams", "session", "conn"} :
            on = IF streams THEN "streams" ELSE "session"
      OBVIOUS
    <3>2. Request(conn.version, StopAll \o <<Op("torn", on)>>)
      BY <2>2, <3>1 DEF Teardown
    <3>3. QED BY <3>2
  <2>3. QED BY <2>1, <2>2
<1>2. UNCHANGED conn
  BY DEF Disconnect, Teardown
<1> DEFINE program == StopAll \o <<Op(o, on)>>
<1>3. /\ Fresh(program) /\ Some(program, {"start"} \cup Closing)
      /\ ~Some(program, {"start", "listen", "spawn", "play"})
      /\ \A x : ~Has(program, "select", x)
  BY StopAllProgram
<1>4. Request(conn.version, program)
  BY <1>1
<1> HIDE DEF program
<1>5. ~Some(program, {"play"})
  BY <1>3 DEF Some
<1>6. QED BY <1>2, <1>3, <1>4, <1>5, SameConnStep

LEMMA RequestsStep ==
  ASSUME SessInv, Requests
  PROVE  SessInv'
BY AnnounceStep, SetupRaopStep, SetupStep, PlayingStep, EndStep DEF Requests

LEMMA ClientStepHolds ==
  ASSUME SessInv, ClientStep
  PROVE  SessInv'
BY DecoderStep, KeyStep, SelectStep, AssignStep, StopStep, JoinStep, TickStep, OpenRealtimeStep,
   OpenBufferedStep, CreateStep, HandleStep, FinishStep DEF ClientStep

-----------------------------------------------------------------------------
(* The stream tasks.                                                         *)

\* A task goes on to new, and perhaps clears its handle.
LEMMA TaskMoved ==
  ASSUME SessInv, NEW t \in Tasks, NEW new,
         task' = [x \in Tasks |-> task'[x]], task'[t] = new,
         \A x \in Tasks : x # t => task'[x] = task[x] /\ handle'[x] = handle[x],
         new = [at |-> new.at, clear |-> new.clear, dec |-> new.dec],
         new.at \in {"none", "accept", "accepted", "run", "packet", "decode", "exit"},
         handle' \in [Tasks -> BOOLEAN],
         UNCHANGED <<conn, todo, stream, running, decoder, key, stacks, excuse, reused>>,
         failed => failed',
         new.at \notin {"none", "exit"} => Alive(t) /\ handle'[t] = handle[t],
         new.at # "none" => task[t].at # "none",
         new.at \in {"none", "exit"} =>
           \/ handle'[t] = FALSE
           \/ handle'[t] = handle[t] /\ ~Alive(t),
         new.at \in {"none", "exit"} /\ Alive(t) =>
           /\ t = "tcp" => ~running["buffered"]
           /\ t = "recv" => ~running["realtime"] \/ failed',
         "overrun" \notin excuse /\ t \in Feeders /\ new.at \in {"packet", "decode"} => ~new.clear,
         DecoderHeld', SocketsKnown'
  PROVE  SessInv'
<1>1. /\ Shape(todo) /\ Fields /\ OnlyCurrent /\ TasksKnown /\ KeyHeld /\ StreamKept
  BY DEF SessInv
<1>2. Shape(todo') /\ OnlyCurrent'
  BY <1>1 DEF OnlyCurrent
<1>3. Fields'
  BY <1>1 DEF Fields
<1>4. /\ \A x \in Tasks : Alive(x)' => Alive(x) /\ (handle'[x] = handle[x])
      /\ \A x \in Tasks : x # t => (Alive(x)' <=> Alive(x)) /\ task'[x] = task[x]
      /\ new.at \notin {"none", "exit"} => Alive(t)'
  BY DEF Alive
<1>5. TasksKnown'
  <2>1. "overrun" \notin excuse' =>
          \A x \in Tasks : Alive(x)' => running'[StreamOf(x)] \/ Has(todo', "join", x)
    BY <1>1, <1>4 DEF TasksKnown
  <2>2. \A x \in Tasks : Alive(x)' => handle'[x] \/ Has(todo', "handle", x)
    BY <1>1, <1>4 DEF TasksKnown
  <2>3. ASSUME excuse' = {}, NEW x \in Tasks
        PROVE  /\ task'[x].at # "none" => running'[StreamOf(x)] \/ Has(todo', "tick", StreamOf(x))
               /\ Has(todo', "spawn", x) => task'[x].at = "none"
               /\ handle'[x] => Alive(x)'
    <3>1. /\ task[x].at # "none" => running[StreamOf(x)] \/ Has(todo, "tick", StreamOf(x))
          /\ Has(todo, "spawn", x) => task[x].at = "none"
          /\ handle[x] => Alive(x)
      BY <1>1, <2>3 DEF TasksKnown
    <3>2. task'[x].at # "none" => task[x].at # "none"
      OBVIOUS
    <3>3. handle'[x] => Alive(x)'
      BY <1>4, <3>1
    <3>4. QED BY <3>1, <3>2, <3>3
  <2>4. QED BY <1>1, <2>1, <2>2, <2>3 DEF TasksKnown
<1>6. KeyHeld'
  <2>1. \A x \in Feeders : x \in Tasks
    BY DEF Feeders, Tasks
  <2>2. "overrun" \notin excuse' =>
          \A x \in Feeders : /\ Alive(x)' => key'
                             /\ task'[x].at \in {"packet", "decode"} => ~task'[x].clear
    BY <1>1, <1>4, <2>1 DEF KeyHeld
  <2>3. QED BY <1>1, <2>2 DEF KeyHeld
<1>7. StreamKept'
  <2>1. excuse' = {} =>
         /\ running'["buffered"] => Alive("tcp")' \/ Has(todo', "spawn", "tcp")
         /\ running'["realtime"] /\ ~failed' => Alive("recv")' \/ Has(todo', "spawn", "recv")
    BY <1>1, <1>4 DEF StreamKept, Tasks
  <2>2. QED BY <1>1, <2>1 DEF StreamKept
<1>8. QED BY <1>2, <1>3, <1>5, <1>6, <1>7 DEF SessInv

\* TaskTo gives a task its next step.
LEMMA TaskToIs ==
  ASSUME Fields, NEW t \in Tasks, NEW at, TaskTo(t, at)
  PROVE  /\ task' = [x \in Tasks |-> task'[x]]
         /\ task'[t] = [at |-> at, clear |-> FALSE, dec |-> 0]
         /\ \A x \in Tasks : x # t => task'[x] = task[x]
<1>1. PICK new : new = [NoTask EXCEPT !.at = at]
  OBVIOUS
<1>2. new = [at |-> at, clear |-> FALSE, dec |-> 0]
  BY <1>1 DEF NoTask
<1>3. task' = [task EXCEPT ![t] = new]
  BY <1>1 DEF TaskTo
<1>4. /\ task' = [x \in Tasks |-> task'[x]] /\ task'[t] = new
      /\ \A x \in Tasks : x # t => task'[x] = task[x]
  BY <1>3 DEF Fields
<1>5. QED BY <1>2, <1>4

\* A packet is read, with the key if there is one.
LEMMA PacketStep ==
  ASSUME SessInv, NEW t \in Feeders, Packet(t)
  PROVE  SessInv'
<1>1. /\ Fields /\ TasksKnown /\ KeyHeld /\ DecoderHeld /\ SocketsKnown /\ t \in Tasks
  BY DEF SessInv, Feeders, Tasks
<1>2. /\ task[t].at = "run"
      /\ UNCHANGED <<conn, todo, stream, running, decoder, key, sock, handle, stacks, failed,
                     excuse, reused>>
  BY DEF Packet, control, shared, history
<1>3. PICK new : new = [task[t] EXCEPT !.at = "packet", !.clear = ~key]
  OBVIOUS
<1>4. task[t] = [at |-> task[t].at, clear |-> task[t].clear, dec |-> task[t].dec]
  BY <1>1 DEF Fields
<1>5. new = [at |-> "packet", clear |-> ~key, dec |-> task[t].dec]
  BY <1>3, <1>4
<1>6. task' = [task EXCEPT ![t] = new]
  BY <1>3 DEF Packet
<1>7. /\ task' = [x \in Tasks |-> task'[x]] /\ task'[t] = new
      /\ \A x \in Tasks : x # t => task'[x] = task[x]
  BY <1>1, <1>6 DEF Fields
<1>8. /\ new = [at |-> new.at, clear |-> new.clear, dec |-> new.dec]
      /\ new.at = "packet" /\ (key => ~new.clear)
  BY <1>5
<1>9. Alive(t)
  BY <1>2 DEF Alive
<1>10. "overrun" \notin excuse => ~new.clear
  BY <1>1, <1>8, <1>9 DEF KeyHeld
<1>11. DecoderHeld'
  BY <1>1, <1>2, <1>7, <1>8 DEF DecoderHeld, Feeders, Tasks
<1>12. SocketsKnown'
  BY <1>1, <1>2, <1>7, <1>8 DEF SocketsKnown, Tasks
<1>13. handle' \in [Tasks -> BOOLEAN] /\ \A x \in Tasks : handle'[x] = handle[x]
  BY <1>1, <1>2 DEF Fields
<1>14. QED BY <1>1, <1>2, <1>7, <1>8, <1>9, <1>10, <1>11, <1>12, <1>13, TaskMoved, ZenonT(60)

\* It is given to the decoder ...
LEMMA TakeDecoderStep ==
  ASSUME SessInv, NEW t \in Feeders, TakeDecoder(t)
  PROVE  SessInv'
<1>1. /\ Fields /\ TasksKnown /\ KeyHeld /\ DecoderHeld /\ SocketsKnown /\ t \in Tasks
  BY DEF SessInv, Feeders, Tasks
<1>2. /\ task[t].at = "packet" /\ DecoderFree
      /\ UNCHANGED <<conn, todo, stream, running, decoder, key, sock, handle, stacks, failed,
                     excuse, reused>>
  BY DEF TakeDecoder, control, shared, history
<1>3. PICK new : new = IF decoder = 0 THEN [at |-> "run", clear |-> FALSE, dec |-> 0]
                       ELSE [at |-> "decode", clear |-> task[t].clear, dec |-> decoder]
  OBVIOUS
<1>4. task[t] = [at |-> task[t].at, clear |-> task[t].clear, dec |-> task[t].dec]
  BY <1>1 DEF Fields
<1>5. /\ task' = [x \in Tasks |-> task'[x]] /\ task'[t] = new
      /\ \A x \in Tasks : x # t => task'[x] = task[x]
  <2>1. CASE decoder = 0
    BY <1>1, <1>3, <2>1, TaskToIs DEF TakeDecoder
  <2>2. CASE decoder # 0
    <3>1. PICK m : m = [task[t] EXCEPT !.at = "decode", !.dec = decoder]
      OBVIOUS
    <3>2. m = [at |-> "decode", clear |-> task[t].clear, dec |-> decoder]
      BY <1>4, <3>1
    <3>3. m = new
      BY <1>3, <2>2, <3>2
    <3>4. task' = [task EXCEPT ![t] = m]
      BY <2>2, <3>1 DEF TakeDecoder
    <3>5. QED BY <1>1, <3>3, <3>4 DEF Fields
  <2>3. QED BY <2>1, <2>2
<1>6. /\ new = [at |-> new.at, clear |-> new.clear, dec |-> new.dec]
      /\ new.at \in {"run", "decode"}
      /\ new.at = "decode" => new.dec = decoder /\ new.clear = task[t].clear
  BY <1>3
<1>7. Alive(t)
  BY <1>2 DEF Alive
<1>8. "overrun" \notin excuse /\ new.at \in {"packet", "decode"} => ~new.clear
  BY <1>1, <1>2, <1>6 DEF KeyHeld
<1>9. DecoderHeld'
  BY <1>1, <1>2, <1>5, <1>6 DEF DecoderHeld, DecoderFree, Feeders, Tasks
<1>10. SocketsKnown'
  BY <1>1, <1>2, <1>5, <1>6 DEF SocketsKnown, Tasks
<1>11. handle' \in [Tasks -> BOOLEAN] /\ \A x \in Tasks : handle'[x] = handle[x]
  BY <1>1, <1>2 DEF Fields
<1>12. new.at \notin {"none", "exit"} /\ task[t].at # "none"
       /\ new.at \in {"none", "accept", "accepted", "run", "packet", "decode", "exit"}
       /\ new = [at |-> new.at, clear |-> new.clear, dec |-> new.dec]
  BY <1>2, <1>6
<1>13. QED BY <1>1, <1>2, <1>5, <1>7, <1>8, <1>9, <1>10, <1>11, <1>12, TaskMoved

\* ... which decodes it, or the task that has left is deleted.
LEMMA DecodedStep ==
  ASSUME SessInv,
         (\E t \in Feeders : Decoded(t)) \/ (\E t \in Tasks : Delete(t))
  PROVE  SessInv'
<1>1. /\ Fields /\ TasksKnown /\ KeyHeld /\ DecoderHeld /\ SocketsKnown
  BY DEF SessInv
<1>2. PICK t \in Tasks, at \in {"run", "none"} :
        /\ TaskTo(t, at)
        /\ at = "run" => task[t].at = "decode"
        /\ at = "none" => task[t].at = "exit"
  BY DEF Decoded, Delete, Feeders, Tasks
<1>3. UNCHANGED <<conn, todo, stream, running, decoder, key, sock, handle, stacks, failed,
                  excuse, reused>>
  BY DEF Decoded, Delete, control, shared, history
<1>4. PICK new : new = [at |-> at, clear |-> FALSE, dec |-> 0]
  OBVIOUS
<1>5. /\ task' = [x \in Tasks |-> task'[x]] /\ task'[t] = new
      /\ \A x \in Tasks : x # t => task'[x] = task[x]
  BY <1>1, <1>2, <1>4, TaskToIs
<1>6. new = [at |-> new.at, clear |-> new.clear, dec |-> new.dec] /\ new.at = at
  BY <1>4
<1>7. Alive(t) <=> at = "run"
  BY <1>2 DEF Alive
<1>8. DecoderHeld'
  BY <1>1, <1>2, <1>3, <1>5, <1>6 DEF DecoderHeld, Feeders, Tasks
<1>9. SocketsKnown'
  BY <1>1, <1>2, <1>3, <1>5, <1>6 DEF SocketsKnown, Tasks
<1>10. handle' \in [Tasks -> BOOLEAN] /\ \A x \in Tasks : handle'[x] = handle[x]
  <2>1. handle \in [Tasks -> BOOLEAN] /\ handle' = handle
    BY <1>1, <1>3, Zenon DEF Fields
  <2>2. QED BY <2>1
<1>11. QED BY <1>2, <1>3, <1>5, <1>6, <1>7, <1>8, <1>9, <1>10, TaskMoved, ZenonT(60)

\* A task leaves, and clears its handle.
LEMMA LeaveStep ==
  ASSUME SessInv, Leave("recv") \/ Leave("ctrl") \/ TcpLeave
  PROVE  SessInv'
<1>1. /\ Fields /\ TasksKnown /\ KeyHeld /\ DecoderHeld /\ SocketsKnown
  BY DEF SessInv
<1>2. PICK t \in Tasks :
        /\ TaskTo(t, "exit") /\ task[t].at \in {"run", "accept"}
        /\ t = "tcp" => ~running["buffered"] /\ task[t].at = "accept"
        /\ t = "recv" /\ running["realtime"] => failed' = TRUE
        /\ handle' = [handle EXCEPT ![t] = FALSE]
  <2>1. CASE Leave("recv")
    BY <2>1 DEF Leave, Tasks
  <2>2. CASE Leave("ctrl")
    BY <2>2 DEF Leave, Tasks
  <2>3. CASE TcpLeave
    BY <2>3 DEF TcpLeave, Tasks
  <2>4. QED BY <2>1, <2>2, <2>3
<1>3. /\ UNCHANGED <<conn, todo, stream, running, decoder, key, sock, stacks, excuse, reused>>
      /\ failed => failed'
  <2>1. ASSUME NEW u \in Tasks, Leave(u)
        PROVE  /\ UNCHANGED <<conn, todo, stream, running, decoder, key, sock, stacks, excuse,
                               reused>>
               /\ failed => failed'
    BY <2>1 DEF Leave, control, shared
  <2>2. CASE TcpLeave
    BY <2>2 DEF TcpLeave, control, shared, history
  <2>3. QED BY <2>1, <2>2 DEF Tasks
<1>4. PICK new : new = [at |-> "exit", clear |-> FALSE, dec |-> 0]
  OBVIOUS
<1>5. /\ task' = [x \in Tasks |-> task'[x]] /\ task'[t] = new
      /\ \A x \in Tasks : x # t => task'[x] = task[x]
  BY <1>1, <1>2, <1>4, TaskToIs
<1>6. new = [at |-> new.at, clear |-> new.clear, dec |-> new.dec] /\ new.at = "exit"
  BY <1>4
<1>7. DecoderHeld'
  BY <1>1, <1>2, <1>3, <1>5, <1>6 DEF DecoderHeld, Feeders, Tasks
<1>8. SocketsKnown'
  BY <1>1, <1>2, <1>3, <1>5, <1>6 DEF SocketsKnown, Tasks
<1>9. /\ handle' \in [Tasks -> BOOLEAN] /\ handle'[t] = FALSE
      /\ \A x \in Tasks : x # t => handle'[x] = handle[x]
  BY <1>1, <1>2 DEF Fields
<1>10. QED BY <1>2, <1>3, <1>5, <1>6, <1>7, <1>8, <1>9, TaskMoved, ZenonT(60)

\* tcp accepts a connection, makes it known, or closes it.
LEMMA ConnectionStep ==
  ASSUME SessInv, Accept \/ Accepted \/ Hangup
  PROVE  SessInv'
<1>1. /\ Fields /\ TasksKnown /\ KeyHeld /\ DecoderHeld /\ SocketsKnown /\ "tcp" \in Tasks
  BY DEF SessInv, Tasks
<1>2. PICK at \in {"accept", "accepted", "run"} :
        /\ TaskTo("tcp", at)
        /\ task["tcp"].at \in {"accept", "accepted", "run"}
        /\ at = "accept" => sock' = sock \ {"client"}
        /\ at = "accepted" => sock' = sock \cup {"client"}
        /\ at = "run" => sock' = sock
  <2>1. CASE Accept
    BY <2>1 DEF Accept
  <2>2. CASE Accepted
    BY <2>2 DEF Accepted
  <2>3. CASE Hangup
    BY <2>3 DEF Hangup
  <2>4. QED BY <2>1, <2>2, <2>3
<1>3. UNCHANGED <<conn, todo, stream, running, decoder, key, handle, stacks, failed, excuse, reused>>
  BY DEF Accept, Accepted, Hangup, control, shared, history
<1>4. PICK new : new = [at |-> at, clear |-> FALSE, dec |-> 0]
  OBVIOUS
<1>5. /\ task' = [x \in Tasks |-> task'[x]] /\ task'["tcp"] = new
      /\ \A x \in Tasks : x # "tcp" => task'[x] = task[x]
  BY <1>1, <1>2, <1>4, TaskToIs
<1>6. new = [at |-> new.at, clear |-> new.clear, dec |-> new.dec] /\ new.at = at
  BY <1>4
<1>7. Alive("tcp")
  BY <1>2 DEF Alive
<1>8. DecoderHeld'
  BY <1>1, <1>2, <1>3, <1>5, <1>6 DEF DecoderHeld, Feeders, Tasks
<1>9. SocketsKnown'
  <2>1. /\ sock' \cap {"data", "control"} = sock \cap {"data", "control"}
        /\ "listen" \in sock' <=> "listen" \in sock
        /\ "client" \in sock' => at \in {"accepted", "run"}
    BY <1>2
  <2>2. QED BY <1>1, <1>2, <1>3, <1>5, <1>6, <2>1 DEF SocketsKnown, Tasks
<1>10. handle' \in [Tasks -> BOOLEAN] /\ \A x \in Tasks : handle'[x] = handle[x]
  <2>1. handle \in [Tasks -> BOOLEAN] /\ handle' = handle
    BY <1>1, <1>3, Zenon DEF Fields
  <2>2. QED BY <2>1
<1>11. QED BY <1>1, <1>2, <1>3, <1>5, <1>6, <1>7, <1>8, <1>9, <1>10, TaskMoved, ZenonT(60)

LEMMA TaskStepHolds ==
  ASSUME SessInv, TaskStep
  PROVE  SessInv'
BY PacketStep, TakeDecoderStep, DecodedStep, LeaveStep, ConnectionStep DEF TaskStep

-----------------------------------------------------------------------------
(* The theorems.                                                             *)

LEMMA SessInit == Init => SessInv
<1> SUFFICES ASSUME Init PROVE SessInv
  OBVIOUS
<1>1. todo = <<>>
  BY DEF Init
<1>2. Shape(todo) /\ Switching(todo, stream)
  BY <1>1, EmptySeq DEF Shape, Switching
<1>3. (\A o, on : ~Has(todo, o, on)) /\ (\A ops : ~Some(todo, ops))
  BY <1>1, HasNothing
<1>4. conn = NewConn /\ task = [t \in Tasks |-> NoTask] /\ handle = [t \in Tasks |-> FALSE]
      /\ running = [s \in Streams |-> FALSE] /\ stream = "realtime"
      /\ key = FALSE /\ sock = {} /\ excuse = {} /\ reused = FALSE
  BY DEF Init
<1>5. \A t \in Tasks : task[t] = NoTask /\ ~handle[t] /\ task[t].at = "none" /\ ~Alive(t)
  BY <1>4 DEF NoTask, Alive
<1>6. \A s \in Streams : ~running[s]
  BY <1>4
<1>7. "recv" \in Tasks /\ "tcp" \in Tasks /\ Feeders \subseteq Tasks
      /\ "realtime" \in Streams /\ "buffered" \in Streams
  BY DEF Tasks, Feeders, Streams
<1>8. Fields
  <2>1. conn = [version |-> conn.version, announced |-> conn.announced, type |-> conn.type,
                active |-> conn.active, paused |-> conn.paused]
    BY <1>4 DEF NewConn
  <2>2. \A t \in Tasks :
          task[t] = [at |-> task[t].at, clear |-> task[t].clear, dec |-> task[t].dec]
    BY <1>5 DEF NoTask
  <2>3. task = [t \in Tasks |-> task[t]]
    BY <1>4
  <2>4. QED BY <1>4, <1>5, <1>7, <2>1, <2>2, <2>3 DEF Fields
<1>9. OnlyCurrent
  BY <1>1, <1>2, <1>3, <1>6 DEF OnlyCurrent
<1>10. TasksKnown
  BY <1>3, <1>4, <1>5 DEF TasksKnown
<1>11. KeyHeld
  BY <1>3, <1>4, <1>5, <1>7 DEF KeyHeld, NewConn
<1>12. DecoderHeld
  BY <1>5, <1>7 DEF DecoderHeld
<1>13. SocketsKnown
  BY <1>4 DEF SocketsKnown
<1>14. StreamKept
  BY <1>4, <1>6, <1>7 DEF StreamKept, NewConn
<1>15. QED BY <1>2, <1>8, <1>9, <1>10, <1>11, <1>12, <1>13, <1>14 DEF SessInv

LEMMA SessNext == SessInv /\ [Next]_vars => SessInv'
<1> SUFFICES ASSUME SessInv, [Next]_vars PROVE SessInv'
  OBVIOUS
<1>1. CASE Next
  BY <1>1, RequestsStep, ClientStepHolds, TaskStepHolds DEF Next
<1>2. CASE UNCHANGED vars
  <2>1. UNCHANGED <<conn, todo, stream, running, decoder, key, sock, task, handle, stacks, failed,
                    excuse, reused>>
    BY <1>2 DEF vars
  <2>2. \A t : Alive(t)' <=> Alive(t)
    BY <2>1 DEF Alive
  <2>3. Shape(todo') /\ Fields' /\ SocketsKnown' /\ DecoderHeld'
    BY <2>1, FieldsSame, SocketsSame, DecoderSame DEF SessInv
  <2>4. OnlyCurrent'
    BY <2>1 DEF SessInv, OnlyCurrent
  <2>5. TasksKnown'
    BY <2>1, <2>2 DEF SessInv, TasksKnown
  <2>6. KeyHeld' /\ StreamKept'
    BY <2>1, <2>2 DEF SessInv, KeyHeld, StreamKept
  <2>7. QED BY <2>3, <2>4, <2>5, <2>6 DEF SessInv
<1>3. QED BY <1>1, <1>2

LEMMA SessAlways == Spec => []SessInv
<1>1. QED BY SessInit, SessNext, PTL DEF Spec

\* What the streams share is used by one at a time and given back, whatever the
\* order of requests (audio_receiver.c, audio_stream_realtime.c and
\* audio_stream_buffered.c): the decrypt buffer has one user, static task memory
\* is not reused under a live task, the sockets of a stream that has stopped are
\* closed, encrypted audio is not decoded as if it were plain, and the decoder
\* is not destroyed under the task in it.
THEOREM StreamsShareSafely == Spec => []SharedSafely
<1>1. SessInv => SharedSafely
  <2> SUFFICES ASSUME SessInv PROVE SharedSafely
    OBVIOUS
  <2>1. /\ OnlyCurrent /\ TasksKnown /\ KeyHeld /\ DecoderHeld /\ SocketsKnown
        /\ Shape(todo)
    BY DEF SessInv
  <2>2. SingleFeeder
    <3> SUFFICES ASSUME "overrun" \notin excuse, Alive("recv"), Alive("tcp") PROVE FALSE
      BY DEF SingleFeeder
    <3>1. running["realtime"] \/ Has(todo, "join", "recv")
      BY <2>1 DEF TasksKnown, Tasks, StreamOf
    <3>2. running["buffered"] \/ Has(todo, "join", "tcp")
      BY <2>1 DEF TasksKnown, Tasks, StreamOf
    <3>3. ASSUME NEW t, Has(todo, "join", t)
          PROVE  todo # <<>> /\ todo[1].op = "join"
      <4>1. todo # <<>>
        BY <3>3, HasNothing
      <4>2. Left(todo[1], todo, Tail(todo))
        BY <2>1, <4>1, IsLeft
      <4>3. QED BY <3>3, <4>1, <4>2 DEF Left, Later
    <3>4. (\E t : Has(todo, "join", t)) => ~running["realtime"] /\ ~running["buffered"]
      BY <2>1, <3>3 DEF OnlyCurrent, Streams
    <3>5. Has(todo, "join", "recv") /\ Has(todo, "join", "tcp")
      BY <2>1, <3>1, <3>2, <3>4 DEF OnlyCurrent, Streams
    <3>6. todo # <<>> /\ todo[1].op = "join" /\ Left(todo[1], todo, Tail(todo))
      BY <2>1, <3>3, <3>5, IsLeft
    <3>7. \A t : Has(Tail(todo), "join", t) => todo[1].on = "recv" /\ t = "ctrl"
      BY <3>6 DEF Left, Has, Precedes
    <3>8. \A t : Has(todo, "join", t) => todo[1].on = t \/ Has(Tail(todo), "join", t)
      BY <3>6 DEF Left
    <3>9. QED BY <3>5, <3>7, <3>8
  <2>3. TaskMemoryFree
    BY <2>1 DEF TasksKnown, TaskMemoryFree
  <2>4. SocketsClosed
    <3> SUFFICES ASSUME todo = <<>>, "recv" \in stacks, excuse = {} PROVE
          /\ ~running["realtime"] => sock \cap {"data", "control"} = {}
          /\ ~running["buffered"] => sock \cap {"listen", "client"} = {}
      BY DEF SocketsClosed
    <3>1. "client" \in sock => Alive("tcp")
      BY <2>1 DEF SocketsKnown, Alive
    <3>2. Alive("tcp") => running["buffered"]
      <4>1. ~Has(todo, "join", "tcp")
        BY HasNothing
      <4>2. QED BY <2>1, <4>1 DEF TasksKnown, Tasks, StreamOf
    <3>3. QED BY <2>1, <3>1, <3>2 DEF SocketsKnown
  <2>5. NoNoise
    BY <2>1 DEF KeyHeld, NoNoise
  <2>6. DecoderInUse
    <3>1. PICK t \in Feeders : {x \in Feeders : task[x].at = "decode"} \subseteq {t}
      BY <2>1 DEF DecoderHeld, Feeders
    <3>2. IsFiniteSet({t}) /\ Cardinality({t}) = 1
      BY FS_Singleton
    <3>3. Cardinality({x \in Feeders : task[x].at = "decode"}) <= 1
      BY <3>1, <3>2, FS_Subset
    <3>4. QED BY <2>1, <3>3 DEF DecoderHeld, DecoderInUse
  <2>7. QED BY <2>2, <2>3, <2>4, <2>5, <2>6 DEF SharedSafely
<1>2. QED BY SessAlways, <1>1, PTL

\* An AirPlay 2 session that is active has, between requests, the stream it asked
\* for and no other, with its task alive (rtsp_handlers.c), unless it could not be
\* started or a stop gave up on a task.
THEOREM ActiveSessionRuns == Spec => []SessionRuns
<1>1. SessInv => SessionRuns
  <2> SUFFICES ASSUME SessInv, todo = <<>>, conn.active, conn.version = 2, ~failed, excuse = {}
               PROVE  /\ stream = conn.type
                      /\ \A s \in Streams : running[s] <=> s = conn.type
                      /\ \A t \in Feeders \cap TasksOf(conn.type) : Alive(t)
    BY DEF SessionRuns
  <2>1. Fields /\ OnlyCurrent /\ StreamKept
    BY DEF SessInv
  <2>2. (\A o, on : ~Has(todo, o, on)) /\ (\A ops : ~Some(todo, ops))
    BY HasNothing
  <2>3. stream = conn.type /\ conn.type \in Streams /\ running[stream]
    BY <2>1, <2>2 DEF StreamKept
  <2>4. \A s \in Streams : running[s] <=> s = conn.type
    BY <2>1, <2>3 DEF OnlyCurrent
  <2>5. /\ running["buffered"] => Alive("tcp")
        /\ running["realtime"] => Alive("recv")
    BY <2>1, <2>2 DEF StreamKept
  <2>6. \A t \in Feeders \cap TasksOf(conn.type) : Alive(t)
    BY <2>3, <2>5 DEF Feeders, TasksOf, Streams
  <2>7. QED BY <2>3, <2>4, <2>6
<1>2. QED BY SessAlways, <1>1, PTL
=============================================================================
