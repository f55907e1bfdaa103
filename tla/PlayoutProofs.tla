----------------------------- MODULE PlayoutProofs -----------------------------
(* Theorems about Playout, for any capacity, any anchors, any length of the  *)
(* waits and any number of requests.                                         *)
EXTENDS Playout, WellFoundedInduction, TLAPS

FrameNow(f) == f = [ep |-> f.ep, ts |-> f.ts] /\ f.ep \in Nat /\ f.ts \in Int

\* What the steps need to know of the types.
TimingNow ==
  timing = [playing |-> timing.playing, started |-> timing.started,
            anchor_valid |-> timing.anchor_valid, due |-> timing.due,
            ready |-> timing.ready, since |-> timing.since, quick |-> timing.quick,
            deferred |-> timing.deferred, until |-> timing.until, alloc |-> timing.alloc]

PendingNow ==
  /\ \A p \in pending : /\ p = [frame |-> p.frame, age |-> p.age, anchored |-> p.anchored]
                        /\ p.age \in Nat /\ FrameNow(p.frame)
  /\ \A p, q \in pending : p = q

Fields ==
  /\ TimingNow
  /\ reader = [at |-> reader.at, item |-> reader.item, from_pending |-> reader.from_pending]
  /\ reader.at \in {"start", "fetch", "frame", "restart", "hold"}
  /\ FrameNow(reader.item) /\ FrameNow(next) /\ FrameNow(last)
  /\ next.ts \in Nat
  /\ \A f \in buf : FrameNow(f) /\ f.ts \in Nat
  /\ PendingNow

\* The playback task has a frame in its hands; one that is not pending left
\* nothing pending, since a pending frame comes first.
InHand == reader.at \in {"frame", "hold"}
OneTaken ==
  /\ InHand /\ ~reader.from_pending => pending = {}
  /\ reader.at = "restart" => pending = {}
  /\ InHand /\ reader.from_pending => \A p \in pending : p.frame = reader.item
  /\ reader.at = "hold" => ~reader.from_pending /\ timing.alloc

\* A held frame no anchor has touched is as old as pending_since_us says, and a
\* call that left it pending has found the guard's time not yet over.
HeldMeasured ==
  \A p \in pending : ~p.anchored =>
    /\ timing.since \in Nat /\ p.age <= timing.since
    /\ timing.since <= MaxPendingEarly + 1
    /\ reader.at = "start" /\ ran /\ timing.playing => timing.since <= MaxPendingEarly

HoldInv == Fields /\ OneTaken /\ HeldMeasured /\ (timing.alloc => leaked = 0)

\* What was played comes before what is held, in hand, buffered and to come, in
\* this order; what is buffered is all of the stream that is to come.
Ordered ==
  /\ \A f \in buf : f.ep = next.ep /\ Before(f, next) /\ Before(last, f)
  /\ Before(last, next)
  /\ \A p \in pending : /\ Before(last, p.frame) /\ Before(p.frame, next)
                        /\ \A f \in buf : Before(p.frame, f)
  /\ InHand => /\ Before(last, reader.item) /\ Before(reader.item, next)
               /\ \A f \in buf : Before(reader.item, f)

\* A deferred flush that is armed, or about to be, is the one asked for last.
DeferralKnown == timing.deferred \/ ctl = "arm" => want = timing.until /\ want # None

OrderInv == Fields /\ OneTaken /\ Ordered /\ DeferralKnown


-----------------------------------------------------------------------------
(* What each step does to audio_timing_t, as far as the theorems ask.        *)
Set(playing, since, deferred, until) ==
  /\ TimingNow' /\ timing'.alloc = timing.alloc
  /\ timing'.playing = playing /\ timing'.since = since
  /\ timing'.deferred = deferred /\ timing'.until = until

LEMMA TimingOfRead ==
  ASSUME TimingNow
  PROVE  /\ Tick => Set(timing.playing, Older(timing.since, MaxPendingEarly + 1),
                        timing.deferred, timing.until)
         /\ ReadStart => Set(timing.playing, timing.since, timing.deferred, timing.until)
         /\ ReadRestart => Set(timing.playing, None, FALSE, timing.until)
         /\ ReadEarly => Set(timing.playing, IF timing.since = None THEN 0 ELSE timing.since,
                             timing.deferred, timing.until)
         /\ ReadHold => Set(timing.playing, 0, timing.deferred, timing.until)
         /\ ReadLate \/ ReadPlay => Set(timing.playing, None, timing.deferred, timing.until)
<1> USE DEF Set, TimingNow
<1>1. Tick => Set(timing.playing, Older(timing.since, MaxPendingEarly + 1), timing.deferred,
                  timing.until)
  BY DEF Tick
<1>2. ReadStart => Set(timing.playing, timing.since, timing.deferred, timing.until)
  BY DEF ReadStart
<1>3. ReadRestart => Set(timing.playing, None, FALSE, timing.until)
  BY DEF ReadRestart
<1>4. ReadEarly => Set(timing.playing, IF timing.since = None THEN 0 ELSE timing.since,
                       timing.deferred, timing.until)
  BY DEF ReadEarly
<1>5. ReadHold => Set(timing.playing, 0, timing.deferred, timing.until)
  BY DEF ReadHold
<1>6. ReadLate => Set(timing.playing, None, timing.deferred, timing.until)
  BY DEF ReadLate
<1>7. ReadPlay => Set(timing.playing, None, timing.deferred, timing.until)
  BY DEF ReadPlay
<1> QED
  BY <1>1, <1>2, <1>3, <1>4, <1>5, <1>6, <1>7

LEMMA TimingOfControl ==
  ASSUME TimingNow
  PROVE  /\ Pause => Set(FALSE, None, timing.deferred, timing.until)
         /\ SeekReset => Set(timing.playing, None, FALSE, 0)
         /\ \A due \in Anchors :
              /\ Anchor(due) => Set(TRUE, None, timing.deferred, timing.until)
              /\ AnchorRestart(due) => Set(TRUE, None, FALSE, timing.until)
         /\ \A until \in 1 .. MaxTs :
              DeferFlush(until) => Set(timing.playing, timing.since, timing.deferred, until)
         /\ ArmDeferred => Set(timing.playing, timing.since, TRUE, timing.until)
<1> USE DEF Set, TimingNow
<1>1. Pause => Set(FALSE, None, timing.deferred, timing.until)
  BY DEF Pause
<1>2. SeekReset => Set(timing.playing, None, FALSE, 0)
  BY DEF SeekReset
<1>3. ASSUME NEW due \in Anchors
      PROVE  Anchor(due) => Set(TRUE, None, timing.deferred, timing.until)
  BY DEF Anchor, Anchored
<1>4. ASSUME NEW due \in Anchors
      PROVE  AnchorRestart(due) => Set(TRUE, None, FALSE, timing.until)
  BY DEF AnchorRestart, Anchored
<1>5. ASSUME NEW until \in 1 .. MaxTs
      PROVE  DeferFlush(until) => Set(timing.playing, timing.since, timing.deferred, until)
  BY DEF DeferFlush, UntilWritten
<1>6. ArmDeferred => Set(timing.playing, timing.since, TRUE, timing.until)
  BY DEF ArmDeferred
<1> QED
  BY <1>1, <1>2, <1>3, <1>4, <1>5, <1>6


-----------------------------------------------------------------------------
(* What is fetched.                                                          *)
LessThan == {p \in Nat \X Nat : p[1] < p[2]}

LEMMA LeastNatural ==
  ASSUME NEW T, T \subseteq Nat, T # {}
  PROVE  \E x \in T : \A y \in T : x <= y
<1>1. PICK x \in T : \A y \in T : ~(<<y, x>> \in LessThan)
  <2>1. IsWellFoundedOn(LessThan, Nat)
    BY NatLessThanWellFounded DEF OpToRel, LessThan
  <2> QED
    BY <2>1, WFMin
<1>2. ASSUME NEW y \in T  PROVE x <= y
  <2>1. ~(y < x) /\ x \in Nat /\ y \in Nat
    BY <1>1 DEF LessThan
  <2> QED
    BY <2>1
<1> QED
  BY <1>2

LEMMA OldestIs ==
  ASSUME Fields, buf # {}
  PROVE  Oldest(buf) \in buf /\ \A g \in buf : Oldest(buf).ts <= g.ts
<1> DEFINE T == {f.ts : f \in buf}
<1>1. T \subseteq Nat /\ T # {}
  BY DEF Fields
<1> HIDE DEF T
<1>2. PICK x \in T : \A y \in T : x <= y
  BY <1>1, LeastNatural
<1>3. \E f \in buf : \A g \in buf : f.ts =< g.ts
  BY <1>2 DEF T
<1> QED
  BY <1>3 DEF Oldest

LEMMA Fetched ==
  ASSUME Fields, ReadFetch
  PROVE  \/ /\ pending # {} /\ UNCHANGED buf
            /\ \E p \in pending :
                 reader' = [at |-> "frame", item |-> p.frame, from_pending |-> TRUE]
         \/ /\ pending = {} /\ buf # {}
            /\ reader' = [at |-> "frame", item |-> Oldest(buf), from_pending |-> FALSE]
            /\ buf' = buf \ {Oldest(buf)}
         \/ /\ pending = {} /\ UNCHANGED buf
            /\ reader' = [at |-> "start", item |-> NoFrame, from_pending |-> FALSE]
<1>1. CASE pending # {}
  <2>1. Fetch = [at |-> "frame", item |-> Held, from_pending |-> TRUE]
    BY <1>1 DEF Fetch
  <2>2. Fetch.from_pending
    BY <2>1
  <2>3. \E p \in pending : Held = p.frame
    BY <1>1 DEF Held
  <2>4. reader' = Fetch /\ buf' = buf
    BY <2>2 DEF ReadFetch
  <2> QED
    BY <1>1, <2>1, <2>3, <2>4
<1>2. CASE pending = {} /\ buf # {}
  <2>1. Fetch = [at |-> "frame", item |-> Oldest(buf), from_pending |-> FALSE]
    BY <1>2 DEF Fetch
  <2>2. ~Fetch.from_pending /\ Fetch # Idle /\ Fetch.item = Oldest(buf)
    BY <2>1 DEF Idle
  <2>3. reader' = Fetch /\ buf' = buf \ {Oldest(buf)}
    BY <2>2 DEF ReadFetch
  <2> QED
    BY <1>2, <2>1, <2>3
<1>3. CASE pending = {} /\ buf = {}
  <2>1. Fetch = Idle
    BY <1>3 DEF Fetch
  <2>2. reader' = Idle /\ buf' = buf
    BY <2>1 DEF ReadFetch
  <2> QED
    BY <1>3, <2>2 DEF Idle
<1> QED
  BY <1>1, <1>2, <1>3

-----------------------------------------------------------------------------
(* The fields, and the one frame that is taken.                              *)
\* Time and anchors change what is known of the pending frame, not the frame.
LEMMA PendingAges ==
  ASSUME PendingNow, Tick
  PROVE  /\ PendingNow' /\ (pending = {} => pending' = {})
         /\ \A q \in pending' : \E p \in pending :
              /\ q.frame = p.frame /\ q.anchored = p.anchored
              /\ q.age = IF timing.playing THEN Older(p.age, MaxPendingEarly + 3) ELSE p.age
<1> DEFINE New(p) == [p EXCEPT !.age = IF timing.playing THEN Older(@, MaxPendingEarly + 3)
                                      ELSE @]
<1>1. pending' = {New(p) : p \in pending}
  BY DEF Tick
<1>2. ASSUME NEW p \in pending
      PROVE  /\ New(p) = [frame |-> p.frame, anchored |-> p.anchored,
                          age |-> IF timing.playing THEN Older(p.age, MaxPendingEarly + 3)
                                  ELSE p.age]
             /\ New(p).age \in Nat /\ FrameNow(New(p).frame)
  <2>1. p = [frame |-> p.frame, age |-> p.age, anchored |-> p.anchored]
        /\ p.age \in Nat /\ FrameNow(p.frame)
    BY DEF PendingNow
  <2>2. New(p) = [frame |-> p.frame, anchored |-> p.anchored,
                  age |-> IF timing.playing THEN Older(p.age, MaxPendingEarly + 3)
                          ELSE p.age]
    BY <2>1
  <2>3. (IF timing.playing THEN Older(p.age, MaxPendingEarly + 3) ELSE p.age) \in Nat
    BY <2>1 DEF Older
  <2> QED
    BY <2>1, <2>2, <2>3
<1> HIDE DEF New
<1>3. \A q \in pending' : \E p \in pending : q = New(p)
  BY <1>1
<1>4. \A p, q \in pending : p = q
  BY DEF PendingNow
<1>5. \A p, q \in pending' : p = q
  BY <1>3, <1>4
<1>6. \A q \in pending' : /\ q = [frame |-> q.frame, age |-> q.age, anchored |-> q.anchored]
                          /\ q.age \in Nat /\ FrameNow(q.frame)
  BY <1>2, <1>3
<1>7. PendingNow'
  BY <1>5, <1>6 DEF PendingNow, FrameNow
<1>8. pending = {} => pending' = {}
  BY <1>3
<1> QED
  BY <1>2, <1>3, <1>7, <1>8

LEMMA PendingAnchored ==
  ASSUME PendingNow, pending' = {[p EXCEPT !.anchored = TRUE] : p \in pending}
  PROVE  /\ PendingNow' /\ (pending = {} => pending' = {})
         /\ \A q \in pending' : q.anchored /\ \E p \in pending : q.frame = p.frame
<1> DEFINE New(p) == [p EXCEPT !.anchored = TRUE]
<1>1. pending' = {New(p) : p \in pending}
  OBVIOUS
<1>2. ASSUME NEW p \in pending
      PROVE  /\ New(p) = [frame |-> p.frame, anchored |-> TRUE, age |-> p.age]
             /\ p.age \in Nat /\ FrameNow(p.frame)
  <2>1. p = [frame |-> p.frame, age |-> p.age, anchored |-> p.anchored]
        /\ p.age \in Nat /\ FrameNow(p.frame)
    BY DEF PendingNow
  <2>2. PICK q : q = [p EXCEPT !.anchored = TRUE]
    OBVIOUS
  <2>3. q = [frame |-> p.frame, anchored |-> TRUE, age |-> p.age]
    BY <2>1, <2>2
  <2> QED
    BY <2>1, <2>2, <2>3
<1> HIDE DEF New
<1>3. \A q \in pending' : \E p \in pending : q = New(p)
  BY <1>1
<1>4. \A p, q \in pending : p = q
  BY DEF PendingNow
<1>5. \A p, q \in pending' : p = q
  BY <1>3, <1>4
<1>6. \A q \in pending' : /\ q = [frame |-> q.frame, age |-> q.age, anchored |-> q.anchored]
                          /\ q.age \in Nat /\ FrameNow(q.frame) /\ q.anchored
  BY <1>2, <1>3
<1>7. PendingNow'
  BY <1>5, <1>6 DEF PendingNow, FrameNow
<1>8. pending = {} => pending' = {}
  BY <1>3
<1> QED
  BY <1>2, <1>3, <1>6, <1>7, <1>8


LEMMA ReadKeepsFields ==
  ASSUME Fields, OneTaken, Read
  PROVE  Fields' /\ OneTaken'
<1> USE DEF Fields, OneTaken, InHand, Consume, Return, Idle, NoFrame, None
<1>0. FrameNow(NoFrame)
  BY DEF FrameNow
<1>1. CASE ReadStart
  <2>1. Set(timing.playing, timing.since, timing.deferred, timing.until)
    BY <1>1, TimingOfRead
  <2>2. /\ UNCHANGED <<buf, next, pending, last>>
        /\ reader' = [at |-> reader'.at, item |-> NoFrame, from_pending |-> FALSE]
        /\ reader'.at \in {"start", "fetch"}
    BY <1>1 DEF ReadStart
  <2> QED
    BY <1>0, <2>1, <2>2 DEF Set, PendingNow, FrameNow
<1>2. CASE ReadFetch
  <2>1. UNCHANGED <<next, pending, last, timing>>
    BY <1>2 DEF ReadFetch
  <2>2. CASE /\ pending # {} /\ UNCHANGED buf
             /\ \E p \in pending :
                  reader' = [at |-> "frame", item |-> p.frame, from_pending |-> TRUE]
    <3>1. PICK p \in pending :
            reader' = [at |-> "frame", item |-> p.frame, from_pending |-> TRUE]
      BY <2>2
    <3>2. FrameNow(p.frame) /\ \A q \in pending : q = p
      BY DEF PendingNow
    <3> QED
      BY <2>1, <2>2, <3>1, <3>2 DEF PendingNow, FrameNow, TimingNow
  <2>3. CASE /\ pending = {} /\ buf # {}
             /\ reader' = [at |-> "frame", item |-> Oldest(buf), from_pending |-> FALSE]
             /\ buf' = buf \ {Oldest(buf)}
    <3>1. FrameNow(Oldest(buf))
      BY <2>3, OldestIs
    <3> QED
      BY <2>1, <2>3, <3>1 DEF PendingNow, FrameNow, TimingNow
  <2>4. CASE /\ pending = {} /\ UNCHANGED buf
             /\ reader' = [at |-> "start", item |-> NoFrame, from_pending |-> FALSE]
    BY <1>0, <2>1, <2>4 DEF PendingNow, FrameNow, TimingNow
  <2> QED
    BY <1>2, <2>2, <2>3, <2>4, Fetched
<1>3. CASE ReadDeferredFlush
  <2>1. /\ UNCHANGED <<next, last, timing>> /\ buf' = {} /\ pending' = {}
        /\ reader' = [at |-> "restart", item |-> NoFrame, from_pending |-> FALSE]
    BY <1>3 DEF ReadDeferredFlush
  <2> QED
    BY <1>0, <2>1 DEF PendingNow, FrameNow, TimingNow
<1>4. CASE ReadRestart
  <2>1. Set(timing.playing, None, FALSE, timing.until)
    BY <1>4, TimingOfRead
  <2>2. /\ UNCHANGED <<buf, next, pending, last>>
        /\ reader' = [at |-> "start", item |-> NoFrame, from_pending |-> FALSE]
    BY <1>4 DEF ReadRestart
  <2> QED
    BY <1>0, <2>1, <2>2 DEF Set, PendingNow, FrameNow
<1>5. CASE ReadEarly
  <2>1. TimingNow' /\ timing'.alloc = timing.alloc
    BY <1>5, TimingOfRead DEF Set
  <2>2. /\ UNCHANGED <<buf, next, pending, last>> /\ reader.at = "frame"
        /\ \/ /\ reader' = [reader EXCEPT !.at = "hold"] /\ ~reader.from_pending /\ timing.alloc
           \/ reader' = [at |-> "start", item |-> NoFrame, from_pending |-> FALSE]
    BY <1>5 DEF ReadEarly
  <2>3. CASE reader' = [reader EXCEPT !.at = "hold"] /\ ~reader.from_pending /\ timing.alloc
    <3>1. reader' = [at |-> "hold", item |-> reader.item, from_pending |-> reader.from_pending]
      BY <2>3
    <3> QED
      BY <2>1, <2>2, <2>3, <3>1 DEF PendingNow, FrameNow
  <2>4. CASE reader' = [at |-> "start", item |-> NoFrame, from_pending |-> FALSE]
    BY <1>0, <2>1, <2>2, <2>4 DEF PendingNow, FrameNow
  <2> QED
    BY <2>2, <2>3, <2>4
<1>6. CASE ReadHold
  <2>1. TimingNow' /\ timing'.alloc = timing.alloc
    BY <1>6, TimingOfRead DEF Set
  <2>2. /\ UNCHANGED <<buf, next, last>>
        /\ pending' = {[frame |-> reader.item, age |-> 0, anchored |-> FALSE]}
        /\ reader' = [at |-> "start", item |-> NoFrame, from_pending |-> FALSE]
    BY <1>6 DEF ReadHold
  <2> QED
    BY <1>0, <2>1, <2>2 DEF PendingNow, FrameNow
<1>7. CASE ReadLate
  <2>1. TimingNow' /\ timing'.alloc = timing.alloc
    BY <1>7, TimingOfRead DEF Set
  <2>2. /\ UNCHANGED <<buf, next, last>> /\ pending' \in {pending, {}}
        /\ reader' = [at |-> "fetch", item |-> NoFrame, from_pending |-> FALSE]
    BY <1>7 DEF ReadLate
  <2> QED
    BY <1>0, <2>1, <2>2 DEF PendingNow, FrameNow
<1>8. CASE ReadPlay
  <2>1. TimingNow' /\ timing'.alloc = timing.alloc
    BY <1>8, TimingOfRead DEF Set
  <2>2. /\ UNCHANGED <<buf, next>> /\ last' = reader.item /\ pending' \in {pending, {}}
        /\ reader' = [at |-> "start", item |-> NoFrame, from_pending |-> FALSE]
    BY <1>8 DEF ReadPlay
  <2> QED
    BY <1>0, <2>1, <2>2 DEF PendingNow, FrameNow
<1> QED
  BY <1>1, <1>2, <1>3, <1>4, <1>5, <1>6, <1>7, <1>8 DEF Read

LEMMA OthersKeepFields ==
  ASSUME Fields, OneTaken, Tick \/ Arrive \/ Control
  PROVE  Fields' /\ OneTaken'
<1> USE DEF Fields, OneTaken, InHand
<1>1. CASE Tick
  <2>1. TimingNow' /\ timing'.alloc = timing.alloc
    BY <1>1, TimingOfRead DEF Set
  <2>2. UNCHANGED <<buf, next, reader, last>> /\ PendingNow' /\ reader.at = "start"
    BY <1>1, PendingAges DEF Tick
  <2> QED
    BY <2>1, <2>2 DEF FrameNow
<1>2. CASE Arrive
  <2>1. UNCHANGED <<timing, pending, reader, last>> /\ buf' \subseteq buf \cup {next}
    BY <1>2 DEF Arrive
  <2>2. next' = [ep |-> next.ep, ts |-> next.ts + 1]
    BY <1>2 DEF Arrive, FrameNow
  <2> QED
    BY <2>1, <2>2 DEF FrameNow, PendingNow, TimingNow
<1>3. CASE Pause \/ SeekReset \/ ArmDeferred \/ \E until \in 1 .. MaxTs : DeferFlush(until)
  <2>1. TimingNow' /\ timing'.alloc = timing.alloc
    BY <1>3, TimingOfControl DEF Set
  <2>2. UNCHANGED <<buf, next, reader, last>> /\ pending' \in {pending, {}}
    BY <1>3 DEF Pause, SeekReset, ArmDeferred, DeferFlush
  <2> QED
    BY <2>1, <2>2 DEF FrameNow, PendingNow
<1>4. CASE SeekFlush \/ AnchorJump
  <2>1. /\ UNCHANGED <<timing, reader, last, pending>> /\ buf' = {}
        /\ next' = [ep |-> next.ep + 1, ts |-> 0]
    BY <1>4 DEF SeekFlush, AnchorJump, NewStream
  <2> QED
    BY <2>1 DEF FrameNow, PendingNow, TimingNow
<1>5. ASSUME NEW due \in Anchors, Anchor(due)
      PROVE  Fields' /\ OneTaken'
  <2>1. TimingNow' /\ timing'.alloc = timing.alloc
    BY <1>5, TimingOfControl DEF Set
  <2>2. /\ UNCHANGED <<buf, next, reader, last>>
        /\ pending' = {[p EXCEPT !.anchored = TRUE] : p \in pending}
    BY <1>5 DEF Anchor
  <2>3. /\ PendingNow' /\ (pending = {} => pending' = {})
        /\ \A q \in pending' : q.anchored /\ \E p \in pending : q.frame = p.frame
    BY <2>2, PendingAnchored
  <2> QED
    BY <2>1, <2>2, <2>3 DEF FrameNow
<1>6. ASSUME NEW due \in Anchors, AnchorRestart(due)
      PROVE  Fields' /\ OneTaken'
  <2>1. TimingNow' /\ timing'.alloc = timing.alloc
    BY <1>6, TimingOfControl DEF Set
  <2>2. UNCHANGED <<buf, next, reader, last>> /\ pending' = {}
    BY <1>6 DEF AnchorRestart
  <2> QED
    BY <2>1, <2>2 DEF FrameNow, PendingNow
<1> QED
  BY <1>1, <1>2, <1>3, <1>4, <1>5, <1>6 DEF Control


-----------------------------------------------------------------------------
(* How long a frame is held, and where the slots are.                        *)
LEMMA ReadMeasures ==
  ASSUME HoldInv, Read
  PROVE  HeldMeasured' /\ (timing'.alloc => leaked' = 0)
<1> USE DEF HoldInv, Fields, OneTaken, HeldMeasured, InHand, Consume, Return, Idle
<1> USE TimeAssumption
<1>1. CASE ReadStart
  <2>1. Set(timing.playing, timing.since, timing.deferred, timing.until)
    BY <1>1, TimingOfRead
  <2>2. /\ UNCHANGED <<pending, leaked>>
        /\ pending # {} /\ timing.playing => reader' = [Idle EXCEPT !.at = "fetch"]
    BY <1>1 DEF ReadStart
  <2>3. pending # {} /\ timing.playing => reader'.at = "fetch"
    BY <2>2
  <2> QED
    BY <2>1, <2>2, <2>3 DEF Set
<1>2. CASE ReadFetch
  <2>1. UNCHANGED <<timing, pending, leaked>>
    BY <1>2 DEF ReadFetch
  <2>2. pending # {} => reader'.at = "frame"
    BY <1>2, Fetched
  <2> QED
    BY <2>1, <2>2
<1>3. CASE ReadDeferredFlush
  <2>1. UNCHANGED <<timing, leaked>> /\ pending' = {}
    BY <1>3 DEF ReadDeferredFlush
  <2> QED
    BY <2>1
<1>4. CASE ReadRestart
  <2>1. timing'.alloc = timing.alloc
    BY <1>4, TimingOfRead DEF Set
  <2>2. pending' = {} /\ UNCHANGED leaked
    BY <1>4 DEF ReadRestart
  <2> QED
    BY <2>1, <2>2
<1>5. CASE ReadEarly
  <2>1. Set(timing.playing, IF timing.since = None THEN 0 ELSE timing.since,
            timing.deferred, timing.until)
    BY <1>5, TimingOfRead
  <2>2. /\ UNCHANGED pending /\ ~Stuck /\ reader.at = "frame"
        /\ timing.alloc => UNCHANGED leaked
    BY <1>5 DEF ReadEarly
  <2>3. ASSUME NEW p \in pending, ~p.anchored
        PROVE  timing'.since = timing.since /\ timing.since <= MaxPendingEarly
    BY <2>1, <2>2, <2>3 DEF Set, Stuck, None
  <2> QED
    BY <2>1, <2>2, <2>3 DEF Set
<1>6. CASE ReadHold
  <2>1. Set(timing.playing, 0, timing.deferred, timing.until)
    BY <1>6, TimingOfRead
  <2>2. pending' = {[frame |-> reader.item, age |-> 0, anchored |-> FALSE]} /\ UNCHANGED leaked
    BY <1>6 DEF ReadHold
  <2> QED
    BY <2>1, <2>2 DEF Set
<1>7. CASE ReadLate \/ ReadPlay
  <2>1. timing'.alloc = timing.alloc
    BY <1>7, TimingOfRead DEF Set
  <2>2. pending' = {} /\ UNCHANGED leaked
    BY <1>7 DEF ReadLate, ReadPlay, LateSlot
  <2> QED
    BY <2>1, <2>2
<1> QED
  BY <1>1, <1>2, <1>3, <1>4, <1>5, <1>6, <1>7 DEF Read

LEMMA OthersMeasure ==
  ASSUME HoldInv, Tick \/ Arrive \/ Control
  PROVE  HeldMeasured' /\ (timing'.alloc => leaked' = 0)
<1> USE DEF HoldInv, Fields, HeldMeasured
<1> USE TimeAssumption
<1>1. CASE Tick
  <2>1. Set(timing.playing, Older(timing.since, MaxPendingEarly + 1), timing.deferred,
            timing.until)
    BY <1>1, TimingOfRead
  <2>2. UNCHANGED <<reader, leaked>> /\ reader.at = "start" /\ ran /\ ran' = FALSE
    BY <1>1 DEF Tick
  <2>3. ASSUME NEW q \in pending', ~q.anchored
        PROVE  /\ timing'.since \in Nat /\ q.age <= timing'.since
               /\ timing'.since <= MaxPendingEarly + 1
    <3>1. PICK p \in pending :
            /\ q.anchored = p.anchored
            /\ q.age = IF timing.playing THEN Older(p.age, MaxPendingEarly + 3) ELSE p.age
      BY <1>1, PendingAges
    <3>2. /\ timing.since \in Nat /\ p.age <= timing.since /\ p.age \in Nat
          /\ timing.since <= MaxPendingEarly + 1
          /\ timing.playing => timing.since <= MaxPendingEarly
      BY <2>2, <2>3, <3>1 DEF PendingNow
    <3>3. CASE timing.playing
      <4>1. timing'.since = timing.since + 1
        BY <2>1, <3>2, <3>3 DEF Set, Older, None
      <4>2. q.age <= p.age + 1
        BY <3>1, <3>2, <3>3 DEF Older, None
      <4>3. q.age \in Nat
        BY <3>1, <3>2, <3>3 DEF Older, None
      <4> QED
        BY <3>2, <3>3, <4>1, <4>2, <4>3
    <3>4. CASE ~timing.playing
      <4>1. timing'.since \in {timing.since, timing.since + 1}
            /\ timing'.since <= MaxPendingEarly + 1
        BY <2>1, <3>2 DEF Set, Older, None
      <4> QED
        BY <3>1, <3>2, <3>4, <4>1
    <3> QED
      BY <3>3, <3>4
  <2> QED
    BY <2>1, <2>2, <2>3 DEF Set
<1>2. CASE Arrive \/ SeekFlush \/ AnchorJump
  <2>1. UNCHANGED <<timing, pending, reader, ran, leaked>>
    BY <1>2 DEF Arrive, SeekFlush, AnchorJump
  <2> QED
    BY <2>1
<1>3. CASE Pause \/ SeekReset
  <2>1. timing'.alloc = timing.alloc
    BY <1>3, TimingOfControl DEF Set
  <2>2. pending' = {} /\ UNCHANGED leaked
    BY <1>3 DEF Pause, SeekReset
  <2> QED
    BY <2>1, <2>2
<1>4. CASE ArmDeferred \/ \E until \in 1 .. MaxTs : DeferFlush(until)
  <2>1. timing'.alloc = timing.alloc /\ timing'.since = timing.since
        /\ timing'.playing = timing.playing
    BY <1>4, TimingOfControl DEF Set
  <2>2. UNCHANGED <<pending, reader, ran, leaked>>
    BY <1>4 DEF ArmDeferred, DeferFlush
  <2> QED
    BY <2>1, <2>2
<1>5. ASSUME NEW due \in Anchors, Anchor(due) \/ AnchorRestart(due)
      PROVE  HeldMeasured' /\ (timing'.alloc => leaked' = 0)
  <2>1. timing'.alloc = timing.alloc
    BY <1>5, TimingOfControl DEF Set
  <2>2. /\ UNCHANGED leaked
        /\ pending' = {} \/ pending' = {[p EXCEPT !.anchored = TRUE] : p \in pending}
    BY <1>5 DEF Anchor, AnchorRestart
  <2>3. \A q \in pending' : q.anchored
    BY <2>2, PendingAnchored
  <2> QED
    BY <2>1, <2>2, <2>3
<1> QED
  BY <1>1, <1>2, <1>3, <1>4, <1>5 DEF Control

LEMMA FieldsStart == Init => Fields /\ OneTaken
BY DEF Init, Idle, NoFrame, None, Fields, TimingNow, PendingNow, FrameNow, OneTaken, InHand

LEMMA FieldsStep ==
  ASSUME Fields, OneTaken, [Next]_vars
  PROVE  Fields' /\ OneTaken'
<1>1. CASE UNCHANGED vars
  BY <1>1 DEF vars, Fields, TimingNow, PendingNow, FrameNow, OneTaken, InHand
<1> QED
  BY <1>1, ReadKeepsFields, OthersKeepFields DEF Next

\* A frame the playback task has taken is played, dropped or flushed within
\* MAX_PENDING_EARLY_US and the call that notices, and its slot comes back,
\* whatever pauses, flushes and anchors come in between; a new anchor restarts
\* the measurement, and without a pending buffer slots are lost
\* (audio_timing_read).
THEOREM TakenFramesReturn == Spec => []TakenFramesComeBack
<1>1. Init => HoldInv
  BY FieldsStart DEF Init, HoldInv, HeldMeasured
<1>2. HoldInv /\ [Next]_vars => HoldInv'
  <2> SUFFICES ASSUME HoldInv, [Next]_vars PROVE HoldInv'
    OBVIOUS
  <2>1. Fields' /\ OneTaken'
    BY FieldsStep DEF HoldInv
  <2>2. CASE UNCHANGED vars
    BY <2>1, <2>2 DEF vars, HoldInv, HeldMeasured
  <2> QED
    BY <2>1, <2>2, ReadMeasures, OthersMeasure DEF Next, HoldInv
<1>3. HoldInv => TakenFramesComeBack
  <2> SUFFICES ASSUME HoldInv PROVE TakenFramesComeBack
    OBVIOUS
  <2>1. HeldFrameReleased
    BY TimeAssumption DEF HoldInv, HeldMeasured, Fields, PendingNow, HeldFrameReleased
  <2>2. SlotsReturned
    BY DEF HoldInv, SlotsReturned
  <2> QED
    BY <2>1, <2>2 DEF TakenFramesComeBack
<1> QED
  BY <1>1, <1>2, <1>3, PTL DEF Spec


-----------------------------------------------------------------------------
(* The order of what is heard, and where it is cut.                          *)
LEMMA ReadKeepsOrder ==
  ASSUME Fields, OneTaken, Ordered, Read
  PROVE  Ordered' /\ (last' # last => Before(last, last'))
<1> USE DEF Fields, OneTaken, Ordered, InHand, Consume, Return, Idle
<1>1. CASE ReadStart \/ ReadRestart
  <2>1. UNCHANGED <<buf, next, pending, last>> /\ reader'.at \in {"start", "fetch"}
    BY <1>1 DEF ReadStart, ReadRestart
  <2> QED
    BY <2>1 DEF Before
<1>2. CASE ReadFetch
  <2>1. UNCHANGED <<next, pending, last>>
    BY <1>2 DEF ReadFetch
  <2>2. CASE /\ pending # {} /\ UNCHANGED buf
             /\ \E p \in pending :
                  reader' = [at |-> "frame", item |-> p.frame, from_pending |-> TRUE]
    BY <2>1, <2>2 DEF Before
  <2>3. CASE /\ pending = {} /\ buf # {}
             /\ reader' = [at |-> "frame", item |-> Oldest(buf), from_pending |-> FALSE]
             /\ buf' = buf \ {Oldest(buf)}
    <3>1. Oldest(buf) \in buf /\ \A g \in buf : Oldest(buf).ts <= g.ts
      BY <2>3, OldestIs
    <3>2. ASSUME NEW g \in buf, g # Oldest(buf)
          PROVE  Before(Oldest(buf), g)
      <4> DEFINE o == Oldest(buf)
      <4>1. /\ g = [ep |-> g.ep, ts |-> g.ts] /\ o = [ep |-> o.ep, ts |-> o.ts]
            /\ g.ep = o.ep /\ o.ts <= g.ts /\ g.ts \in Nat /\ o.ts \in Nat
        BY <3>1 DEF FrameNow
      <4>2. g.ts # o.ts
        BY <3>2, <4>1
      <4> QED
        BY <4>1, <4>2 DEF Before
    <3>3. reader'.item = Oldest(buf) /\ Before(last, Oldest(buf)) /\ Before(Oldest(buf), next)
      BY <2>3, <3>1
    <3> QED
      BY <2>1, <2>3, <3>2, <3>3 DEF Before
  <2>4. CASE /\ pending = {} /\ UNCHANGED buf
             /\ reader' = [at |-> "start", item |-> NoFrame, from_pending |-> FALSE]
    BY <2>1, <2>4 DEF Before
  <2> QED
    BY <1>2, <2>2, <2>3, <2>4, Fetched
<1>3. CASE ReadDeferredFlush
  <2>1. UNCHANGED <<next, last>> /\ buf' = {} /\ pending' = {} /\ reader'.at = "restart"
    BY <1>3 DEF ReadDeferredFlush
  <2> QED
    BY <2>1 DEF Before
<1>4. CASE ReadEarly
  <2>1. /\ UNCHANGED <<buf, next, pending, last>> /\ reader.at = "frame"
        /\ reader' = [reader EXCEPT !.at = "hold"] \/ reader'.at = "start"
    BY <1>4 DEF ReadEarly
  <2>2. reader'.at = "start" \/ reader'.item = reader.item
    BY <2>1
  <2> QED
    BY <2>1, <2>2 DEF Before
<1>5. CASE ReadHold
  <2>1. /\ UNCHANGED <<buf, next, last>> /\ reader.at = "hold" /\ reader'.at = "start"
        /\ pending' = {[frame |-> reader.item, age |-> 0, anchored |-> FALSE]}
    BY <1>5 DEF ReadHold
  <2> QED
    BY <2>1 DEF Before
<1>6. CASE ReadLate
  <2>1. UNCHANGED <<buf, next, last>> /\ pending' = {} /\ reader'.at = "fetch"
    BY <1>6 DEF ReadLate
  <2> QED
    BY <2>1 DEF Before
<1>7. CASE ReadPlay
  <2>1. /\ UNCHANGED <<buf, next>> /\ pending' = {} /\ reader'.at = "start"
        /\ last' = reader.item /\ reader.at = "frame"
    BY <1>7 DEF ReadPlay
  <2> QED
    BY <2>1 DEF Before
<1> QED
  BY <1>1, <1>2, <1>3, <1>4, <1>5, <1>6, <1>7 DEF Read

LEMMA OthersKeepOrder ==
  ASSUME Fields, OneTaken, Ordered, Tick \/ Arrive \/ Control
  PROVE  Ordered' /\ UNCHANGED last
<1> USE DEF Fields, Ordered, InHand
<1>0. UNCHANGED last
  BY DEF Tick, Arrive, Control, Pause, SeekFlush, AnchorJump, Anchor, AnchorRestart, DeferFlush,
         SeekReset, ArmDeferred
<1>1. CASE Arrive
  <2>1. UNCHANGED <<pending, reader>> /\ buf' \subseteq buf \cup {next}
    BY <1>1 DEF Arrive
  <2>2. next' = [ep |-> next.ep, ts |-> next.ts + 1]
    BY <1>1 DEF Arrive, FrameNow
  <2>3. /\ FrameNow(next') /\ Before(next, next') /\ next'.ep = next.ep
        /\ \A f : FrameNow(f) /\ Before(f, next) => Before(f, next')
    BY <2>2 DEF FrameNow, Before
  <2>4. \A f \in buf' : f.ep = next'.ep /\ Before(f, next') /\ Before(last, f)
    BY <2>1, <2>3
  <2>5. Before(last, next')
    BY <2>3
  <2>6. \A p \in pending : /\ Before(last, p.frame) /\ Before(p.frame, next')
                           /\ \A f \in buf' : Before(p.frame, f)
    BY <2>1, <2>3 DEF PendingNow
  <2>7. InHand => /\ Before(last, reader.item) /\ Before(reader.item, next')
                  /\ \A f \in buf' : Before(reader.item, f)
    BY <2>1, <2>3
  <2> QED
    BY <1>0, <2>1, <2>4, <2>5, <2>6, <2>7 DEF Before
<1>2. CASE SeekFlush \/ AnchorJump
  <2>1. /\ UNCHANGED <<pending, reader>> /\ buf' = {}
        /\ next' = [ep |-> next.ep + 1, ts |-> 0]
    BY <1>2 DEF SeekFlush, AnchorJump, NewStream
  <2>2. \A f : FrameNow(f) /\ Before(f, next) => Before(f, next')
    BY <2>1 DEF FrameNow, Before
  <2> QED
    BY <1>0, <2>1, <2>2 DEF PendingNow, Before
<1>3. CASE UNCHANGED <<buf, next, reader>> /\ \A q \in pending' : \E p \in pending : q.frame = p.frame
  BY <1>0, <1>3 DEF Before
<1>4. Tick => \A q \in pending' : \E p \in pending : q.frame = p.frame
  BY PendingAges
<1>5. \A due \in Anchors :
        Anchor(due) => \A q \in pending' : \E p \in pending : q.frame = p.frame
  BY PendingAnchored DEF Anchor
<1>6. \A due \in Anchors : AnchorRestart(due) => pending' = {}
  BY DEF AnchorRestart
<1>7. \/ Pause \/ SeekReset \/ ArmDeferred \/ \E until \in 1 .. MaxTs : DeferFlush(until)
      => pending' \in {pending, {}}
  BY DEF Pause, SeekReset, ArmDeferred, DeferFlush
<1>8. \/ Tick \/ Pause \/ SeekReset \/ ArmDeferred \/ \E until \in 1 .. MaxTs : DeferFlush(until)
      \/ \E due \in Anchors : Anchor(due) \/ AnchorRestart(due)
      => UNCHANGED <<buf, next, reader>>
  BY DEF Tick, Pause, SeekReset, ArmDeferred, DeferFlush, Anchor, AnchorRestart
<1> QED
  BY <1>0, <1>1, <1>2, <1>3, <1>4, <1>5, <1>6, <1>7, <1>8 DEF Control

\* A flush is cut where it was asked for, though timestamp and flag are two
\* assignments.
LEMMA DeferralStep ==
  ASSUME Fields, DeferralKnown, [Next]_vars
  PROVE  /\ DeferralKnown'
         /\ reader'.at = "restart" /\ reader.at # "restart" =>
              want # None /\ reader.item.ts >= want
<1> USE DEF Fields, DeferralKnown
<1>1. CASE ReadDeferredFlush
  <2>1. UNCHANGED <<timing, ctl, want>> /\ timing.deferred /\ reader.item.ts >= timing.until
    BY <1>1 DEF ReadDeferredFlush, DeferredNow
  <2> QED
    BY <2>1
<1>2. CASE /\ UNCHANGED <<ctl, want>>
           /\ timing'.deferred = timing.deferred /\ timing'.until = timing.until
           /\ reader'.at = "restart" => reader.at = "restart"
  BY <1>2
<1>3. CASE Tick \/ ReadStart \/ ReadEarly \/ ReadHold \/ ReadLate \/ ReadPlay
  <2>1. timing'.deferred = timing.deferred /\ timing'.until = timing.until
    BY <1>3, TimingOfRead DEF Set
  <2>2. UNCHANGED <<ctl, want>>
    BY <1>3 DEF Tick, ReadStart, ReadEarly, ReadHold, ReadLate, ReadPlay
  <2>3. reader'.at = "restart" => reader.at = "restart"
    BY <1>3 DEF Tick, ReadStart, ReadEarly, ReadHold, ReadLate, ReadPlay, Return, Idle
  <2> QED
    BY <1>2, <2>1, <2>2, <2>3
<1>4. CASE ReadFetch
  <2>1. UNCHANGED <<timing, ctl, want>> /\ reader'.at \in {"frame", "start"}
    BY <1>4, Fetched DEF ReadFetch
  <2> QED
    BY <1>2, <2>1
<1>5. CASE ReadRestart
  <2>1. ~timing'.deferred /\ timing'.until = timing.until
    BY <1>5, TimingOfRead DEF Set
  <2>2. UNCHANGED ctl /\ (ctl = "arm" => want' = want) /\ reader'.at = "start"
    BY <1>5 DEF ReadRestart, Return, Idle
  <2> QED
    BY <2>1, <2>2
<1>6. CASE Arrive \/ SeekFlush \/ AnchorJump
  BY <1>6 DEF Arrive, SeekFlush, AnchorJump
<1>7. CASE Pause \/ \E due \in Anchors : Anchor(due)
  <2>1. timing'.deferred = timing.deferred /\ timing'.until = timing.until
    BY <1>7, TimingOfControl DEF Set
  <2>2. UNCHANGED <<ctl, want, reader>>
    BY <1>7 DEF Pause, Anchor
  <2> QED
    BY <1>2, <2>1, <2>2
<1>8. CASE SeekReset \/ \E due \in Anchors : AnchorRestart(due)
  <2>1. ~timing'.deferred
    BY <1>8, TimingOfControl DEF Set
  <2>2. ctl' = "idle" /\ UNCHANGED reader
    BY <1>8 DEF SeekReset, AnchorRestart
  <2> QED
    BY <2>1, <2>2
<1>9. ASSUME NEW until \in 1 .. MaxTs, DeferFlush(until)
      PROVE  DeferralKnown' /\ UNCHANGED reader
  <2>1. timing'.until = until /\ want' = until /\ UNCHANGED reader
    BY <1>9, TimingOfControl DEF Set, DeferFlush
  <2> QED
    BY <2>1 DEF None
<1>10. CASE ArmDeferred
  <2>1. timing'.until = timing.until /\ UNCHANGED <<want, reader>> /\ ctl = "arm"
    BY <1>10, TimingOfControl DEF Set, ArmDeferred
  <2> QED
    BY <2>1
<1>11. CASE UNCHANGED vars
  BY <1>11 DEF vars
<1> QED
  BY <1>1, <1>3, <1>4, <1>5, <1>6, <1>7, <1>8, <1>9, <1>10, <1>11 DEF Next, Read, Control

\* What is heard never goes back, whatever is flushed, paused, held or dropped
\* in whatever order, and a deferred flush happens at the frame it was asked
\* for (audio_timing_read against the RTSP task's calls).
THEOREM HeardForward == Spec => HeardInOrder
<1>1. Init => OrderInv
  <2> SUFFICES ASSUME Init PROVE OrderInv
    OBVIOUS
  <2>1. Ordered
    BY DEF Init, Ordered, Before, NoFrame, None, Idle, InHand
  <2>2. DeferralKnown
    BY DEF Init, DeferralKnown
  <2> QED
    BY <2>1, <2>2, FieldsStart DEF OrderInv
<1>2. OrderInv /\ [Next]_vars =>
        /\ OrderInv'
        /\ [last' # last => Before(last, last')]_vars
        /\ [reader'.at = "restart" /\ reader.at # "restart"
              => want # None /\ reader.item.ts >= want]_vars
  <2> SUFFICES ASSUME OrderInv, [Next]_vars
               PROVE  /\ Ordered' /\ (last' # last => Before(last, last'))
    BY FieldsStep, DeferralStep DEF OrderInv
  <2>1. CASE UNCHANGED vars
    BY <2>1 DEF vars, OrderInv, Ordered, InHand, Before
  <2> QED
    BY <2>1, ReadKeepsOrder, OthersKeepOrder DEF Next, OrderInv
<1>3. Spec => /\ [][last' # last => Before(last, last')]_vars
              /\ [][reader'.at = "restart" /\ reader.at # "restart"
                      => want # None /\ reader.item.ts >= want]_vars
  BY <1>1, <1>2, PTL DEF Spec
<1> QED
  BY <1>3 DEF HeardInOrder, PlaysForward, DeferredFlushInTime
=============================================================================
