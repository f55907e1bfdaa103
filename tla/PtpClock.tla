------------------------------ MODULE PtpClock ------------------------------
(* The AirPlay 2 clock: main/network/ptp_clock.c.                            *)
(* A task hears SYNC and FOLLOW_UP messages of the masters on the network    *)
(* and estimates the offset to one of them; client tasks name the master     *)
(* (ptp_clock_set_master_clock_id) and forget it (ptp_clock_clear) without a *)
(* lock.  An offset is known by its master and by the delay of the SYNC it   *)
(* was measured with: two masters are far apart, and two delays are as far   *)
(* apart as they differ.  Sequence numbers only tell whether a FOLLOW_UP     *)
(* goes with the last SYNC.  ptp_clock_notify_resume is left out: its only   *)
(* call needs a pause snapshot, which no handler takes.                      *)
EXTENDS Naturals

CONSTANTS Masters,     \* clock identities
          Tolerance,   \* LOCK_THRESHOLD_NS and OUTLIER_THRESHOLD_NS, in delay units
          Delays,      \* the delays of a SYNC, 0 among them
          MinSamples,  \* MIN_SAMPLES_FOR_LOCK
          MaxCalls     \* calls of the client tasks

VARIABLES
  clk,      \* struct ptp: expect, locked, cand, recent, samples, prev, off,
            \* await, and the SYNC it waits with
  ear,      \* the ptp task: the message it handles and how far it is
  caller,   \* each client task: the call it is in
  calm,     \* from now on every SYNC comes without delay
  ptpHist   \* calls so far, and whether one ran into a message being handled

ptpVars == <<clk, ear, caller, calm, ptpHist>>

NoClock == "none"
Callers == {"session", "replaced"}
Mixed == "mixed"   \* the time of one master with the arrival of another's SYNC
Zero == [of |-> NoClock, late |-> 0]
Deaf == [at |-> "idle", kind |-> "sync", of |-> NoClock, late |-> 0]

Init ==
  /\ clk = [expect |-> NoClock, locked |-> FALSE, cand |-> "none", recent |-> TRUE,
            samples |-> 0, prev |-> FALSE, off |-> Zero, await |-> FALSE, sync |-> Zero]
  /\ ear = Deaf /\ caller = [c \in Callers |-> "idle"] /\ calm = FALSE
  /\ ptpHist = [calls |-> 0, slipped |-> FALSE]
-----------------------------------------------------------------------------
(* The ptp task.                                                             *)

\* process_ptp_message: the filter
Heeds(m) == clk.expect \in {NoClock, m}

Arrives(kind, m, late) ==
  /\ ear.at = "idle" /\ Heeds(m)
  /\ ear' = [at |-> "handle", kind |-> kind, of |-> m, late |-> late]
  /\ UNCHANGED <<clk, caller, calm, ptpHist>>

\* a SYNC that carries its time, one that does not, and a FOLLOW_UP whose
\* sequence number is the last SYNC's; the delay is the SYNC's
Sync(kind, m, late) == (calm => late = 0) /\ Arrives(kind, m, late)
FollowUp(m) == Arrives("follow_up", m, 0)

Apart(x, y) == IF x > y THEN x - y ELSE y - x

\* the asymmetric filter: a shorter delay is taken over at once in the first
\* second and little by little later, a longer one hardly at all
Smoothed(s) ==
  IF ~clk.prev THEN {s.late}
  ELSE IF s.late > clk.off.late THEN {clk.off.late} ELSE s.late..clk.off.late

\* Mutant: every sample starts the 250 ms again.
LockedRestarts(k) ==
  IF k.samples < MinSamples \/ k.locked THEN k ELSE [k EXCEPT !.cand = "new"]

\* update_offset, the lock: enough samples, and 250 ms since the first of them
\* (what deviates by the lock threshold is an outlier already: here no lock is
\* lost, no candidate given up)
Locked(k) ==
  IF k.samples < MinSamples \/ k.locked THEN k
  ELSE IF k.cand = "old" THEN [k EXCEPT !.locked = TRUE, !.cand = "none"]
  ELSE [k EXCEPT !.cand = "new"]

\* update_offset: the first sample is always taken, an outlier never (it still
\* counts as heard)
Update(s) ==
  LET heard == [clk EXCEPT !.recent = TRUE, !.await = FALSE, !.sync = Zero,
                           !.samples = IF @ = MinSamples THEN @ ELSE @ + 1]
      outlier == clk.off.of # s.of \/ Apart(clk.off.late, s.late) > Tolerance
  IN IF clk.prev /\ outlier
       THEN clk' = heard
       ELSE \E late \in Smoothed(s) :
              clk' = Locked([heard EXCEPT !.prev = TRUE, !.off = [s EXCEPT !.late = late]])

\* process_sync and process_followup
ProcessSync ==
  /\ ear.kind \in {"one_step", "two_step"}
  /\ LET s == [of |-> ear.of, late |-> ear.late]
     IN IF ear.kind = "one_step"
          THEN Update(s)
          ELSE clk' = [clk EXCEPT !.await = TRUE, !.sync = s]

ProcessFollowUp ==
  /\ ear.kind = "follow_up"
  /\ IF clk.await
       THEN Update([clk.sync EXCEPT !.of = IF @ = ear.of THEN @ ELSE Mixed])
       ELSE UNCHANGED clk

Listens ==
  /\ ear.at = "handle" /\ ear' = Deaf
  /\ ProcessSync \/ ProcessFollowUp
  /\ UNCHANGED <<caller, calm, ptpHist>>

\* time: 250 ms since the candidate, five seconds since the last sample (which
\* matter only to a lock)
StableTime ==
  /\ clk.cand = "new" /\ clk' = [clk EXCEPT !.cand = "old"]
  /\ UNCHANGED <<ear, caller, calm, ptpHist>>
Silence ==
  /\ clk.locked /\ clk.recent /\ ear.at = "idle" /\ ~calm /\ clk' = [clk EXCEPT !.recent = FALSE]
  /\ UNCHANGED <<ear, caller, calm, ptpHist>>
CalmsDown == ~calm /\ calm' = TRUE /\ UNCHANGED <<clk, ear, caller, ptpHist>>

\* ptp_clock_is_locked, which every reader of the clock calls
IsLocked ==
  /\ clk.locked /\ ~clk.recent
  /\ clk' = [clk EXCEPT !.locked = FALSE, !.cand = "none"]
  /\ UNCHANGED <<ear, caller, calm, ptpHist>>
-----------------------------------------------------------------------------
(* The client tasks.                                                         *)

Calls(c, op) ==
  /\ caller[c] = "idle" /\ ptpHist.calls < MaxCalls
  /\ caller' = [caller EXCEPT ![c] = op]
Called(c, op) == caller[c] = op /\ caller' = [caller EXCEPT ![c] = "idle"]

\* Mutant: a SYNC of the other master is still waited with.
ResetsButWaits(k) ==
  [k EXCEPT !.locked = FALSE, !.cand = "none", !.off = Zero, !.samples = 0, !.prev = FALSE]

\* what both calls forget
Resets(k) ==
  [k EXCEPT !.locked = FALSE, !.cand = "none", !.off = Zero, !.samples = 0,
            !.prev = FALSE, !.await = FALSE, !.sync = Zero]

Begun == [ptpHist EXCEPT !.calls = @ + 1]
Slips(hist) == [hist EXCEPT !.slipped = ear.at # "idle"]

\* ptp_clock_set_master_clock_id, called for every anchor: the filter, then the
\* samples so far; naming the same master again changes nothing
SetMaster(m) ==
  /\ Calls("session", "name") /\ clk.expect # m
  /\ clk' = [clk EXCEPT !.expect = m] /\ ptpHist' = Begun
  /\ UNCHANGED <<ear, calm>>

SetMasterResets ==
  /\ Called("session", "name")
  /\ clk' = Resets(clk) /\ ptpHist' = Slips(ptpHist)
  /\ UNCHANGED <<ear, calm>>

\* ptp_clock_clear, called by TEARDOWN and at the end of a connection, of a
\* replaced one too: the samples so far, then the filter
Clear(c) ==
  /\ Calls(c, "clear")
  /\ clk' = Resets(clk) /\ ptpHist' = Slips(Begun)
  /\ UNCHANGED <<ear, calm>>

ClearUnpins(c) ==
  /\ Called(c, "clear")
  /\ clk' = [clk EXCEPT !.expect = NoClock]
  /\ UNCHANGED <<ear, calm, ptpHist>>
-----------------------------------------------------------------------------
Hears ==
  \E m \in Masters :
    FollowUp(m) \/ \E kind \in {"one_step", "two_step"}, late \in Delays : Sync(kind, m, late)
Time == StableTime \/ Silence \/ CalmsDown
Users == (\E m \in Masters : SetMaster(m)) \/ \E c \in Callers : Clear(c)
Carries == SetMasterResets \/ \E c \in Callers : ClearUnpins(c)

Next == Hears \/ Listens \/ Time \/ IsLocked \/ Users \/ Carries

\* the task and the callers run when they can, time passes, and the named
\* master goes on sending
Fairness ==
  /\ WF_ptpVars(Listens) /\ WF_ptpVars(Carries) /\ WF_ptpVars(StableTime)
  /\ SF_ptpVars(\E m \in Masters : m = clk.expect /\ Sync("two_step", m, 0))
  /\ SF_ptpVars(\E m \in Masters : m = clk.expect /\ FollowUp(m))

Spec == Init /\ [][Next]_ptpVars /\ Fairness
-----------------------------------------------------------------------------
Named == clk.expect # NoClock /\ \A c \in Callers : caller[c] = "idle"

\* When a master has been named and no message was being handled meanwhile, the
\* offset is that master's and measured with its own SYNC: what other clocks on
\* the network sent before or since is not in it.
NamedMasterOnly ==
  Named /\ ~ptpHist.slipped /\ clk.prev => clk.off.of = clk.expect

\* A named master that can be heard is locked to in the end, if the first
\* sample of it came without a long delay.
NearBy == clk.prev => clk.off.of = clk.expect /\ clk.off.late <= Tolerance
LocksOn == <>[](Named /\ calm /\ NearBy) => <>clk.locked

\* The comment on the lock criteria: it converges "in <1 s while still
\* rejecting genuine outliers", whatever the first sample was.
ConvergesAnyway == <>[](Named /\ calm) => <>clk.locked
=============================================================================
