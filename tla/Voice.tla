------------------------------- MODULE Voice --------------------------------
(* Voice: the wake word (components/pogwake), the turns with POG AI          *)
(* (components/pogvoice), the microphone they share (components/pogmic), and *)
(* the handlers of main/network/web_server.c that ask for either.            *)
(* The tasks: the audio worker runs one job at a time, a turn, the wake      *)
(* monitor or an association; a capture task runs for the one who has the    *)
(* microphone; the timer looks every 200 ms whether to listen or to answer;  *)
(* the web task; the playback task.  Generations are compared for equality   *)
(* only: wake.fresh says that the monitor's is still the current one.        *)
EXTENDS Naturals, Sequences

CONSTANTS MaxRequests,  \* requests of the web page
          MaxMessages   \* messages POG AI sends in one turn

VARIABLES
  turn,     \* pogvoice's flags: busy, pairing, finish, cancel; who asked
  paired,   \* a token is stored
  ring,     \* reply audio waits for the playback task
  wake,     \* pogwake's status: enabled, suspended, active, fresh, pending,
            \* and waiting for s_retry_at
  mic,      \* pogmic's flags: active, stop
  cap,      \* the capture task of each owner: it runs, or has ended (or
            \* failed) and has not told its owner yet
  told,     \* what each owner's callback was told: no, ended or failed
  live,     \* the owner's callback context is allocated
  worker,   \* the audio worker: its queue, its job and the job's locals
  timer,    \* where the timer's callback is
  control,  \* who holds s_control
  web,      \* the web task: operation and step
  online,   \* Wi-Fi is connected
  heard,    \* the last word that was heard: none, fresh, or stale since the
            \* user muted, suspended or took over
  asked     \* requests so far

vars == <<turn, paired, ring, wake, mic, cap, told, live, worker, timer, control,
          web, online, heard, asked>>

Owners == {"turn", "wake", "sample", "test"}
NoJob == [job |-> "none", at |-> "none", session |-> FALSE, mic |-> FALSE,
          listening |-> FALSE, tts |-> FALSE, done |-> FALSE, failed |-> FALSE,
          hit |-> FALSE, messages |-> 0]
WebIdle == [op |-> "none", at |-> "idle", active |-> FALSE]

Init ==
  /\ turn = [busy |-> FALSE, pairing |-> FALSE, finish |-> FALSE, cancel |-> FALSE,
             by |-> "none"]
  /\ paired \in BOOLEAN /\ ring = FALSE
  /\ wake \in [enabled : BOOLEAN, suspended : {FALSE}, active : {FALSE},
               fresh : {FALSE}, pending : {FALSE}, waiting : {FALSE}]
  /\ mic = [active |-> FALSE, stop |-> FALSE]
  /\ cap = [o \in Owners |-> "off"] /\ told = [o \in Owners |-> "no"]
  /\ live = [o \in Owners |-> FALSE]
  /\ worker = [queue |-> <<>>, run |-> NoJob]
  /\ timer = "idle" /\ control = "none" /\ web = WebIdle
  /\ online = TRUE /\ heard = "none" /\ asked = 0

-----------------------------------------------------------------------------
(* The microphone: pogmic.c.                                                 *)

\* pogmic_stream_stop; the next capture_start forgets a stop that found nobody
Stopped == [mic EXCEPT !.stop = mic.active]

\* capture_start, and what it does to the flags; it refuses while s_active
Captured(o) ==
  /\ mic' = [active |-> TRUE, stop |-> FALSE]
  /\ cap' = [cap EXCEPT ![o] = "run"]
  /\ told' = [told EXCEPT ![o] = "no"]

\* capture_task leaves its loop: s_active is cleared before the owner is told
Leaves(o, how) ==
  /\ cap[o] = "run"
  /\ mic' = [active |-> FALSE, stop |-> FALSE]
  /\ cap' = [cap EXCEPT ![o] = IF o = "test" THEN "off" ELSE how]
  /\ UNCHANGED <<turn, paired, ring, wake, told, live, worker, timer, control, web,
                 online, heard, asked>>

\* s_stop is seen, or the duration is over (the monitor's capture has none)
CaptureEnds(o) == (mic.stop \/ o # "wake") /\ Leaves(o, "ended")

\* the driver fails, or the owner's buffer is full
CaptureFails(o) == Leaves(o, "failed")

\* Mutant: a monitor queued before a mute is current again after it
CurrentWhenEnabled == wake.enabled /\ ~wake.suspended

\* pogwake's current(): the monitor's generation is still the one wanted
Current == wake.enabled /\ ~wake.suspended /\ wake.fresh

\* the owner's callback with samples asks for a stop: the turn is cancelled,
\* the monitor is no longer current, the sample is complete
CallbackStops(o) ==
  /\ cap[o] = "run" /\ ~mic.stop
  /\ \/ o = "turn" /\ turn.cancel
     \/ o = "wake" /\ ~Current
     \/ o = "sample"
  /\ mic' = Stopped
  /\ UNCHANGED <<turn, paired, ring, wake, cap, told, live, worker, timer, control,
                 web, online, heard, asked>>

\* the callback without samples, the last use of the owner's context
CallbackTells(o) ==
  /\ cap[o] \in {"ended", "failed"}
  /\ told' = [told EXCEPT ![o] = cap[o]]
  /\ cap' = [cap EXCEPT ![o] = "off"]
  /\ UNCHANGED <<turn, paired, ring, wake, mic, live, worker, timer, control, web,
                 online, heard, asked>>

\* an owner frees its context, with what it was told
Freed(o) == live' = [live EXCEPT ![o] = FALSE] /\ told' = [told EXCEPT ![o] = "no"]

CaptureRuns == \E o \in Owners : CaptureEnds(o) \/ CallbackStops(o) \/ CallbackTells(o)
CaptureBreaks == \E o \in Owners : CaptureFails(o)
-----------------------------------------------------------------------------
(* pogwake's flags, and pogvoice_start_wake, which the web page and the      *)
(* timer call.                                                               *)

\* Mutant: a pause does not end the monitor's generation
PauseKeepsGeneration(w) == [w EXCEPT !.pending = FALSE, !.waiting = TRUE]

\* pause_locked: a new generation, and nothing pending
Paused(w) == [w EXCEPT !.fresh = FALSE, !.pending = FALSE, !.waiting = TRUE]

\* what was heard before counts no more
Outdated == IF heard = "none" THEN "none" ELSE "stale"

\* main.c: wake_available
Available == paired /\ ~turn.busy /\ ~turn.pairing /\ online

MayBegin == ~mic.active

\* the claim in pogvoice_start_wake: everything of the last turn is reset
MayClaim == ~turn.busy /\ ~turn.pairing /\ paired
Claimed(by) ==
  /\ turn' = [turn EXCEPT !.busy = TRUE, !.finish = FALSE, !.cancel = FALSE, !.by = by]
  /\ ring' = FALSE

\* pogvoice_worker_submit: a queue of one
QueueFree == worker.queue = <<>>
Submitted(job) == worker' = [worker EXCEPT !.queue = <<job>>]

\* the submission of a turn fails: the turn is given back
Released == turn' = [turn EXCEPT !.busy = FALSE]
-----------------------------------------------------------------------------
(* The timer: tick in pogwake.c.                                             *)

\* s_control is tried, not waited for; without a server to ask the monitor's
\* generation ends
TimerLooks ==
  /\ timer = "idle" /\ control = "none"
  /\ IF Available
       THEN timer' = "decide" /\ control' = "timer" /\ UNCHANGED wake
       ELSE /\ wake' = [wake EXCEPT !.fresh = @ /\ ~wake.active, !.pending = FALSE,
                                    !.waiting = TRUE]
            /\ UNCHANGED <<timer, control>>
  /\ UNCHANGED <<turn, paired, ring, mic, cap, told, live, worker, web, online, heard, asked>>

Goes == wake.enabled /\ ~wake.suspended /\ ~wake.active /\ ~mic.active /\ ~wake.waiting

TimerDecides ==
  /\ timer = "decide"
  /\ IF ~Goes
       THEN timer' = "idle" /\ control' = "none" /\ UNCHANGED wake
       ELSE /\ timer' = IF wake.pending THEN "check" ELSE "monitor"
            /\ wake' = IF wake.pending
                         THEN [wake EXCEPT !.pending = FALSE]
                         ELSE [wake EXCEPT !.active = TRUE, !.fresh = TRUE]
            /\ UNCHANGED control
  /\ UNCHANGED <<turn, paired, ring, mic, cap, told, live, worker, web, online, heard, asked>>

\* Mutant: a refused submission leaves the monitor marked active
RefusedButActive(w) == [w EXCEPT !.waiting = TRUE]

\* s_trigger or the submission failed: wait ten seconds
RefusedWake(w) == [w EXCEPT !.active = FALSE, !.waiting = TRUE]
TimerRefused ==
  timer' = "idle" /\ control' = "none" /\ wake' = RefusedWake(wake)

TimerChecks ==
  /\ timer = "check"
  /\ \/ MayBegin /\ timer' = "claim" /\ UNCHANGED <<control, wake>>
     \/ ~MayBegin /\ TimerRefused
  /\ UNCHANGED <<turn, paired, ring, mic, cap, told, live, worker, web, online, heard, asked>>

TimerClaims ==
  /\ timer = "claim"
  /\ \/ MayClaim /\ Claimed(heard) /\ timer' = "submit" /\ UNCHANGED <<control, wake>>
     \/ ~MayClaim /\ TimerRefused /\ UNCHANGED <<turn, ring>>
  /\ heard' = "none"
  /\ UNCHANGED <<paired, mic, cap, told, live, worker, web, online, asked>>

TimerSubmits ==
  /\ timer \in {"submit", "monitor"}
  /\ \/ /\ QueueFree /\ Submitted(IF timer = "submit" THEN "turn" ELSE "wake")
        /\ timer' = "idle" /\ control' = "none" /\ UNCHANGED <<turn, wake>>
     \/ /\ ~QueueFree /\ TimerRefused /\ UNCHANGED worker
        /\ IF timer = "submit" THEN Released ELSE UNCHANGED turn
  /\ UNCHANGED <<paired, ring, mic, cap, told, live, web, online, heard, asked>>

\* s_retry_at passes
RetryDue ==
  /\ wake.waiting /\ wake' = [wake EXCEPT !.waiting = FALSE]
  /\ UNCHANGED <<turn, paired, ring, mic, cap, told, live, worker, timer, control, web,
                 online, heard, asked>>

TimerRuns == TimerLooks \/ TimerDecides \/ TimerChecks \/ TimerClaims \/ TimerSubmits
-----------------------------------------------------------------------------
(* The worker: audio_worker, and its three jobs.                             *)

Run == worker.run
Job(job, at) == Run.job = job /\ Run.at = at
To(at) == worker' = [worker EXCEPT !.run.at = at]
JobEnds == worker' = [worker EXCEPT !.run = NoJob]

TakeJob ==
  /\ Run.job = "none" /\ ~QueueFree
  /\ worker' = [queue |-> <<>>, run |-> [NoJob EXCEPT !.job = Head(worker.queue), !.at = "begin"]]
  /\ UNCHANGED <<turn, paired, ring, wake, mic, cap, told, live, timer, control, web,
                 online, heard, asked>>

\* enroll_task: the claim is answered and stored, or not
EnrolEnds ==
  /\ Job("enrol", "begin") /\ JobEnds
  /\ paired' \in {TRUE, paired}
  /\ turn' = [turn EXCEPT !.pairing = FALSE]
  /\ UNCHANGED <<ring, wake, mic, cap, told, live, timer, control, web, online, heard, asked>>

\* monitor: the context is allocated, and the capture starts if it is still
\* wanted; memory or the microphone may be missing
MonitorBegins ==
  /\ Job("wake", "begin")
  /\ \/ /\ Current /\ ~mic.active /\ Captured("wake")
        /\ live' = [live EXCEPT !["wake"] = TRUE]
        /\ To("listen")
     \/ To("finish") /\ UNCHANGED <<mic, cap, told, live>>
  /\ UNCHANGED <<turn, paired, ring, wake, timer, control, web, online, heard, asked>>

\* the loop: the word is heard, the engine fails, or there is no more to hear
MonitorHears ==
  /\ Job("wake", "listen") /\ Current /\ told["wake"] = "no"
  /\ worker' = [worker EXCEPT !.run.at = "stop", !.run.hit = TRUE]
  /\ heard' = "fresh"
  /\ UNCHANGED <<turn, paired, ring, wake, mic, cap, told, live, timer, control, web,
                 online, asked>>

MonitorBreaks ==
  /\ Job("wake", "listen") /\ Current /\ told["wake"] = "no"
  /\ worker' = [worker EXCEPT !.run.at = "stop", !.run.failed = TRUE]
  /\ UNCHANGED <<turn, paired, ring, wake, mic, cap, told, live, timer, control, web,
                 online, heard, asked>>

MonitorLeaves ==
  /\ Job("wake", "listen") /\ (~Current \/ told["wake"] # "no")
  /\ To("stop")
  /\ UNCHANGED <<turn, paired, ring, wake, mic, cap, told, live, timer, control, web,
                 online, heard, asked>>

\* pogmic_stream_stop by the worker, which then waits for its callback
StopCapture(job) ==
  /\ Job(job, "stop") /\ To("wait")
  /\ mic' = Stopped
  /\ UNCHANGED <<turn, paired, ring, wake, cap, told, live, timer, control, web, online,
                 heard, asked>>

\* Mutant: the context is freed without waiting for the last callback
DoesNotWait(o) == TRUE

\* Never free the callback context while the I2S task still owns it
CallbackOver(o) == told[o] # "no"

CaptureOver(job) ==
  /\ Job(job, "wait") /\ CallbackOver(job) /\ To("finish")
  /\ UNCHANGED <<turn, paired, ring, wake, mic, cap, told, live, timer, control, web,
                 online, heard, asked>>

\* everything is freed, then the result is published if it is still wanted
MonitorFrees ==
  /\ Job("wake", "finish") /\ To("publish")
  /\ Freed("wake")
  /\ UNCHANGED <<turn, paired, ring, wake, mic, cap, timer, control, web, online,
                 heard, asked>>

MonitorPublishes ==
  /\ Job("wake", "publish") /\ JobEnds
  /\ heard' = IF Run.hit /\ wake.enabled /\ wake.fresh THEN heard ELSE "none"
  /\ wake' = [wake EXCEPT !.active = FALSE, !.waiting = TRUE,
                          !.pending = IF wake.enabled /\ wake.fresh THEN Run.hit ELSE @]
  /\ UNCHANGED <<turn, paired, ring, mic, cap, told, live, timer, control, web, online,
                 asked>>

WakeRuns ==
  \/ MonitorBegins \/ MonitorLeaves \/ StopCapture("wake") \/ CaptureOver("wake")
  \/ MonitorFrees \/ MonitorPublishes
-----------------------------------------------------------------------------
(* A turn: conversation in pogvoice.c.  Its loop looks for a cancellation,   *)
(* for what POG AI says, and for what the microphone gave.                   *)

Looping == Job("turn", "loop") /\ ~Run.done /\ ~turn.cancel
Says == Looping /\ Run.messages < MaxMessages
With(run) == worker' = [worker EXCEPT !.run = [run EXCEPT !.messages = @ + 1]]
Fails == worker' = [worker EXCEPT !.run.failed = TRUE, !.run.at = "cleanup"]

\* memory, the bootstrap and the connection: any may be missing
TurnBegins ==
  /\ Job("turn", "begin")
  /\ To("loop") \/ Fails
  /\ live' = [live EXCEPT !["turn"] = TRUE]
  /\ UNCHANGED <<turn, paired, ring, wake, mic, cap, told, timer, control, web, online, heard, asked>>

\* the connection breaks, a message is wrong or out of place, a send fails, or
\* the deadline passes
TurnFails ==
  /\ Looping /\ Fails
  /\ UNCHANGED <<turn, paired, ring, wake, mic, cap, told, live, timer, control, web,
                 online, heard, asked>>

\* hello: the codecs are opened and, unless the user has finished already,
\* the capture starts
Hello ==
  /\ Says /\ ~Run.session
  /\ \/ turn.finish /\ With([Run EXCEPT !.session = TRUE, !.done = TRUE])
        /\ UNCHANGED <<mic, cap, told>>
     \/ /\ ~turn.finish /\ ~mic.active /\ Captured("turn")
        /\ With([Run EXCEPT !.session = TRUE, !.mic = TRUE, !.listening = TRUE])
     \/ ~turn.finish /\ Fails /\ UNCHANGED <<mic, cap, told>>
  /\ UNCHANGED <<turn, paired, ring, wake, live, timer, control, web, online, heard, asked>>

\* Mutant: reply audio is admitted while the capture still runs
AdmitsAtOnce == With([Run EXCEPT !.listening = FALSE, !.tts = TRUE]) /\ UNCHANGED mic

\* tts start: the capture is stopped, and waited for, before reply audio is
\* admitted
Admits ==
  IF Run.listening
    THEN With([Run EXCEPT !.at = "hush"]) /\ mic' = Stopped
    ELSE With([Run EXCEPT !.tts = TRUE]) /\ UNCHANGED mic

TtsStart ==
  /\ Says /\ Run.session /\ Run.mic /\ Admits
  /\ UNCHANGED <<turn, paired, ring, wake, cap, told, live, timer, control, web, online,
                 heard, asked>>

Hushed ==
  /\ Job("turn", "hush") /\ CallbackOver("turn")
  /\ worker' = [worker EXCEPT !.run.at = "loop", !.run.listening = FALSE, !.run.tts = TRUE]
  /\ UNCHANGED <<turn, paired, ring, wake, mic, cap, told, live, timer, control, web,
                 online, heard, asked>>

\* a packet of the reply: speaker_write fills the ring
Audio ==
  /\ Says /\ Run.tts /\ ~Run.listening
  /\ With(Run) /\ ring' = TRUE
  /\ UNCHANGED <<turn, paired, wake, mic, cap, told, live, timer, control, web, online,
                 heard, asked>>

TtsStop ==
  /\ Says /\ Run.session /\ Run.mic /\ ~Run.listening
  /\ With([Run EXCEPT !.done = TRUE])
  /\ UNCHANGED <<turn, paired, ring, wake, mic, cap, told, live, timer, control, web,
                 online, heard, asked>>

\* another room has won: pogvoice_cancel, by the worker itself
Abort ==
  /\ Says /\ With([Run EXCEPT !.done = TRUE])
  /\ turn' = [turn EXCEPT !.cancel = TRUE] /\ ring' = FALSE
  /\ mic' = Stopped
  /\ UNCHANGED <<paired, wake, cap, told, live, timer, control, web, online, heard, asked>>

\* the user has finished: the capture is asked to stop
FinishHeard ==
  /\ Looping /\ Run.listening /\ turn.finish /\ ~mic.stop
  /\ mic' = Stopped
  /\ UNCHANGED <<turn, paired, ring, wake, cap, told, live, worker, timer, control, web,
                 online, heard, asked>>

\* the capture is over and its buffer sent: listen stop, thinking
Thinking ==
  /\ Looping /\ Run.listening /\ told["turn"] # "no"
  /\ IF told["turn"] = "failed"
       THEN Fails
       ELSE worker' = [worker EXCEPT !.run.listening = FALSE]
  /\ UNCHANGED <<turn, paired, ring, wake, mic, cap, told, live, timer, control, web,
                 online, heard, asked>>

\* the loop is left; a turn that is done waits for its reply to be played
LoopLeft ==
  /\ Job("turn", "loop") /\ (Run.done \/ turn.cancel)
  /\ To(IF Run.done /\ ~turn.cancel THEN "drain" ELSE "cleanup")
  /\ UNCHANGED <<turn, paired, ring, wake, mic, cap, told, live, timer, control, web,
                 online, heard, asked>>

\* the ring is empty, the user cancels, or three seconds pass
Drained ==
  /\ Job("turn", "drain")
  /\ \/ (~ring \/ turn.cancel) /\ To("cleanup")
     \/ ring /\ Fails
  /\ UNCHANGED <<turn, paired, ring, wake, mic, cap, told, live, timer, control, web,
                 online, heard, asked>>

Cleanup ==
  /\ Job("turn", "cleanup") /\ To(IF Run.mic THEN "stop" ELSE "finish")
  /\ UNCHANGED <<turn, paired, ring, wake, mic, cap, told, live, timer, control, web,
                 online, heard, asked>>

TurnFrees ==
  /\ Job("turn", "finish") /\ To("end")
  /\ Freed("turn")
  /\ UNCHANGED <<turn, paired, ring, wake, mic, cap, timer, control, web, online,
                 heard, asked>>

TurnEnd ==
  /\ Job("turn", "end") /\ JobEnds
  /\ turn' = [turn EXCEPT !.busy = FALSE, !.by = "none"] /\ ring' = FALSE
  /\ UNCHANGED <<paired, wake, mic, cap, told, live, timer, control, web, online, heard, asked>>

TurnRuns ==
  \/ TurnBegins \/ TurnFails \/ Hushed \/ FinishHeard \/ Thinking \/ LoopLeft \/ Drained
  \/ Cleanup \/ StopCapture("turn") \/ CaptureOver("turn") \/ TurnFrees \/ TurnEnd
PogAi == Hello \/ TtsStart \/ Audio \/ TtsStop \/ Abort

\* playback_task: pogvoice_speaker_read takes what is there
SpeakerReads ==
  /\ turn.busy /\ ring /\ ring' = FALSE
  /\ UNCHANGED <<turn, paired, wake, mic, cap, told, live, worker, timer, control, web,
                 online, heard, asked>>
-----------------------------------------------------------------------------
(* The web task: voice_action_handler, the microphone's test and sample, and *)
(* the quiet an update asks for.                                             *)

Web(op, at) == web.op = op /\ web.at = at
Next1(at) == web' = [web EXCEPT !.at = at]
Replies == web' = WebIdle
Asks(op, at) ==
  /\ web.at = "idle" /\ asked < MaxRequests
  /\ web' = [op |-> op, at |-> at, active |-> FALSE]
  /\ asked' = asked + 1

\* pogwake_pause or pogwake_suspend, under s_control
Pauses == control = "none" /\ wake' = Paused(wake) /\ heard' = Outdated

AskPause ==
  /\ \E op \in {"start", "sample"} : Asks(op, "await")
  /\ Pauses
  /\ UNCHANGED <<turn, paired, ring, mic, cap, told, live, worker, timer, control, online>>

\* the monitor has gone, or a second has passed
Awaited ==
  /\ web.at = "await" /\ Next1("check")
  /\ UNCHANGED <<turn, paired, ring, wake, mic, cap, told, live, worker, timer, control,
                 online, heard, asked>>

StartChecks ==
  /\ Web("start", "check")
  /\ IF MayBegin THEN Next1("claim") ELSE Replies
  /\ UNCHANGED <<turn, paired, ring, wake, mic, cap, told, live, worker, timer, control,
                 online, heard, asked>>

StartClaims ==
  /\ Web("start", "claim")
  /\ \/ MayClaim /\ Claimed("hand") /\ Next1("submit")
     \/ ~MayClaim /\ Replies /\ UNCHANGED <<turn, ring>>
  /\ UNCHANGED <<paired, wake, mic, cap, told, live, worker, timer, control, online,
                 heard, asked>>

StartSubmits ==
  /\ Web("start", "submit") /\ Replies
  /\ \/ QueueFree /\ Submitted("turn") /\ UNCHANGED turn
     \/ ~QueueFree /\ Released /\ UNCHANGED worker
  /\ UNCHANGED <<paired, ring, wake, mic, cap, told, live, timer, control, online, heard, asked>>

\* pogwake_configure: pause, and off in RAM before flash is written
AskConfigure ==
  /\ \E op \in {"mute", "unmute", "forget"} :
       /\ op = "unmute" => ~wake.suspended /\ Available
       /\ Asks(op, "save")
  /\ control = "none" /\ control' = "web"
  /\ wake' = [Paused(wake) EXCEPT !.enabled = FALSE] /\ heard' = Outdated
  /\ UNCHANGED <<turn, paired, ring, mic, cap, told, live, worker, timer, online>>

Configured ==
  /\ web.at = "save" /\ control' = "none"
  /\ \E saved \in BOOLEAN :
       /\ wake' = [wake EXCEPT !.enabled = saved /\ web.op = "unmute", !.waiting = TRUE]
       /\ CASE web.op = "unmute" -> Replies
            [] web.op = "mute" -> Next1("cancel")
            [] web.op = "forget" -> IF saved THEN Next1("claim") ELSE Replies
  /\ UNCHANGED <<turn, paired, ring, mic, cap, told, live, worker, timer, online, heard, asked>>

\* pogvoice_forget
ForgetClaims ==
  /\ Web("forget", "claim")
  /\ IF turn.busy \/ turn.pairing
       THEN Replies /\ UNCHANGED turn
       ELSE Next1("erase") /\ turn' = [turn EXCEPT !.pairing = TRUE]
  /\ UNCHANGED <<paired, ring, wake, mic, cap, told, live, worker, timer, control, online,
                 heard, asked>>

ForgetErases ==
  /\ Web("forget", "erase") /\ Replies
  /\ turn' = [turn EXCEPT !.pairing = FALSE] /\ paired' \in {FALSE, paired}
  /\ UNCHANGED <<ring, wake, mic, cap, told, live, worker, timer, control, online, heard, asked>>

\* pogvoice_enroll
AskEnrol ==
  /\ ~turn.busy /\ ~turn.pairing /\ Asks("enrol", "submit")
  /\ turn' = [turn EXCEPT !.pairing = TRUE]
  /\ UNCHANGED <<paired, ring, wake, mic, cap, told, live, worker, timer, control, online, heard>>

EnrolSubmits ==
  /\ Web("enrol", "submit") /\ Replies
  /\ \/ QueueFree /\ Submitted("enrol") /\ UNCHANGED turn
     \/ ~QueueFree /\ turn' = [turn EXCEPT !.pairing = FALSE] /\ UNCHANGED worker
  /\ UNCHANGED <<paired, ring, wake, mic, cap, told, live, timer, control, online, heard, asked>>

\* pogvoice_finish and pogvoice_cancel, which stops the microphone when it has
\* let go of the lock
AskFinish ==
  /\ web.at = "idle" /\ asked < MaxRequests /\ asked' = asked + 1
  /\ turn' = [turn EXCEPT !.finish = TRUE]
  /\ UNCHANGED <<paired, ring, wake, mic, cap, told, live, worker, timer, control, web,
                 online, heard>>

AskCancel ==
  /\ Asks("cancel", "cancel")
  /\ UNCHANGED <<turn, paired, ring, wake, mic, cap, told, live, worker, timer, control,
                 online, heard>>

Cancels ==
  /\ web.at = "cancel"
  /\ turn' = [turn EXCEPT !.cancel = TRUE] /\ ring' = FALSE
  /\ web' = [web EXCEPT !.at = "hush", !.active = turn.busy]
  /\ UNCHANGED <<paired, wake, mic, cap, told, live, worker, timer, control, online, heard, asked>>

CancelStops ==
  /\ web.at = "hush"
  /\ IF web.op = "update" THEN Next1("quiesce") ELSE Replies
  /\ mic' = IF web.active THEN Stopped ELSE mic
  /\ UNCHANGED <<turn, paired, ring, wake, cap, told, live, worker, timer, control, online,
                 heard, asked>>

\* pogmic_app_test_start and pogmic_app_sample_start: not during a turn
AskTest ==
  /\ Asks("test", "check")
  /\ UNCHANGED <<turn, paired, ring, wake, mic, cap, told, live, worker, timer, control,
                 online, heard>>

MayTest ==
  /\ web.op \in {"test", "sample"} /\ web.at = "check"
  /\ IF turn.busy \/ turn.pairing THEN Replies ELSE Next1("capture")
  /\ UNCHANGED <<turn, paired, ring, wake, mic, cap, told, live, worker, timer, control,
                 online, heard, asked>>

TestCaptures ==
  /\ web.at = "capture"
  /\ IF mic.active
       THEN Replies /\ UNCHANGED <<mic, cap, told, live>>
       ELSE /\ Captured(web.op)
            /\ IF web.op = "test"
                 THEN Replies /\ UNCHANGED live
                 ELSE Next1("wait") /\ live' = [live EXCEPT !["sample"] = TRUE]
  /\ UNCHANGED <<turn, paired, ring, wake, worker, timer, control, online, heard, asked>>

\* the handler's sample is on its stack: it waits however long it takes
SampleEnds ==
  /\ Web("sample", "wait") /\ told["sample"] # "no" /\ Replies
  /\ Freed("sample")
  /\ UNCHANGED <<turn, paired, ring, wake, mic, cap, worker, timer, control, online,
                 heard, asked>>

\* voice_quiesce_for_ota; an update that fails lets the wake word go again
AskUpdate ==
  /\ Asks("update", "cancel") /\ control = "none"
  /\ wake' = [Paused(wake) EXCEPT !.suspended = TRUE] /\ heard' = Outdated
  /\ UNCHANGED <<turn, paired, ring, mic, cap, told, live, worker, timer, control, online>>

\* the three seconds pass, or voice is quiet and the update fails
UpdateOver ==
  /\ Web("update", "quiesce") /\ Replies /\ control = "none"
  /\ wake' = [Paused(wake) EXCEPT !.suspended = FALSE] /\ heard' = Outdated
  /\ UNCHANGED <<turn, paired, ring, mic, cap, told, live, worker, timer, control, online, asked>>

WebRuns ==
  \/ Awaited \/ StartChecks \/ StartClaims \/ StartSubmits \/ Configured
  \/ ForgetClaims \/ ForgetErases \/ EnrolSubmits \/ Cancels \/ CancelStops
  \/ MayTest \/ TestCaptures \/ SampleEnds \/ UpdateOver
User ==
  \/ AskPause \/ AskConfigure \/ AskEnrol \/ AskFinish \/ AskCancel \/ AskTest \/ AskUpdate

NetworkChanges ==
  /\ asked < MaxRequests /\ asked' = asked + 1 /\ online' = ~online
  /\ UNCHANGED <<turn, paired, ring, wake, mic, cap, told, live, worker, timer, control,
                 web, heard>>

WorkerRuns == TakeJob \/ EnrolEnds \/ WakeRuns \/ TurnRuns

Next ==
  \/ CaptureRuns \/ CaptureBreaks \/ TimerRuns \/ RetryDue \/ WorkerRuns
  \/ MonitorHears \/ MonitorBreaks \/ PogAi \/ SpeakerReads \/ WebRuns \/ User
  \/ NetworkChanges

\* every task runs when it can; time passes; nobody has to speak
Fairness ==
  /\ \A o \in Owners : WF_vars(CaptureEnds(o) \/ CallbackStops(o) \/ CallbackTells(o))
  /\ WF_vars(TimerRuns) /\ WF_vars(RetryDue) /\ WF_vars(WorkerRuns) /\ WF_vars(WebRuns)

Spec == Init /\ [][Next]_vars /\ Fairness
-----------------------------------------------------------------------------
TypeOK ==
  /\ turn \in [busy : BOOLEAN, pairing : BOOLEAN, finish : BOOLEAN, cancel : BOOLEAN,
               by : {"none", "hand", "fresh", "stale"}]
  /\ paired \in BOOLEAN /\ ring \in BOOLEAN /\ online \in BOOLEAN
  /\ wake \in [enabled : BOOLEAN, suspended : BOOLEAN, active : BOOLEAN,
               fresh : BOOLEAN, pending : BOOLEAN, waiting : BOOLEAN]
  /\ cap \in [Owners -> {"off", "run", "ended", "failed"}]
  /\ told \in [Owners -> {"no", "ended", "failed"}]
  /\ live \in [Owners -> BOOLEAN] /\ mic \in [active : BOOLEAN, stop : BOOLEAN]
  /\ Len(worker.queue) <= 1 /\ asked \in 0..MaxRequests

\* The capture task never calls back into a context that was freed: pogvoice's
\* connection and pogwake's capture live on the heap, the web page's sample on
\* a stack, and the microphone is free for the next owner before the last
\* callback of the old one.
CallbackContextAlive == \A o \in Owners \ {"test"} : cap[o] # "off" => live[o]

\* There is no echo cancellation: while reply audio waits or may be admitted,
\* the turn's own capture is over.
QuietWhileSpeaking == (ring \/ Run.tts) => cap["turn"] # "run"

\* A turn begun by the wake word answers a word heard since the user last
\* muted, suspended or took over: not one from before.
WakeIsFresh == turn.by # "stale"

\* Every turn ends, however the microphone, POG AI and the user behave, and so
\* does an association: the speaker goes back to the music.
TurnEnds == turn.busy \/ turn.pairing ~> ~turn.busy /\ ~turn.pairing

\* A wake word that stays enabled, with a server to ask and the microphone
\* free, is listened for again and again: no refusal, failure or turn in
\* between leaves the monitor marked active when it is not.
Wanted == wake.enabled /\ ~wake.suspended /\ Available /\ ~(cap["test"] = "run")
KeepsListening == <>[]Wanted => []<>(Run.job = "wake")

\* The microphone obeys: it is not open to the device's own voice, and what it
\* heard before it was muted starts nothing (pogvoice.c, pogwake.c).
MicrophoneObeys == QuietWhileSpeaking /\ WakeIsFresh

\* Turn follows turn: each one ends, and the wake word is listened for again
\* (pogvoice_worker.c, pogwake.c).
TurnsFollow == TurnEnds /\ KeepsListening
=============================================================================
