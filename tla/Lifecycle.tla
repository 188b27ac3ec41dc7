------------------------------ MODULE Lifecycle ------------------------------
(***************************************************************************)
(* Starting, pausing, resuming, stopping and waiting for a crawl: the      *)
(* state machine of engine.go, driven by any number of goroutines at once, *)
(* and the pause gate of scheduler.go that the workers park at. The crawl  *)
(* itself is a count of requests still queued.                             *)
(*                                                                         *)
(* Pause and Resume each swap the engine's state first and reach the       *)
(* scheduler after; Stop swaps it, closes the frontier, then cancels.      *)
(* Each Pause makes a new gate channel; gates are numbered.                *)
(*                                                                         *)
(* A worker's pc:                                                          *)
(*   top     about to load `paused`                                        *)
(*   gate    saw it set; resumeGate is next                                *)
(*   parked  in the select on the gate it read and ctx.Done                *)
(*   pop     in PopReady                                                   *)
(*   work    processing a request                                          *)
(*   left    returned                                                      *)
(***************************************************************************)
EXTENDS Naturals

CONSTANTS
    Worker,
    Caller,      \* goroutines that call the engine's methods
    Requests,    \* the requests queued at the start
    MaxCalls,    \* bound: the calls each goroutine makes
    None

ASSUME LifecycleAssumption ==
    /\ Requests \in Nat /\ MaxCalls \in Nat
    /\ None \notin Nat

VARIABLES
    state,               \* Engine.state
    paused, gate, shut,  \* Scheduler.paused, resumeCh, and the closed gates
    queued, closed, cancelled,
    pc,
    parkedAt,            \* the gate each worker holds
    call,                \* where each goroutine is in its call
    calls,               \* the calls it has begun
    over,                \* how far Wait's shutdown body has come
    taken                \* history: requests each worker took since the pause

vars == <<state, paused, gate, shut, queued, closed, cancelled, pc, parkedAt,
          call, calls, over, taken>>

EngineState == {"idle", "running", "paused", "stopping", "stopped"}
PC == {"top", "gate", "parked", "pop", "work", "left"}
Call == {"none", "pausing", "resuming", "closing", "cancelling", "waiting"}

TypeOK ==
    /\ state \in EngineState
    /\ paused \in BOOLEAN /\ closed \in BOOLEAN /\ cancelled \in BOOLEAN
    /\ gate \in Nat /\ shut \subseteq 0 .. gate
    /\ queued \in 0 .. Requests
    /\ pc \in [Worker -> PC \cup {"unborn"}]
    /\ parkedAt \in [Worker -> Nat \cup {None}]
    /\ call \in [Caller -> Call]
    /\ calls \in [Caller -> 0 .. MaxCalls]
    /\ over \in {"no", "joining", "yes"}
    /\ taken \in [Worker -> Nat]

Init ==
    /\ state = "idle"
    /\ paused = FALSE /\ gate = 0 /\ shut = {}
    /\ queued = Requests /\ closed = FALSE /\ cancelled = FALSE
    /\ pc = [w \in Worker |-> "unborn"]
    /\ parkedAt = [w \in Worker |-> None]
    /\ call = [c \in Caller |-> "none"] /\ calls = [c \in Caller |-> 0]
    /\ over = "no"
    /\ taken = [w \in Worker |-> 0]

Goto(w, l) == pc' = [pc EXCEPT ![w] = l]
crawl == <<queued, closed, cancelled>>
gating == <<paused, gate, shut>>
workers == <<pc, parkedAt, taken>>

-----------------------------------------------------------------------------
(* The engine's methods. *)

\* A call that begins, and leaves its goroutine at l.
Begin(c, l) ==
    /\ call[c] = "none" /\ calls[c] < MaxCalls
    /\ call' = [call EXCEPT ![c] = l]
    /\ calls' = [calls EXCEPT ![c] = @ + 1]

End(c) == call' = [call EXCEPT ![c] = "none"] /\ UNCHANGED calls

Start(c) ==
    /\ Begin(c, "none")
    /\ state = "idle"
    /\ state' = "running"
    /\ pc' = [w \in Worker |-> "top"]
    /\ UNCHANGED <<gating, crawl, parkedAt, taken, over>>

Pause(c) ==
    /\ Begin(c, "pausing")
    /\ state = "running"
    /\ state' = "paused"
    /\ UNCHANGED <<gating, crawl, workers, over>>

Resume(c) ==
    /\ Begin(c, "resuming")
    /\ state = "paused"
    /\ state' = "running"
    /\ UNCHANGED <<gating, crawl, workers, over>>

\* Stop: outside "running" it is over as soon as it has begun.
Stop(c) ==
    /\ Begin(c, IF state = "running" THEN "closing" ELSE "none")
    /\ state' = IF state = "running" THEN "stopping" ELSE state
    /\ UNCHANGED <<gating, crawl, workers, over>>

\* Mutant: no guard against a pause already in force.
SchedulerPauseAlways(c) ==
    /\ call[c] = "pausing"
    /\ gate' = gate + 1
    /\ paused' = TRUE
    /\ taken' = IF paused THEN taken ELSE [w \in Worker |-> 0]
    /\ End(c)
    /\ UNCHANGED <<state, shut, crawl, pc, parkedAt, over>>

\* Mutant: makes no new gate, so that a second pause reuses a closed one.
SchedulerPauseKeepsGate(c) ==
    /\ call[c] = "pausing"
    /\ paused' = TRUE
    /\ taken' = IF paused THEN taken ELSE [w \in Worker |-> 0]
    /\ End(c)
    /\ UNCHANGED <<state, gate, shut, crawl, pc, parkedAt, over>>

\* Scheduler.Pause, under pauseMu.
SchedulerPause(c) ==
    /\ call[c] = "pausing"
    /\ IF paused
       THEN UNCHANGED <<gating, taken>>
       ELSE /\ gate' = gate + 1
            /\ paused' = TRUE
            /\ taken' = [w \in Worker |-> 0]
            /\ UNCHANGED shut
    /\ End(c)
    /\ UNCHANGED <<state, crawl, pc, parkedAt, over>>

\* Mutant: swaps the gate and closes the new one.
SchedulerResumeSwaps(c) ==
    /\ call[c] = "resuming"
    /\ IF ~paused
       THEN UNCHANGED gating
       ELSE /\ paused' = FALSE
            /\ gate' = gate + 1
            /\ shut' = shut \cup {gate'}
    /\ End(c)
    /\ UNCHANGED <<state, crawl, workers, over>>

\* Scheduler.Resume, under pauseMu.
SchedulerResume(c) ==
    /\ call[c] = "resuming"
    /\ IF ~paused
       THEN UNCHANGED gating
       ELSE /\ paused' = FALSE
            /\ shut' = shut \cup {gate}
            /\ UNCHANGED gate
    /\ End(c)
    /\ UNCHANGED <<state, crawl, workers, over>>

StopCloses(c) ==
    /\ call[c] = "closing"
    /\ closed' = TRUE
    /\ call' = [call EXCEPT ![c] = "cancelling"]
    /\ UNCHANGED <<state, gating, queued, cancelled, workers, calls, over>>

StopCancels(c) ==
    /\ call[c] = "cancelling"
    /\ cancelled' = TRUE
    /\ End(c)
    /\ UNCHANGED <<state, gating, queued, closed, workers, over>>

\* Wait, called once Start has returned; it may be called many times.
Wait(c) ==
    /\ Begin(c, "waiting")
    /\ state # "idle"
    /\ UNCHANGED <<state, gating, crawl, workers, over>>

\* scheduler.Wait returns and the first caller runs the shutdown body.
Shutdown(c) ==
    /\ call[c] = "waiting" /\ over = "no"
    /\ \A w \in Worker : pc[w] = "left"
    /\ over' = "joining"
    /\ cancelled' = TRUE
    /\ UNCHANGED <<state, gating, queued, closed, workers, call, calls>>

\* The item, result and checkpoint goroutines have been joined.
ShutdownEnds ==
    /\ over = "joining"
    /\ over' = "yes"
    /\ state' = "stopped"
    /\ UNCHANGED <<gating, crawl, workers, call, calls>>

WaitReturns(c) ==
    /\ call[c] = "waiting" /\ over = "yes"
    /\ End(c)
    /\ UNCHANGED <<state, gating, crawl, workers, over>>

-----------------------------------------------------------------------------
(* The workers and the idle monitor. *)

LoadPaused(w) ==
    /\ pc[w] = "top"
    /\ Goto(w, IF paused THEN "gate" ELSE "pop")
    /\ UNCHANGED <<state, gating, crawl, parkedAt, call, calls, over, taken>>

\* resumeGate, under pauseMu.
ReadGate(w) ==
    /\ pc[w] = "gate"
    /\ parkedAt' = [parkedAt EXCEPT ![w] = gate]
    /\ Goto(w, "parked")
    /\ UNCHANGED <<state, gating, crawl, call, calls, over, taken>>

Released(w) ==
    /\ pc[w] = "parked"
    /\ parkedAt[w] \in shut
    /\ parkedAt' = [parkedAt EXCEPT ![w] = None]
    /\ Goto(w, "pop")
    /\ UNCHANGED <<state, gating, crawl, call, calls, over, taken>>

LeaveGate(w) ==
    /\ pc[w] = "parked"
    /\ cancelled
    /\ parkedAt' = [parkedAt EXCEPT ![w] = None]
    /\ Goto(w, "left")
    /\ UNCHANGED <<state, gating, crawl, call, calls, over, taken>>

Pop(w) ==
    /\ pc[w] = "pop"
    /\ \/ /\ queued > 0
          /\ queued' = queued - 1
          /\ taken' = [taken EXCEPT ![w] = IF paused THEN @ + 1 ELSE @]
          /\ Goto(w, "work")
       \/ /\ (closed /\ queued = 0) \/ cancelled
          /\ Goto(w, "left")
          /\ UNCHANGED <<queued, taken>>
    /\ UNCHANGED <<state, gating, closed, cancelled, parkedAt, call, calls, over>>

\* The request is processed, and may bring the MaxRequests test to Stop: an
\* outside caller's Stop stands for that one too.
Finish(w) ==
    /\ pc[w] = "work"
    /\ Goto(w, "top")
    /\ UNCHANGED <<state, gating, crawl, parkedAt, call, calls, over, taken>>

\* Nothing is queued or in flight: the monitor closes the frontier.
IdleClose ==
    /\ state # "idle" /\ ~closed
    /\ queued = 0 /\ \A w \in Worker : pc[w] # "work"
    /\ closed' = TRUE
    /\ UNCHANGED <<state, gating, queued, cancelled, workers, call, calls, over>>

-----------------------------------------------------------------------------
Method(c) ==
    Start(c) \/ Pause(c) \/ Resume(c) \/ Stop(c) \/ Wait(c)

Rest(c) ==
    \/ SchedulerPause(c) \/ SchedulerResume(c) \/ StopCloses(c) \/ StopCancels(c)
    \/ Shutdown(c) \/ WaitReturns(c)

Work(w) ==
    \/ LoadPaused(w) \/ ReadGate(w) \/ Released(w) \/ LeaveGate(w)
    \/ Pop(w) \/ Finish(w)

Next ==
    \/ \E c \in Caller : Method(c) \/ Rest(c)
    \/ \E w \in Worker : Work(w)
    \/ IdleClose \/ ShutdownEnds

Spec == Init /\ [][Next]_vars

\* A call that has begun goes on, workers run, the monitor ticks. Nobody need
\* call anything.
FairSpec ==
    /\ Spec
    /\ \A c \in Caller : WF_vars(Rest(c))
    /\ \A w \in Worker : WF_vars(Work(w))
    /\ WF_vars(IdleClose) /\ WF_vars(ShutdownEnds)

-----------------------------------------------------------------------------
(* Properties. *)

(* "a worker never parks on a channel that Resume has already closed past" *)
(* (scheduler.go:27-29): the gate a worker holds is either closed, or is   *)
(* the one the next Resume will close.                                     *)
NoStaleGate ==
    \A w \in Worker :
        pc[w] = "parked" => parkedAt[w] \in shut \/ (parkedAt[w] = gate /\ paused)

(* A pause is felt at once: each worker takes at most one more request     *)
(* before it parks (scheduler.go:176-186), however the calls interleave.   *)
PauseTakesHold == paused => \A w \in Worker : taken[w] <= 1

(* Once the crawl is resumed for good no worker stays parked, whichever    *)
(* pause it parked for.                                                    *)
ResumeReleases ==
    \A w \in Worker : <>[](~paused) => []<>(pc[w] # "parked")

(* A Stop that takes effect ends every worker, parked or not, and every    *)
(* Wait returns: Stop before, during or after Pause and Resume, Wait       *)
(* called once or by several (engine.go:407-458).                          *)
StopEndsWait ==
    \A c \in Caller : call[c] = "waiting" /\ state = "stopping" ~> call[c] # "waiting"

(* No goroutine is left behind, neither a worker at a gate nor a caller of *)
(* Wait.                                                                   *)
NobodyWaitsForGood == ResumeReleases /\ StopEndsWait

(* The engine says "stopped" only when nothing of it runs any more.        *)
StoppedIsQuiet ==
    state = "stopped" => cancelled /\ \A w \in Worker : pc[w] \in {"left", "unborn"}
=============================================================================
