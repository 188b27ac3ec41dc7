--------------------------- MODULE LifecycleProofs ---------------------------
(* Proofs of Lifecycle's safety properties, for any number of workers,      *)
(* callers, calls and requests.                                             *)
EXTENDS Lifecycle, TLAPS

(* The type invariant: no call, gate or shutdown step leaves a variable     *)
(* outside its type, and gates are closed only once they have been made     *)
(* (scheduler.go:91-112, engine.go:374-474).                                *)
THEOREM TypeCorrect == Spec => []TypeOK
<1>1. Init => TypeOK
  <2> SUFFICES ASSUME Init PROVE TypeOK
    OBVIOUS
  <2> USE LifecycleAssumption DEF LifecycleAssumption, Init, EngineState, PC, Call
  <2>1. queued \in 0 .. Requests /\ gate \in Nat /\ shut \subseteq 0 .. gate
    OBVIOUS
  <2>2. calls \in [Caller -> 0 .. MaxCalls] /\ taken \in [Worker -> Nat]
    OBVIOUS
  <2>3. parkedAt \in [Worker -> Nat \cup {None}]
    OBVIOUS
  <2>4. pc \in [Worker -> PC \cup {"unborn"}] /\ call \in [Caller -> Call]
    OBVIOUS
  <2> QED
    BY <2>1, <2>2, <2>3, <2>4 DEF TypeOK
<1>2. TypeOK /\ [Next]_vars => TypeOK'
  <2> SUFFICES ASSUME TypeOK, [Next]_vars PROVE TypeOK'
    OBVIOUS
  <2> USE LifecycleAssumption
      DEF LifecycleAssumption, TypeOK, EngineState, PC, Call, Begin, End, Goto,
          crawl, gating, workers
  <2>1. ASSUME NEW c \in Caller, NEW l \in Call, Begin(c, l)
        PROVE  call' \in [Caller -> Call] /\ calls' \in [Caller -> 0 .. MaxCalls]
    BY <2>1
  <2>1a. ASSUME NEW c \in Caller, Start(c) PROVE TypeOK'
    BY <2>1, <2>1a DEF Start
  <2>1b. ASSUME NEW c \in Caller, Pause(c) \/ Resume(c) \/ Wait(c) PROVE TypeOK'
    BY <2>1, <2>1b DEF Pause, Resume, Wait
  <2>1c. ASSUME NEW c \in Caller, Stop(c) PROVE TypeOK'
    BY <2>1, <2>1c DEF Stop
  <2>2. ASSUME NEW c \in Caller, SchedulerPause(c) PROVE TypeOK'
    <3>1. CASE paused
      BY <2>2, <3>1 DEF SchedulerPause
    <3>2. CASE ~paused
      <4>1. gate' = gate + 1 /\ shut' = shut /\ paused' = TRUE
        BY <2>2, <3>2 DEF SchedulerPause
      <4>2. gate' \in Nat /\ shut' \subseteq 0 .. gate'
        <5>1. gate \in Nat /\ shut \subseteq 0 .. gate
          BY DEF TypeOK
        <5>2. 0 .. gate \subseteq 0 .. gate + 1
          BY <5>1
        <5> QED
          BY <4>1, <5>1, <5>2
      <4>3. taken' = [w \in Worker |-> 0]
        BY <2>2, <3>2 DEF SchedulerPause
      <4>4. taken' \in [Worker -> Nat]
        BY <4>3
      <4> QED
        BY <2>2, <4>1, <4>2, <4>4 DEF SchedulerPause
    <3> QED
      BY <3>1, <3>2
  <2>3. ASSUME NEW c \in Caller, SchedulerResume(c) PROVE TypeOK'
    <3>1. CASE ~paused
      BY <2>3, <3>1 DEF SchedulerResume
    <3>2. CASE paused
      <4>1. gate' = gate /\ shut' = shut \cup {gate} /\ paused' = FALSE
        BY <2>3, <3>2 DEF SchedulerResume
      <4>2. gate' \in Nat /\ shut' \subseteq 0 .. gate'
        BY <4>1
      <4> QED
        BY <2>3, <4>1, <4>2 DEF SchedulerResume
    <3> QED
      BY <3>1, <3>2
  <2>4. ASSUME NEW c \in Caller, StopCloses(c) \/ StopCancels(c) PROVE TypeOK'
    BY <2>4 DEF StopCloses, StopCancels
  <2>5. ASSUME NEW c \in Caller, Shutdown(c) \/ WaitReturns(c) PROVE TypeOK'
    BY <2>5 DEF Shutdown, WaitReturns
  <2>6. ASSUME NEW w \in Worker, LoadPaused(w) \/ ReadGate(w) PROVE TypeOK'
    BY <2>6 DEF LoadPaused, ReadGate
  <2>7. ASSUME NEW w \in Worker, Released(w) \/ LeaveGate(w) PROVE TypeOK'
    BY <2>7 DEF Released, LeaveGate
  <2>8. ASSUME NEW w \in Worker, Pop(w) PROVE TypeOK'
    BY <2>8 DEF Pop
  <2>9. ASSUME NEW w \in Worker, Finish(w) PROVE TypeOK'
    BY <2>9 DEF Finish
  <2>10. CASE IdleClose
    BY <2>10 DEF IdleClose
  <2>11. CASE ShutdownEnds
    BY <2>11 DEF ShutdownEnds
  <2>12. CASE UNCHANGED vars
    BY <2>12 DEF vars
  <2> QED
    BY <2>1a, <2>1b, <2>1c, <2>2, <2>3, <2>4, <2>5, <2>6, <2>7, <2>8, <2>9, <2>10,
       <2>11, <2>12 DEF Next, Method, Rest, Work
<1> QED
  BY <1>1, <1>2, PTL DEF Spec

-----------------------------------------------------------------------------
(* What NoStaleGate needs: a worker that saw the pause and has not read the *)
(* gate yet will read one that is still to be closed, or was closed since. *)
GateInv ==
    /\ NoStaleGate
    /\ \A w \in Worker : pc[w] = "gate" => paused \/ gate \in shut

(* A worker never parks on a gate Resume has closed past                    *)
(* (scheduler.go:27-29, 99-119).                                            *)
THEOREM ParksOnLiveGate == Spec => []NoStaleGate
<1>1. Init => GateInv
  BY DEF Init, GateInv, NoStaleGate
<1>2. TypeOK /\ GateInv /\ [Next]_vars => GateInv'
  <2> SUFFICES ASSUME TypeOK, GateInv, [Next]_vars PROVE GateInv'
    OBVIOUS
  <2> USE DEF TypeOK, GateInv, NoStaleGate, Goto, crawl, gating, workers
  <2>1. ASSUME NEW c \in Caller, Start(c) PROVE GateInv'
    BY <2>1 DEF Start
  <2>2. ASSUME NEW c \in Caller, Pause(c) \/ Resume(c) \/ Stop(c) \/ Wait(c)
        PROVE  GateInv'
    BY <2>2 DEF Pause, Resume, Stop, Wait
  <2>3. ASSUME NEW c \in Caller, SchedulerPause(c) PROVE GateInv'
    <3>1. CASE paused
      BY <2>3, <3>1 DEF SchedulerPause
    <3>2. CASE ~paused
      BY <2>3, <3>2 DEF SchedulerPause
    <3> QED
      BY <3>1, <3>2
  <2>4. ASSUME NEW c \in Caller, SchedulerResume(c) PROVE GateInv'
    BY <2>4 DEF SchedulerResume
  <2>5. ASSUME NEW c \in Caller,
               StopCloses(c) \/ StopCancels(c) \/ Shutdown(c) \/ WaitReturns(c)
        PROVE  GateInv'
    BY <2>5 DEF StopCloses, StopCancels, Shutdown, WaitReturns
  <2>6. ASSUME NEW w \in Worker, LoadPaused(w) PROVE GateInv'
    BY <2>6 DEF LoadPaused
  <2>7. ASSUME NEW w \in Worker, ReadGate(w) PROVE GateInv'
    BY <2>7 DEF ReadGate
  <2>8. ASSUME NEW w \in Worker, Released(w) \/ LeaveGate(w) PROVE GateInv'
    BY <2>8 DEF Released, LeaveGate
  <2>9. ASSUME NEW w \in Worker, Pop(w) \/ Finish(w) PROVE GateInv'
    BY <2>9 DEF Pop, Finish
  <2>10. CASE IdleClose \/ ShutdownEnds \/ UNCHANGED vars
    BY <2>10 DEF IdleClose, ShutdownEnds, vars
  <2> QED
    BY <2>1, <2>2, <2>3, <2>4, <2>5, <2>6, <2>7, <2>8, <2>9, <2>10
       DEF Next, Method, Rest, Work
<1> QED
  BY <1>1, <1>2, TypeCorrect, PTL DEF Spec, GateInv

-----------------------------------------------------------------------------
(* What PauseTakesHold needs: during a pause the gate in force is open, and *)
(* a worker that has taken its one request is past the pop for good: it     *)
(* will park on that gate, and nothing but Resume closes it.                *)
HoldInv ==
    paused =>
        /\ gate \notin shut
        /\ \A w \in Worker :
            \/ taken[w] = 0
            \/ /\ taken[w] = 1 /\ pc[w] # "pop"
               /\ pc[w] = "parked" => parkedAt[w] = gate

(* During a pause no worker takes a second request (scheduler.go:91-112,    *)
(* 176-186), however the calls of Pause and Resume interleave.              *)
THEOREM PauseHolds == Spec => []PauseTakesHold
<1>1. Init => HoldInv
  BY DEF Init, HoldInv
<1>2. TypeOK /\ HoldInv /\ [Next]_vars => HoldInv'
  <2> SUFFICES ASSUME TypeOK, HoldInv, [Next]_vars PROVE HoldInv'
    OBVIOUS
  <2> USE DEF TypeOK, HoldInv, Goto, crawl, gating, workers
  <2>0. UNCHANGED <<paused, gate, shut, pc, parkedAt, taken>> => HoldInv'
    BY Zenon DEF HoldInv
  <2>1. ASSUME NEW c \in Caller, Start(c) PROVE HoldInv'
    BY <2>1 DEF Start
  <2>2. ASSUME NEW c \in Caller, Pause(c) \/ Resume(c) \/ Stop(c) \/ Wait(c)
        PROVE  HoldInv'
    BY <2>0, <2>2 DEF Pause, Resume, Stop, Wait
  <2>3. ASSUME NEW c \in Caller, SchedulerPause(c) PROVE HoldInv'
    <3>1. CASE paused
      BY <2>3, <3>1 DEF SchedulerPause
    <3>2. CASE ~paused
      <4>1. gate' = gate + 1 /\ shut' = shut /\ taken' = [w \in Worker |-> 0]
        BY <2>3, <3>2 DEF SchedulerPause
      <4>2. gate' \notin shut'
        BY <4>1
      <4>3. \A w \in Worker : taken'[w] = 0
        BY <4>1
      <4> QED
        BY <4>2, <4>3
    <3> QED
      BY <3>1, <3>2
  <2>4. ASSUME NEW c \in Caller, SchedulerResume(c) PROVE HoldInv'
    BY <2>4 DEF SchedulerResume
  <2>5. ASSUME NEW c \in Caller,
               StopCloses(c) \/ StopCancels(c) \/ Shutdown(c) \/ WaitReturns(c)
        PROVE  HoldInv'
    BY <2>0, <2>5 DEF StopCloses, StopCancels, Shutdown, WaitReturns
  <2>6. ASSUME NEW w \in Worker, LoadPaused(w) PROVE HoldInv'
    BY <2>6 DEF LoadPaused
  <2>7. ASSUME NEW w \in Worker, ReadGate(w) PROVE HoldInv'
    BY <2>7 DEF ReadGate
  <2>8. ASSUME NEW w \in Worker, Released(w) \/ LeaveGate(w) PROVE HoldInv'
    <3>1. pc[w] = "parked" /\ pc' \in [Worker -> PC \cup {"unborn"}]
      BY <2>8 DEF Released, LeaveGate, PC
    <3>2. pc'[w] \in {"pop", "left"} /\ (pc'[w] = "pop" => parkedAt[w] \in shut)
      BY <2>8 DEF Released, LeaveGate
    <3>3. \A v \in Worker \ {w} : pc'[v] = pc[v] /\ parkedAt'[v] = parkedAt[v]
      BY <2>8 DEF Released, LeaveGate
    <3>4. UNCHANGED <<paused, gate, shut, taken>>
      BY <2>8 DEF Released, LeaveGate
    <3>5. paused => taken[w] = 0 \/ (taken[w] = 1 /\ parkedAt[w] = gate)
      BY <3>1
    <3> QED
      BY <3>1, <3>2, <3>3, <3>4, <3>5
  <2>9. ASSUME NEW w \in Worker, Pop(w) PROVE HoldInv'
    BY <2>9 DEF Pop
  <2>10. ASSUME NEW w \in Worker, Finish(w) PROVE HoldInv'
    BY <2>10 DEF Finish
  <2>11. CASE IdleClose \/ ShutdownEnds \/ UNCHANGED vars
    BY <2>0, <2>11 DEF IdleClose, ShutdownEnds, vars
  <2> QED
    BY <2>1, <2>2, <2>3, <2>4, <2>5, <2>6, <2>7, <2>8, <2>9, <2>10, <2>11
       DEF Next, Method, Rest, Work
<1>3. HoldInv => PauseTakesHold
  <2> SUFFICES ASSUME HoldInv, paused, NEW w \in Worker PROVE taken[w] <= 1
    BY Zenon DEF PauseTakesHold
  <2>1. taken[w] = 0 \/ taken[w] = 1
    BY Zenon DEF HoldInv
  <2> QED
    BY <2>1
<1> QED
  BY <1>1, <1>2, <1>3, TypeCorrect, PTL DEF Spec

-----------------------------------------------------------------------------
(* What StoppedIsQuiet needs: only a started engine is waited for, and the  *)
(* shutdown body, once begun, found every worker gone.                      *)
QuietInv ==
    /\ \A c \in Caller : call[c] = "waiting" => state # "idle"
    /\ state = "stopped" => over = "yes"
    /\ over # "no" =>
        state # "idle" /\ cancelled /\ \A w \in Worker : pc[w] = "left"

(* An engine that says "stopped" has no worker left running                 *)
(* (engine.go:407-437).                                                     *)
THEOREM QuietWhenStopped == Spec => []StoppedIsQuiet
<1>1. Init => QuietInv
  BY DEF Init, QuietInv
<1>2. TypeOK /\ QuietInv /\ [Next]_vars => QuietInv'
  <2> SUFFICES ASSUME TypeOK, QuietInv, [Next]_vars PROVE QuietInv'
    OBVIOUS
  <2> USE DEF TypeOK, QuietInv, Goto, crawl, gating, workers, Begin, End
  <2>1. ASSUME NEW c \in Caller, Start(c) PROVE QuietInv'
    BY <2>1 DEF Start
  <2>2. ASSUME NEW c \in Caller, Pause(c) \/ Resume(c) PROVE QuietInv'
    BY <2>2 DEF Pause, Resume
  <2>3. ASSUME NEW c \in Caller, Stop(c) \/ Wait(c) PROVE QuietInv'
    BY <2>3 DEF Stop, Wait
  <2>4. ASSUME NEW c \in Caller, SchedulerPause(c) \/ SchedulerResume(c)
        PROVE  QuietInv'
    BY <2>4 DEF SchedulerPause, SchedulerResume
  <2>5. ASSUME NEW c \in Caller, StopCloses(c) \/ StopCancels(c) \/ WaitReturns(c)
        PROVE  QuietInv'
    BY <2>5 DEF StopCloses, StopCancels, WaitReturns
  <2>6. ASSUME NEW c \in Caller, Shutdown(c) PROVE QuietInv'
    BY <2>6 DEF Shutdown
  <2>7. ASSUME NEW w \in Worker, Work(w) PROVE QuietInv'
    <3>1. pc[w] # "left" /\ UNCHANGED <<state, call, over, cancelled>>
      BY <2>7 DEF Work, LoadPaused, ReadGate, Released, LeaveGate, Pop, Finish
    <3>2. over = "no"
      BY <3>1
    <3> QED
      BY <3>1, <3>2
  <2>8. CASE IdleClose \/ ShutdownEnds \/ UNCHANGED vars
    BY <2>8 DEF IdleClose, ShutdownEnds, vars
  <2> QED
    BY <2>1, <2>2, <2>3, <2>4, <2>5, <2>6, <2>7, <2>8 DEF Next, Method, Rest
<1>3. QuietInv => StoppedIsQuiet
  BY DEF QuietInv, StoppedIsQuiet
<1> QED
  BY <1>1, <1>2, <1>3, TypeCorrect, PTL DEF Spec
=============================================================================
