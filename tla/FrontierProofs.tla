--------------------------- MODULE FrontierProofs ---------------------------
(* Proofs that the frontier keeps its invariants, and implements the pool, *)
(* for any number of workers, requests and domains.                        *)
EXTENDS Frontier, TLAPS

\* What a worker's `held` means at each point of PopReady and of the loop.
HeldOK ==
    \A w \in Worker :
        pc[w] \in Carrying \cup {"retried"} <=> held[w] # None

TypeInv == TypeOK /\ HeldOK

LEMMA CarriedMember ==
    ASSUME NEW r
    PROVE  r \in Carried <=> \E w \in Worker : pc[w] \in Carrying /\ held[w] = r
  BY DEF Carried

LEMMA TypeInit == Init => TypeInv
<1> SUFFICES ASSUME Init PROVE TypeInv
  OBVIOUS
<1>1. TypeOK
  <2>1. \A r \in Req : retries[r] \in Nat /\ retries[r] <= MaxRetries[r]
    BY FrontierAssumption DEF FrontierAssumption, Init
  <2>2. retries \in [Req -> Nat]
    BY DEF Init
  <2> QED
    BY <2>1, <2>2, Zenon DEF Init, TypeOK, PC
<1>2. HeldOK
  BY DEF Init, HeldOK, Carrying
<1> QED
  BY <1>1, <1>2 DEF TypeInv

LEMMA TypeStep == TypeInv /\ [Next]_vars => TypeInv'
<1> SUFFICES ASSUME TypeInv, [Next]_vars PROVE TypeInv'
  OBVIOUS
<1> USE FrontierAssumption DEF FrontierAssumption, TypeInv, TypeOK, HeldOK, Carrying, PC, Goto
<1>1. ASSUME NEW w \in Worker, TakeRunnable(w) PROVE TypeInv'
  BY <1>1 DEF TakeRunnable, First, Runnable
<1>2. ASSUME NEW w \in Worker, FindNothing(w) PROVE TypeInv'
  BY <1>2 DEF FindNothing
<1>3. ASSUME NEW w \in Worker, Claim(w) PROVE TypeInv'
  BY <1>3 DEF Claim
<1>4. ASSUME NEW w \in Worker, PutBackDone(w) PROVE TypeInv'
  BY <1>4 DEF PutBackDone
<1>5. ASSUME NEW w \in Worker, PutBackPush(w) PROVE TypeInv'
  BY <1>5 DEF PutBackPush
<1>6. ASSUME NEW w \in Worker, PutBackWake(w) PROVE TypeInv'
  BY <1>6 DEF PutBackWake
<1>7. ASSUME NEW w \in Worker, HandBaton(w) PROVE TypeInv'
  BY <1>7 DEF HandBaton
<1>8. ASSUME NEW w \in Worker,
             TakeToken(w) \/ TimerFires(w) \/ SeeClosed(w) \/ SeeCancelled(w)
      PROVE TypeInv'
  BY <1>8 DEF TakeToken, TimerFires, SeeClosed, SeeCancelled
<1>9. ASSUME NEW w \in Worker, Drain(w) PROVE TypeInv'
  BY <1>9 DEF Drain, First
<1>10. ASSUME NEW w \in Worker, Retry(w) PROVE TypeInv'
  BY <1>10 DEF Retry
<1>11. ASSUME NEW w \in Worker, Done(w) PROVE TypeInv'
  BY <1>11 DEF Done
<1>12. ASSUME NEW r \in Req, Push(r) \/ Wake(r) \/ GiveUp(r) PROVE TypeInv'
  BY <1>12 DEF Push, Wake, GiveUp
<1>13. ASSUME (\E d \in Domain : Refill(d)) \/ Close \/ Cancel PROVE TypeInv'
  BY <1>13 DEF Refill, Close, Cancel
<1>14. CASE UNCHANGED vars
  BY <1>14 DEF vars
<1> QED
  BY <1>1, <1>2, <1>3, <1>4, <1>5, <1>6, <1>7, <1>8, <1>9, <1>10, <1>11,
     <1>12, <1>13, <1>14 DEF Next, PopReady, AllLeft

LEMMA TypeInvariant == Spec => []TypeInv
  BY TypeInit, TypeStep, PTL DEF Spec

(* Every variable keeps its type; in particular no request is retried more *)
(* than its MaxRetries (scheduler.go:685).                                 *)
THEOREM TypeCorrect == Spec => []TypeOK
  BY TypeInvariant, PTL DEF TypeInv

-----------------------------------------------------------------------------
(* Conservation. *)

LEMMA OnePlaceInit == Init => OnePlace
  BY DEF Init, OnePlace, Carried, Carrying

\* Steps that move no request: none changes who carries what.
LEMMA CarriedUnchanged ==
    ASSUME TypeInv, held' = held,
           \A w \in Worker : pc'[w] \in Carrying <=> pc[w] \in Carrying
    PROVE  Carried' = Carried
  BY DEF Carried

LEMMA OnePlaceStep == TypeInv /\ OnePlace /\ [Next]_vars => OnePlace'
<1> SUFFICES ASSUME TypeInv, OnePlace, [Next]_vars PROVE OnePlace'
  OBVIOUS
<1> USE DEF TypeInv, TypeOK, HeldOK, Goto
<1>1. ASSUME NEW w \in Worker, TakeRunnable(w) PROVE OnePlace'
  <2>1. PICK r \in queue : /\ queue' = queue \ {r}
                           /\ held' = [held EXCEPT ![w] = r]
    BY <1>1 DEF TakeRunnable, First, Runnable
  <2>2. pc[w] = "scan" /\ pc' = [pc EXCEPT ![w] = "claim"]
    BY <1>1 DEF TakeRunnable
  <2>3. Carried' = Carried \cup {r}
    BY <2>1, <2>2 DEF Carried, Carrying, PC
  <2> QED
    BY <1>1, <2>1, <2>2, <2>3, CarriedMember DEF OnePlace, TakeRunnable, Carrying
<1>2. ASSUME NEW w \in Worker,
             FindNothing(w) \/ Claim(w) \/ PutBackDone(w) \/ PutBackWake(w)
             \/ HandBaton(w) \/ TakeToken(w) \/ TimerFires(w)
             \/ SeeClosed(w) \/ SeeCancelled(w)
      PROVE OnePlace'
  <2>1. /\ held' = held
        /\ \A v \in Worker : pc'[v] \in Carrying <=> pc[v] \in Carrying
    BY <1>2 DEF FindNothing, Claim, PutBackDone, PutBackWake, HandBaton,
                TakeToken, TimerFires, SeeClosed, SeeCancelled, Carrying
  <2>2. UNCHANGED <<arrivals, queue, finished, dropped>>
    BY <1>2 DEF FindNothing, Claim, PutBackDone, PutBackWake, HandBaton,
                TakeToken, TimerFires, SeeClosed, SeeCancelled
  <2> QED
    BY <2>1, <2>2, CarriedUnchanged DEF OnePlace
<1>3. ASSUME NEW w \in Worker, PutBackPush(w) PROVE OnePlace'
  <2>1. /\ pc[w] = "repush" /\ held[w] \in Req /\ held[w] \in Carried
        /\ held' = [held EXCEPT ![w] = None]
        /\ pc' = [pc EXCEPT ![w] = IF closed THEN "scan" ELSE "wake"]
    BY <1>3 DEF PutBackPush, Carried, Carrying
  <2>2. Carried' = Carried \ {held[w]}
    BY <2>1 DEF Carried, Carrying, OnePlace, PC
  <2>3. \A v \in Worker : pc'[v] \in Carrying => v # w /\ pc[v] \in Carrying
    BY <2>1 DEF Carrying
  <2> QED
    BY <1>3, <2>1, <2>2, <2>3 DEF OnePlace, PutBackPush
<1>4. ASSUME NEW w \in Worker, Drain(w) PROVE OnePlace'
  <2>1. CASE queue = {}
    <3>1. Carried' = Carried
      BY <1>4, <2>1, CarriedUnchanged DEF Drain, Carrying
    <3> QED
      BY <1>4, <2>1, <3>1 DEF OnePlace, Drain, Carrying
  <2>2. CASE queue # {}
    <3>1. PICK r \in queue : /\ queue' = queue \ {r}
                             /\ held' = [held EXCEPT ![w] = r]
                             /\ pc' = [pc EXCEPT ![w] = "hold"]
      BY <1>4, <2>2 DEF Drain, First
    <3>2. pc[w] = "drain"
      BY <1>4 DEF Drain
    <3>3. Carried' = Carried \cup {r}
      BY <3>1, <3>2 DEF Carried, Carrying, PC
    <3> QED
      BY <1>4, <3>1, <3>2, <3>3, CarriedMember DEF OnePlace, Drain, Carrying
  <2> QED
    BY <2>1, <2>2
<1>5. ASSUME NEW w \in Worker, Retry(w) PROVE OnePlace'
  <2>1. /\ pc[w] = "hold" /\ held[w] \in Req /\ held[w] \in Carried
        /\ held' = held /\ pc' = [pc EXCEPT ![w] = "retried"]
    BY <1>5 DEF Retry, Carried, Carrying
  <2>2. Carried' = Carried \ {held[w]}
    BY <2>1 DEF Carried, Carrying, OnePlace, PC
  <2>3. \A v \in Worker : pc'[v] \in Carrying => v # w /\ pc[v] \in Carrying
    BY <2>1 DEF Carrying
  <2> QED
    BY <1>5, <2>1, <2>2, <2>3 DEF OnePlace, Retry
<1>6. ASSUME NEW w \in Worker, Done(w) PROVE OnePlace'
  <2>1. /\ held[w] \in Req
        /\ held' = [held EXCEPT ![w] = None]
        /\ pc' = [pc EXCEPT ![w] = "scan"]
    BY <1>6 DEF Done, Carrying
  <2>2. \A v \in Worker : pc'[v] \in Carrying => v # w /\ pc[v] \in Carrying
    BY <2>1 DEF Carrying
  <2>3. CASE pc[w] = "hold"
    <3>1. held[w] \in Carried /\ Carried' = Carried \ {held[w]}
      BY <2>1, <2>3 DEF Carried, Carrying, OnePlace, PC
    <3> QED
      BY <1>6, <2>1, <2>2, <2>3, <3>1 DEF OnePlace, Done
  <2>4. CASE pc[w] = "retried"
    <3>1. Carried' = Carried
      BY <2>1, <2>4 DEF Carried, Carrying, PC
    <3> QED
      BY <1>6, <2>1, <2>2, <2>4, <3>1 DEF OnePlace, Done
  <2> QED
    BY <1>6, <2>3, <2>4 DEF Done
<1>7. ASSUME NEW r \in Req, Push(r) \/ Wake(r) \/ GiveUp(r) PROVE OnePlace'
  <2>1. Carried' = Carried
    BY <1>7, CarriedUnchanged DEF Push, Wake, GiveUp
  <2> QED
    BY <1>7, <2>1 DEF OnePlace, Push, Wake, GiveUp
<1>8. ASSUME (\E d \in Domain : Refill(d)) \/ Close \/ Cancel \/ UNCHANGED vars
      PROVE OnePlace'
  <2>1. Carried' = Carried
    BY <1>8, CarriedUnchanged DEF Refill, Close, Cancel, vars
  <2> QED
    BY <1>8, <2>1 DEF OnePlace, Refill, Close, Cancel, vars
<1> QED
  BY <1>1, <1>2, <1>3, <1>4, <1>5, <1>6, <1>7, <1>8
  DEF Next, PopReady, AllLeft

(* No request is lost or handed to two workers, whatever the interleaving. *)
THEOREM Conservation == Spec => []OnePlace
  BY TypeInvariant, OnePlaceInit, OnePlaceStep, PTL DEF Spec

\* Engine.Stop's order: the context is cancelled only after the close.
CloseFirst == cancelled => closed

LEMMA CloseFirstInvariant == Spec => []CloseFirst
<1>1. Init => CloseFirst
  BY DEF Init, CloseFirst
<1>2. CloseFirst /\ [Next]_vars => CloseFirst'
  BY DEF CloseFirst, Next, vars, PopReady, AllLeft, TakeRunnable,
         FindNothing, Claim, PutBackDone, PutBackPush, PutBackWake, HandBaton,
         TakeToken, TimerFires, SeeClosed, SeeCancelled, Drain, Retry, Done,
         Push, Wake, GiveUp, Refill, Close, Cancel
<1> QED
  BY <1>1, <1>2, PTL DEF Spec

(* Nothing is dropped by an open frontier. *)
THEOREM OpenDropsNothing == Spec => []DropOnlyWhenClosed
<1>1. Init => DropOnlyWhenClosed
  BY DEF Init, DropOnlyWhenClosed
<1>2. CloseFirst /\ DropOnlyWhenClosed /\ [Next]_vars => DropOnlyWhenClosed'
  BY DEF CloseFirst, DropOnlyWhenClosed, Next, vars, PopReady, AllLeft,
         TakeRunnable, FindNothing, Claim, PutBackDone, PutBackPush,
         PutBackWake, HandBaton, TakeToken, TimerFires, SeeClosed,
         SeeCancelled, Drain, Retry, Done, Push, Wake, GiveUp, Refill, Close,
         Cancel
<1> QED
  BY <1>1, <1>2, CloseFirstInvariant, PTL DEF Spec

-----------------------------------------------------------------------------
(* No lost wakeup. The invariant is inductive once it is known that the    *)
(* context is cancelled only after the frontier has closed: a cancelled    *)
(* worker leaves without looking at the queue again.                       *)

Covered == token \/ unsignalled # {} \/ \E w \in Worker : Alert(w)

LEMMA WakeupInit == Init => NoLostWakeup
  BY DEF Init, NoLostWakeup

LEMMA WakeupStep ==
    TypeInv /\ CloseFirst /\ NoLostWakeup /\ [Next]_vars => NoLostWakeup'
<1> SUFFICES ASSUME TypeInv, CloseFirst, NoLostWakeup, [Next]_vars,
                    NEW p \in Worker, pc'[p] = "parked", queue' # {}, ~closed'
             PROVE  Covered'
  BY DEF NoLostWakeup, Covered, Alert
<1> USE DEF TypeInv, TypeOK, Goto
<1>1. ASSUME NEW w \in Worker, TakeRunnable(w) PROVE Covered'
  <2>1. PICK r \in queue : queue' = queue \ {r}
                           /\ baton' = IF queue = {r} THEN baton \ {w} ELSE baton \cup {w}
    BY <1>1 DEF TakeRunnable, First, Runnable
  <2>2. w \in baton' /\ pc'[w] = "claim"
    BY <1>1, <2>1 DEF TakeRunnable
  <2> QED
    BY <2>2 DEF Covered, Alert
<1>2. ASSUME NEW w \in Worker, FindNothing(w) PROVE Covered'
  <2>1. w \in timed' /\ pc'[w] = "parked"
    BY <1>2 DEF FindNothing
  <2> QED
    BY <2>1 DEF Covered, Alert
<1>3. ASSUME NEW w \in Worker, Claim(w) PROVE Covered'
  <2>1. pc[p] = "parked"
    BY <1>3 DEF Claim
  <2>2. Covered
    BY <1>3, <2>1 DEF Claim, NoLostWakeup, Covered
  <2>3. CASE token \/ unsignalled # {}
    BY <1>3, <2>3 DEF Claim, Covered
  <2>4. ASSUME NEW v \in Worker, Alert(v) PROVE Alert(v)'
    BY <1>3, <2>4 DEF Claim, Alert
  <2> QED
    BY <2>2, <2>3, <2>4 DEF Covered
<1>4. ASSUME NEW w \in Worker,
             PutBackDone(w) \/ TakeToken(w) \/ TimerFires(w) \/ SeeClosed(w)
             \/ PutBackPush(w) \/ Done(w)
      PROVE Covered'
  <2>1. pc'[w] \in {"scan", "repush", "wake"}
    BY <1>4 DEF PutBackDone, TakeToken, TimerFires, SeeClosed, PutBackPush, Done
  <2> QED
    BY <2>1 DEF Covered, Alert
<1>5. ASSUME NEW w \in Worker, PutBackWake(w) \/ HandBaton(w) PROVE Covered'
  BY <1>5 DEF PutBackWake, HandBaton, Covered
<1>6. ASSUME NEW w \in Worker, SeeCancelled(w) PROVE Covered'
  BY <1>6 DEF SeeCancelled, CloseFirst
<1>7. ASSUME NEW w \in Worker, Drain(w) \/ Retry(w) PROVE Covered'
  <2>1. pc[p] = "parked" /\ pc[w] \in {"drain", "hold"} /\ queue # {}
    BY <1>7 DEF Drain, Retry, First
  <2>2. Covered
    BY <1>7, <2>1 DEF Drain, Retry, NoLostWakeup, Covered
  <2>3. CASE token \/ unsignalled # {}
    BY <1>7, <2>3 DEF Drain, Retry, Covered
  <2>4. ASSUME NEW v \in Worker, Alert(v) PROVE Alert(v)'
    BY <1>7, <2>1, <2>4 DEF Drain, Retry, Alert
  <2> QED
    BY <2>2, <2>3, <2>4 DEF Covered
<1>8. ASSUME NEW r \in Req, Push(r) PROVE Covered'
  BY <1>8 DEF Push, Covered
<1>9. ASSUME NEW r \in Req, Wake(r) PROVE Covered'
  BY <1>9 DEF Wake, Covered
<1>10. ASSUME (\E r \in Req : GiveUp(r)) \/ (\E d \in Domain : Refill(d))
              \/ Close \/ Cancel \/ UNCHANGED vars
       PROVE Covered'
  BY <1>10 DEF GiveUp, Refill, Close, Cancel, vars, NoLostWakeup, Covered, Alert
<1> QED
  BY <1>1, <1>2, <1>3, <1>4, <1>5, <1>6, <1>7, <1>8, <1>9, <1>10
  DEF Next, PopReady, AllLeft

(* A worker never sleeps beside a queued request with nobody due to wake it. *)
THEOREM NoWakeupIsLost == Spec => []NoLostWakeup
  BY TypeInvariant, CloseFirstInvariant, WakeupInit, WakeupStep, PTL DEF Spec

-----------------------------------------------------------------------------
(* The frontier implements the pool. *)

HandedOut(r) == \E w \in Worker : pc[w] \in {"baton", "hold"} /\ held[w] = r

\* The refinement mapping read off the five places.
LEMMA StatusByPlace ==
    ASSUME TypeInv, OnePlace, NEW r \in Req
    PROVE  /\ r \in arrivals <=> StatusOf(r) = "arriving"
           /\ r \in finished <=> StatusOf(r) = "finished"
           /\ r \in dropped <=> StatusOf(r) = "dropped"
           /\ HandedOut(r) <=> StatusOf(r) = "held"
           /\ StatusOf(r) \in {"arriving", "queued", "held", "finished", "dropped"}
<1>1. HandedOut(r) => r \in Carried
  BY CarriedMember DEF HandedOut, Carrying
<1>2. /\ r \in arrivals => r \notin queue \cup Carried \cup finished \cup dropped
      /\ r \in Carried => r \notin finished \cup dropped
      /\ r \in finished => r \notin dropped
  BY DEF OnePlace
<1> QED
  BY <1>1, <1>2 DEF StatusOf, HandedOut

\* A step that leaves each place alone, and who was handed what, is a stutter.
LEMMA StatusUnchanged ==
    ASSUME TypeInv, OnePlace, TypeInv', OnePlace',
           NEW r \in Req,
           UNCHANGED <<arrivals, finished, dropped>>,
           HandedOut(r)' <=> HandedOut(r)
    PROVE  StatusOf(r)' = StatusOf(r)
  BY DEF StatusOf, HandedOut

LEMMA PoolStep ==
    TypeInv /\ TypeInv' /\ OnePlace /\ OnePlace' /\ CloseFirst /\ [Next]_vars
        => [Pool!PoolNext]_(Pool!poolVars)
<1> SUFFICES ASSUME TypeInv, TypeInv', OnePlace, OnePlace', CloseFirst, [Next]_vars
             PROVE  [Pool!PoolNext]_(Pool!poolVars)
  OBVIOUS
<1> USE DEF TypeInv, TypeOK, HeldOK, Goto, Carrying
\* A step that changes no status stutters; one that changes a single status
\* is the pool's Move.
<1>1. ASSUME \A r \in Req : StatusOf(r)' = StatusOf(r), closed' = closed
      PROVE  UNCHANGED Pool!poolVars
  BY <1>1 DEF Pool!poolVars
<1>2. ASSUME NEW r \in Req, NEW from, NEW to, StatusOf(r) = from, closed' = closed,
             \A q \in Req : StatusOf(q)' = IF q = r THEN to ELSE StatusOf(q)
      PROVE  Pool!Move(r, from, to)
  BY <1>2 DEF Pool!Move
<1>3. ASSUME NEW w \in Worker,
             TakeRunnable(w) \/ FindNothing(w) \/ PutBackDone(w) \/ PutBackWake(w)
             \/ HandBaton(w) \/ TakeToken(w) \/ TimerFires(w) \/ SeeClosed(w)
             \/ SeeCancelled(w)
      PROVE  UNCHANGED Pool!poolVars
  <2>1. UNCHANGED <<arrivals, finished, dropped, closed>>
    BY <1>3 DEF TakeRunnable, FindNothing, PutBackDone, PutBackWake, HandBaton,
                TakeToken, TimerFires, SeeClosed, SeeCancelled
  <2>2. ASSUME NEW r \in Req PROVE HandedOut(r)' <=> HandedOut(r)
    <3>1. CASE TakeRunnable(w)
      BY <3>1 DEF TakeRunnable, HandedOut
    <3>2. CASE ~TakeRunnable(w)
      BY <1>3, <3>2 DEF FindNothing, PutBackDone, PutBackWake, HandBaton,
         TakeToken, TimerFires, SeeClosed, SeeCancelled, HandedOut
    <3> QED
      BY <3>1, <3>2
  <2> QED
    BY <2>1, <2>2, <1>1, StatusUnchanged
<1>4. ASSUME NEW w \in Worker, Claim(w) PROVE [Pool!PoolNext]_(Pool!poolVars)
  <2>1. /\ UNCHANGED <<arrivals, finished, dropped, closed, held>>
        /\ pc[w] = "claim" /\ held[w] \in Req
    BY <1>4 DEF Claim
  <2>2. CASE pc' = [pc EXCEPT ![w] = "putback"]
    <3>1. \A r \in Req : HandedOut(r)' <=> HandedOut(r)
      BY <2>1, <2>2 DEF HandedOut
    <3> QED
      BY <2>1, <3>1, <1>1, StatusUnchanged
  <2>3. CASE pc' = [pc EXCEPT ![w] = IF w \in baton THEN "baton" ELSE "hold"]
    <3>1. HandedOut(held[w])' /\ ~HandedOut(held[w])
      BY <2>1, <2>3 DEF HandedOut, OnePlace
    <3>2. \A q \in Req : q # held[w] => (HandedOut(q)' <=> HandedOut(q))
      BY <2>1, <2>3 DEF HandedOut
    <3>3. held[w] \in Carried
      BY <2>1, CarriedMember
    <3>4. StatusOf(held[w]) = "queued" /\ StatusOf(held[w])' = "held"
      BY <2>1, <3>1, <3>3 DEF StatusOf, HandedOut, OnePlace
    <3>5. \A q \in Req : StatusOf(q)' = IF q = held[w] THEN "held" ELSE StatusOf(q)
      BY <2>1, <3>2, <3>4, StatusUnchanged
    <3>6. Pool!HandOut(held[w])
      BY <2>1, <3>4, <3>5, <1>2 DEF Pool!HandOut
    <3> QED
      BY <2>1, <3>6 DEF Pool!PoolNext
  <2> QED
    BY <1>4, <2>2, <2>3 DEF Claim
<1>5. ASSUME NEW w \in Worker, PutBackPush(w) PROVE [Pool!PoolNext]_(Pool!poolVars)
  <2>0. PICK r \in Req : r = held[w]
    BY <1>5 DEF PutBackPush
  <2>1. /\ UNCHANGED <<arrivals, finished, closed>>
        /\ pc[w] = "repush" /\ r \in Carried
        /\ pc' = [pc EXCEPT ![w] = IF closed THEN "scan" ELSE "wake"]
        /\ held' = [held EXCEPT ![w] = None]
        /\ dropped' = IF closed THEN dropped \cup {r} ELSE dropped
    BY <1>5, <2>0, CarriedMember DEF PutBackPush
  <2>2. \A q \in Req : HandedOut(q)' <=> HandedOut(q)
    BY <2>0, <2>1 DEF HandedOut
  <2>3. CASE ~closed
    BY <2>1, <2>2, <2>3, <1>1, StatusUnchanged
  <2>4. CASE closed
    <3>1. ~HandedOut(r)
      BY <2>0, <2>1 DEF HandedOut, OnePlace
    <3>2. StatusOf(r) = "queued" /\ StatusOf(r)' = "dropped"
      BY <2>1, <2>4, <3>1 DEF StatusOf, HandedOut, OnePlace
    <3>3. \A q \in Req : q # r => StatusOf(q)' = StatusOf(q)
      BY <2>1, <2>2, <2>4 DEF StatusOf, HandedOut
    <3>4. Pool!Move(r, "queued", "dropped")
      BY <2>1, <3>2, <3>3, <1>2
    <3> QED
      BY <2>1, <2>4, <3>4 DEF Pool!PoolNext, Pool!Refuse
  <2> QED
    BY <2>3, <2>4
<1>6. ASSUME NEW w \in Worker, Drain(w) PROVE [Pool!PoolNext]_(Pool!poolVars)
  <2>1. UNCHANGED <<arrivals, finished, dropped, closed>> /\ pc[w] = "drain"
    BY <1>6 DEF Drain
  <2>2. CASE queue = {}
    <3>1. \A r \in Req : HandedOut(r)' <=> HandedOut(r)
      BY <1>6, <2>1, <2>2 DEF Drain, HandedOut
    <3> QED
      BY <2>1, <3>1, <1>1, StatusUnchanged
  <2>3. CASE queue # {}
    <3>1. PICK r \in queue : /\ held' = [held EXCEPT ![w] = r]
                             /\ pc' = [pc EXCEPT ![w] = "hold"]
      BY <1>6, <2>3 DEF Drain, First
    <3>2. r \in Req /\ HandedOut(r)'
      BY <3>1 DEF HandedOut
    <3>3. \A q \in Req : q # r => (HandedOut(q)' <=> HandedOut(q))
      BY <2>1, <3>1 DEF HandedOut
    <3>4. StatusOf(r) = "queued" /\ StatusOf(r)' = "held"
      BY <2>1, <3>2, CarriedMember DEF StatusOf, HandedOut, OnePlace
    <3>5. Pool!HandOut(r)
      BY <2>1, <3>2, <3>3, <3>4, <1>2, StatusUnchanged DEF Pool!HandOut
    <3> QED
      BY <3>2, <3>5 DEF Pool!PoolNext
  <2> QED
    BY <2>2, <2>3
<1>7. ASSUME NEW w \in Worker, Retry(w) PROVE [Pool!PoolNext]_(Pool!poolVars)
  <2>0. PICK r \in Req : r = held[w]
    BY <1>7 DEF Retry
  <2>1. /\ UNCHANGED <<finished, dropped, closed, held>>
        /\ arrivals' = arrivals \cup {r}
        /\ pc[w] = "hold" /\ pc' = [pc EXCEPT ![w] = "retried"]
        /\ HandedOut(r)
    BY <1>7, <2>0 DEF Retry, HandedOut
  <2>2. \A q \in Req : q # r => StatusOf(q)' = StatusOf(q)
    BY <2>0, <2>1 DEF StatusOf
  <2>3. StatusOf(r) = "held"
    BY <2>1, StatusByPlace
  <2>4. StatusOf(r)' = "arriving"
    BY <2>1 DEF StatusOf
  <2>5. Pool!Again(r)
    BY <2>1, <2>2, <2>3, <2>4, <1>2 DEF Pool!Again
  <2> QED
    BY <2>5 DEF Pool!PoolNext
<1>8. ASSUME NEW w \in Worker, Done(w) PROVE [Pool!PoolNext]_(Pool!poolVars)
  <2>0. PICK r \in Req : r = held[w]
    BY <1>8 DEF Done
  <2>1. /\ UNCHANGED <<arrivals, dropped, closed>>
        /\ pc' = [pc EXCEPT ![w] = "scan"]
        /\ held' = [held EXCEPT ![w] = None]
    BY <1>8 DEF Done
  <2>2. CASE pc[w] = "retried"
    <3>1. finished' = finished /\ \A q \in Req : HandedOut(q)' <=> HandedOut(q)
      BY <1>8, <2>0, <2>1, <2>2 DEF Done, HandedOut
    <3> QED
      BY <2>1, <3>1, <1>1, StatusUnchanged
  <2>3. CASE pc[w] = "hold"
    <3>1. finished' = finished \cup {r} /\ HandedOut(r)
      BY <1>8, <2>0, <2>1, <2>3 DEF Done, HandedOut
    <3>2. \A q \in Req : q # r => StatusOf(q)' = StatusOf(q)
      BY <2>0, <2>1, <2>3, <3>1 DEF StatusOf
    <3>3. StatusOf(r) = "held" /\ r \notin arrivals
      BY <3>1, StatusByPlace
    <3>4. StatusOf(r)' = "finished"
      BY <2>1, <3>1, <3>3 DEF StatusOf
    <3>5. Pool!Finish(r)
      BY <2>1, <3>2, <3>3, <3>4, <1>2 DEF Pool!Finish
    <3> QED
      BY <3>5 DEF Pool!PoolNext
  <2> QED
    BY <1>8, <2>2, <2>3 DEF Done
<1>9. ASSUME NEW r \in Req, Push(r) \/ GiveUp(r) PROVE [Pool!PoolNext]_(Pool!poolVars)
  <2>1. /\ r \in arrivals /\ arrivals' = arrivals \ {r}
        /\ UNCHANGED <<pc, held, finished, closed>>
        /\ dropped' = IF closed THEN dropped \cup {r} ELSE dropped
    BY <1>9 DEF Push, GiveUp, CloseFirst
  <2>2. \A q \in Req : HandedOut(q)' <=> HandedOut(q)
    BY <2>1 DEF HandedOut
  <2>3. \A q \in Req : q # r => StatusOf(q)' = StatusOf(q)
    BY <2>1, <2>2 DEF StatusOf, HandedOut
  <2>4. r \notin Carried /\ r \notin finished /\ ~HandedOut(r)
    BY <2>1, CarriedMember DEF OnePlace, HandedOut
  <2>5. /\ StatusOf(r) = "arriving"
        /\ StatusOf(r)' = IF closed THEN "dropped" ELSE "queued"
    BY <2>1, <2>2, <2>4 DEF StatusOf, HandedOut, OnePlace
  <2>6. CASE closed
    <3>1. Pool!Move(r, "arriving", "dropped")
      BY <2>1, <2>3, <2>5, <2>6, <1>2
    <3> QED
      BY <2>6, <3>1 DEF Pool!PoolNext, Pool!Refuse
  <2>7. CASE ~closed
    <3>1. Pool!Move(r, "arriving", "queued")
      BY <2>1, <2>3, <2>5, <2>7, <1>2
    <3> QED
      BY <2>7, <3>1 DEF Pool!PoolNext, Pool!Accept
  <2> QED
    BY <2>6, <2>7
<1>10. ASSUME NEW r \in Req, Wake(r) PROVE UNCHANGED Pool!poolVars
  BY <1>10, <1>1, StatusUnchanged DEF Wake, HandedOut
<1>11. ASSUME (\E d \in Domain : Refill(d)) \/ Cancel \/ UNCHANGED vars
       PROVE UNCHANGED Pool!poolVars
  BY <1>11, <1>1, StatusUnchanged DEF Refill, Cancel, vars, HandedOut
<1>12. ASSUME Close PROVE Pool!Shut
  <2>1. \A r \in Req : StatusOf(r)' = StatusOf(r)
    BY <1>12, StatusUnchanged DEF Close, HandedOut
  <2> QED
    BY <1>12, <2>1 DEF Close, Pool!Shut
<1> QED
  BY <1>3, <1>4, <1>5, <1>6, <1>7, <1>8, <1>9, <1>10, <1>11, <1>12
  DEF Next, PopReady, AllLeft, Pool!PoolNext

(* Every behaviour of the frontier is a behaviour of the pool. *)
THEOREM FrontierImplementsPool == Spec => ImplementsPool
<1>1. Init => Pool!PoolInit
  BY DEF Init, Pool!PoolInit, StatusOf
<1> QED
  BY <1>1, PoolStep, TypeInvariant, OnePlaceInit, OnePlaceStep, Conservation,
     CloseFirstInvariant, PTL DEF Spec, ImplementsPool, Pool!PoolSpec

=============================================================================
