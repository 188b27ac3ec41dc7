------------------------------ MODULE Frontier ------------------------------
(***************************************************************************)
(* internal/engine/frontier.go: the priority queue of crawl requests that  *)
(* the worker goroutines of scheduler.go share, with its event-driven      *)
(* waiting, its in-flight set and its per-domain gate.                     *)
(*                                                                         *)
(* A worker's pc follows PopReady and the loop around it:                  *)
(*   scan    about to take f.mu and look for a runnable request            *)
(*   claim   took `held` out of the queue; gate.Claim is still to come     *)
(*   putback the claim failed; f.Done(held) comes next                     *)
(*   repush  f.Done returned; f.Push(held) comes next                      *)
(*   wake    that Push inserted `held`; its wake comes next                *)
(*   baton   claimed, with requests left in the queue: a wake comes next   *)
(*   hold    PopReady returned `held`; the worker is processing it         *)
(*   retried processing ended by scheduling a retry; f.Done comes next     *)
(*   drain   found nothing runnable on a closed frontier; TryPop is next   *)
(*   parked  in the select at the end of the loop                          *)
(*   left    PopReady returned nil and the worker returned                 *)
(***************************************************************************)
EXTENDS Naturals

CONSTANTS
    Worker,      \* the worker goroutines
    Req,         \* the requests, one per *types.Request pointer
    Domain,      \* registrable domains
    Host,        \* the domain of each request
    Priority,    \* the priority each request is first pushed with
    Throttled,   \* the domains a politeness delay applies to
    LowPriority, \* types.PriorityLow, what a retry is pushed with
    MaxRetries,  \* req.MaxRetries of each request
    None         \* no request

ASSUME FrontierAssumption ==
    /\ Host \in [Req -> Domain]
    /\ Priority \in [Req -> Nat]
    /\ Throttled \subseteq Domain
    /\ LowPriority \in Nat
    /\ MaxRetries \in [Req -> Nat]
    /\ None \notin Req

VARIABLES
    queue,       \* the requests in the heap pq
    inFlight,    \* the inFlight set
    closed,      \* closed, and with it closedCh
    cancelled,   \* the crawl's context
    token,       \* whether notify holds a wakeup
    unsignalled, \* requests a Push inserted and has not called wake for
    ready,       \* domains whose limiter holds its one token
    pc, held,    \* where each worker is and the request it is dealing with
    baton,       \* workers whose scan left requests in the queue
    timed,       \* parked workers whose select includes a timer
    retries,     \* req.RetryCount
    arrivals,    \* requests whose Push is still to be called
    finished,    \* requests processed for good
    dropped      \* requests a closed frontier or a cancelled retry let go

vars == <<queue, inFlight, closed, cancelled, token, unsignalled, ready, pc,
          held, baton, timed, retries, arrivals, finished, dropped>>

PC == {"scan", "claim", "putback", "repush", "wake", "baton", "hold",
       "retried", "drain", "parked", "left"}

TypeOK ==
    /\ queue \subseteq Req
    /\ inFlight \subseteq Req
    /\ closed \in BOOLEAN
    /\ cancelled \in BOOLEAN
    /\ token \in BOOLEAN
    /\ unsignalled \subseteq Req
    /\ ready \subseteq Domain
    /\ pc \in [Worker -> PC]
    /\ held \in [Worker -> Req \cup {None}]
    /\ baton \subseteq Worker
    /\ timed \subseteq Worker
    /\ retries \in [Req -> Nat]
    /\ \A r \in Req : retries[r] <= MaxRetries[r]
    /\ arrivals \subseteq Req
    /\ finished \subseteq Req
    /\ dropped \subseteq Req

Init ==
    /\ queue = {} /\ inFlight = {}
    /\ closed = FALSE /\ cancelled = FALSE
    /\ token = FALSE /\ unsignalled = {}
    /\ ready = Domain
    /\ pc = [w \in Worker |-> "scan"]
    /\ held = [w \in Worker |-> None]
    /\ baton = {} /\ timed = {}
    /\ retries = [r \in Req |-> 0]
    /\ arrivals = Req
    /\ finished = {} /\ dropped = {}

-----------------------------------------------------------------------------
(* The heap. *)

Prio(r) == IF retries[r] > 0 THEN LowPriority ELSE Priority[r]

\* heap.Pop and the scan of PopReady: the members no other member precedes.
\* Which of several equals comes first depends on the heap's layout.
First(S) == {r \in S : \A q \in S : Prio(r) <= Prio(q)}

Runnable == {r \in queue : Host[r] \in ready}

Goto(w, l) == pc' = [pc EXCEPT ![w] = l]

-----------------------------------------------------------------------------
(* Push, called by AddRequest and by the retry goroutines of requeueAfter. *)

Push(r) ==
    /\ r \in arrivals
    /\ arrivals' = arrivals \ {r}
    /\ IF closed
       THEN dropped' = dropped \cup {r} /\ UNCHANGED <<queue, unsignalled>>
       ELSE /\ queue' = queue \cup {r}
            /\ unsignalled' = unsignalled \cup {r}
            /\ UNCHANGED dropped
    /\ UNCHANGED <<inFlight, closed, cancelled, token, ready, pc, held, baton,
                   timed, retries, finished>>

\* The pusher's wake, after it has released the lock.
Wake(r) ==
    /\ r \in unsignalled
    /\ unsignalled' = unsignalled \ {r}
    /\ token' = TRUE
    /\ UNCHANGED <<queue, inFlight, closed, cancelled, ready, pc, held, baton,
                   timed, retries, arrivals, finished, dropped>>

\* requeueAfter's goroutine gives a retry up when the crawl is cancelled.
GiveUp(r) ==
    /\ cancelled
    /\ r \in arrivals
    /\ retries[r] > 0
    /\ arrivals' = arrivals \ {r}
    /\ dropped' = dropped \cup {r}
    /\ UNCHANGED <<queue, inFlight, closed, cancelled, token, unsignalled,
                   ready, pc, held, baton, timed, retries, finished>>

-----------------------------------------------------------------------------
(* PopReady. *)

\* Under f.mu: the best runnable request leaves the queue and is in flight.
TakeRunnable(w) ==
    /\ pc[w] = "scan"
    /\ \E r \in First(Runnable) :
        /\ queue' = queue \ {r}
        /\ inFlight' = inFlight \cup {r}
        /\ held' = [held EXCEPT ![w] = r]
        /\ baton' = IF queue = {r} THEN baton \ {w} ELSE baton \cup {w}
    /\ Goto(w, "claim")
    /\ UNCHANGED <<closed, cancelled, token, unsignalled, ready, timed,
                   retries, arrivals, finished, dropped>>

\* Mutant: parks without a timer for the soonest throttled domain.
FindNothingNoTimer(w) ==
    /\ pc[w] = "scan"
    /\ Runnable = {}
    /\ Goto(w, IF closed THEN "drain" ELSE "parked")
    /\ timed' = timed \ {w}
    /\ UNCHANGED <<queue, inFlight, closed, cancelled, token, unsignalled,
                   ready, held, baton, retries, arrivals, finished, dropped>>

\* Under f.mu: nothing is runnable. A timer is armed for the soonest domain
\* only if something is queued.
FindNothing(w) ==
    /\ pc[w] = "scan"
    /\ Runnable = {}
    /\ Goto(w, IF closed THEN "drain" ELSE "parked")
    /\ timed' = IF queue # {} /\ ~closed THEN timed \cup {w} ELSE timed \ {w}
    /\ UNCHANGED <<queue, inFlight, closed, cancelled, token, unsignalled,
                   ready, held, baton, retries, arrivals, finished, dropped>>

\* Throttler.Claim, outside f.mu: it succeeds if the domain's token is still
\* there, and spends it.
Claim(w) ==
    /\ pc[w] = "claim"
    /\ IF Host[held[w]] \in ready
       THEN /\ ready' = ready \ ({Host[held[w]]} \cap Throttled)
            /\ Goto(w, IF w \in baton THEN "baton" ELSE "hold")
       ELSE /\ Goto(w, "putback")
            /\ UNCHANGED ready
    /\ UNCHANGED <<queue, inFlight, closed, cancelled, token, unsignalled,
                   held, baton, timed, retries, arrivals, finished, dropped>>

PutBackDone(w) ==
    /\ pc[w] = "putback"
    /\ inFlight' = inFlight \ {held[w]}
    /\ baton' = baton \ {w}
    /\ Goto(w, "repush")
    /\ UNCHANGED <<queue, closed, cancelled, token, unsignalled, ready, held,
                   timed, retries, arrivals, finished, dropped>>

PutBackPush(w) ==
    /\ pc[w] = "repush"
    /\ IF closed
       THEN /\ dropped' = dropped \cup {held[w]}
            /\ Goto(w, "scan")
            /\ UNCHANGED queue
       ELSE /\ queue' = queue \cup {held[w]}
            /\ Goto(w, "wake")
            /\ UNCHANGED dropped
    /\ held' = [held EXCEPT ![w] = None]
    /\ UNCHANGED <<inFlight, closed, cancelled, token, unsignalled, ready,
                   baton, timed, retries, arrivals, finished>>

PutBackWake(w) ==
    /\ pc[w] = "wake"
    /\ token' = TRUE
    /\ Goto(w, "scan")
    /\ UNCHANGED <<queue, inFlight, closed, cancelled, unsignalled, ready,
                   held, baton, timed, retries, arrivals, finished, dropped>>

\* Mutant: takes a request and leaves the other waiters asleep.
KeepBaton(w) ==
    /\ pc[w] = "baton"
    /\ baton' = baton \ {w}
    /\ Goto(w, "hold")
    /\ UNCHANGED <<queue, inFlight, closed, cancelled, token, unsignalled, ready,
                   held, timed, retries, arrivals, finished, dropped>>

HandBaton(w) ==
    /\ pc[w] = "baton"
    /\ token' = TRUE
    /\ baton' = baton \ {w}
    /\ Goto(w, "hold")
    /\ UNCHANGED <<queue, inFlight, closed, cancelled, unsignalled, ready,
                   held, timed, retries, arrivals, finished, dropped>>

\* The arms of the select: notify, the timer, closedCh, ctx.Done.
TakeToken(w) ==
    /\ pc[w] = "parked"
    /\ token
    /\ token' = FALSE
    /\ Goto(w, "scan")
    /\ timed' = timed \ {w}
    /\ UNCHANGED <<queue, inFlight, closed, cancelled, unsignalled, ready,
                   held, baton, retries, arrivals, finished, dropped>>

TimerFires(w) ==
    /\ pc[w] = "parked"
    /\ w \in timed
    /\ Goto(w, "scan")
    /\ timed' = timed \ {w}
    /\ UNCHANGED <<queue, inFlight, closed, cancelled, token, unsignalled,
                   ready, held, baton, retries, arrivals, finished, dropped>>

SeeClosed(w) ==
    /\ pc[w] = "parked"
    /\ closed
    /\ Goto(w, "scan")
    /\ timed' = timed \ {w}
    /\ UNCHANGED <<queue, inFlight, closed, cancelled, token, unsignalled,
                   ready, held, baton, retries, arrivals, finished, dropped>>

SeeCancelled(w) ==
    /\ pc[w] = "parked"
    /\ cancelled
    /\ Goto(w, "left")
    /\ timed' = timed \ {w}
    /\ UNCHANGED <<queue, inFlight, closed, cancelled, token, unsignalled,
                   ready, held, baton, retries, arrivals, finished, dropped>>

\* TryPop on a closed frontier: whatever is first, polite or not.
Drain(w) ==
    /\ pc[w] = "drain"
    /\ IF queue = {}
       THEN Goto(w, "left") /\ UNCHANGED <<queue, inFlight, held>>
       ELSE \E r \in First(queue) :
               /\ queue' = queue \ {r}
               /\ inFlight' = inFlight \cup {r}
               /\ held' = [held EXCEPT ![w] = r]
               /\ Goto(w, "hold")
    /\ UNCHANGED <<closed, cancelled, token, unsignalled, ready, baton, timed,
                   retries, arrivals, finished, dropped>>

-----------------------------------------------------------------------------
(* The worker around it. *)

\* handleFetchError hands the request to a retry, which may push it before or
\* after this worker calls Done: the backoff can be zero.
Retry(w) ==
    /\ pc[w] = "hold"
    /\ retries[held[w]] < MaxRetries[held[w]]
    /\ retries' = [retries EXCEPT ![held[w]] = @ + 1]
    /\ arrivals' = arrivals \cup {held[w]}
    /\ Goto(w, "retried")
    /\ UNCHANGED <<queue, inFlight, closed, cancelled, token, unsignalled,
                   ready, held, baton, timed, finished, dropped>>

\* Mutant: a request sent to retry is also counted as processed for good.
DoneTwice(w) ==
    /\ pc[w] \in {"hold", "retried"}
    /\ inFlight' = inFlight \ {held[w]}
    /\ finished' = finished \cup {held[w]}
    /\ held' = [held EXCEPT ![w] = None]
    /\ Goto(w, "scan")
    /\ UNCHANGED <<queue, closed, cancelled, token, unsignalled, ready, baton,
                   timed, retries, arrivals, dropped>>

\* frontier.Done, after processRequest has returned.
Done(w) ==
    /\ pc[w] \in {"hold", "retried"}
    /\ inFlight' = inFlight \ {held[w]}
    /\ finished' = IF pc[w] = "hold" THEN finished \cup {held[w]} ELSE finished
    /\ held' = [held EXCEPT ![w] = None]
    /\ Goto(w, "scan")
    /\ UNCHANGED <<queue, closed, cancelled, token, unsignalled, ready, baton,
                   timed, retries, arrivals, dropped>>

Close ==
    /\ ~closed
    /\ closed' = TRUE
    /\ UNCHANGED <<queue, inFlight, cancelled, token, unsignalled, ready, pc,
                   held, baton, timed, retries, arrivals, finished, dropped>>

\* Engine.Stop closes the frontier before it cancels the context.
Cancel ==
    /\ closed /\ ~cancelled
    /\ cancelled' = TRUE
    /\ UNCHANGED <<queue, inFlight, closed, token, unsignalled, ready, pc,
                   held, baton, timed, retries, arrivals, finished, dropped>>

\* Time passes: the domain's limiter regains its token.
Refill(d) ==
    /\ d \notin ready
    /\ ready' = ready \cup {d}
    /\ UNCHANGED <<queue, inFlight, closed, cancelled, token, unsignalled, pc,
                   held, baton, timed, retries, arrivals, finished, dropped>>

PopReady(w) ==
    \/ TakeRunnable(w) \/ FindNothing(w) \/ Claim(w)
    \/ PutBackDone(w) \/ PutBackPush(w) \/ PutBackWake(w) \/ HandBaton(w)
    \/ TakeToken(w) \/ TimerFires(w) \/ SeeClosed(w) \/ SeeCancelled(w)
    \/ Drain(w)

AllLeft ==
    /\ \A w \in Worker : pc[w] = "left"
    /\ UNCHANGED vars

Next ==
    \/ \E w \in Worker : PopReady(w) \/ Retry(w) \/ Done(w)
    \/ \E r \in Req : Push(r) \/ Wake(r) \/ GiveUp(r)
    \/ \E d \in Domain : Refill(d)
    \/ Close \/ Cancel
    \/ AllLeft

Spec == Init /\ [][Next]_vars

\* Every goroutine the scheduler runs makes progress: a worker in PopReady, a
\* fetch (bounded by its timeout) up to Done, a Push up to its wake; limiters
\* refill with time. Nothing obliges anyone to push, close or cancel.
Fairness ==
    /\ \A w \in Worker : WF_vars(PopReady(w)) /\ WF_vars(Done(w))
    /\ \A r \in Req : WF_vars(Wake(r))
    /\ \A d \in Domain : WF_vars(Refill(d))

FairSpec == Spec /\ Fairness

-----------------------------------------------------------------------------
(* Properties. *)

Carrying == {"claim", "putback", "repush", "baton", "hold"}

Carried == {held[w] : w \in {v \in Worker : pc[v] \in Carrying}}

(* A request that has been pushed is in exactly one place: queued, in one  *)
(* worker's hands, scheduled to be pushed again, finished, or dropped.     *)
(* Putting back after a failed claim (frontier.go:184-193), retrying while *)
(* still in flight (scheduler.go:712-716) and draining at close all move   *)
(* it between places in several steps; a slip in any of them either loses  *)
(* the page or crawls it twice.                                            *)
OnePlace ==
    /\ \A v, w \in Worker :
          pc[v] \in Carrying /\ pc[w] \in Carrying /\ held[v] = held[w] => v = w
    /\ Req = arrivals \cup queue \cup Carried \cup finished \cup dropped
    /\ arrivals \cap (queue \cup Carried \cup finished \cup dropped) = {}
    /\ queue \cap (Carried \cup finished \cup dropped) = {}
    /\ Carried \cap (finished \cup dropped) = {}
    /\ finished \cap dropped = {}

(* Only closing the frontier can drop a request (frontier.go:76-79).        *)
DropOnlyWhenClosed == dropped # {} => closed

\* A worker that will look at the queue again, or wake one that will, without
\* waiting for anyone.
Alert(w) ==
    \/ pc[w] \in {"scan", "putback", "repush", "wake", "baton"}
    \/ pc[w] = "claim" /\ w \in baton
    \/ pc[w] = "parked" /\ w \in timed

(* No lost wakeup: with one wakeup slot and a push that never blocks        *)
(* (frontier.go:28-31, 66-71, 194-196), a worker never sleeps beside a      *)
(* queued request unless a wakeup is pending, a pusher is about to send     *)
(* one, or some worker is on its way back to the queue.                     *)
NoLostWakeup ==
    (\E w \in Worker : pc[w] = "parked") /\ queue # {} /\ ~closed
        => token \/ unsignalled # {} \/ \E w \in Worker : Alert(w)

(* Close reaches every waiter (frontier.go:33-35, 303-314): once closed,    *)
(* every worker gets nil from PopReady and returns, whatever it was doing.  *)
CloseReleasesAll == closed ~> \A w \in Worker : pc[w] = "left"

\* The frontier seen as the pool it promises to be.
StatusOf(r) ==
    IF r \in arrivals THEN "arriving"
    ELSE IF r \in finished THEN "finished"
    ELSE IF r \in dropped THEN "dropped"
    ELSE IF \E w \in Worker : pc[w] \in {"baton", "hold"} /\ held[w] = r THEN "held"
    ELSE "queued"

(* No queued request is left behind, whatever its priority and however      *)
(* throttled its domain (frontier.go:143-147): unless the frontier closes,  *)
(* some worker is handed it, a failed claim or two later.                   *)
QueuedIsHandedOut ==
    \A r \in Req : StatusOf(r) = "queued" ~> StatusOf(r) # "queued" \/ closed

(* Neither a worker nor a request waits for good.                           *)
NobodyWaitsForGood == CloseReleasesAll /\ QueuedIsHandedOut

Pool == INSTANCE WorkPool WITH status <- [r \in Req |-> StatusOf(r)], open <- ~closed

(* The frontier implements the pool: the failed-claim round trip is not     *)
(* visible outside, no request is handed to two workers, none is dropped    *)
(* while the frontier is open.                                              *)
ImplementsPool == Pool!PoolSpec
=============================================================================
