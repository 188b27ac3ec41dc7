-------------------------------- MODULE Crawl --------------------------------
(***************************************************************************)
(* One crawl of internal/engine: the worker goroutines of scheduler.go     *)
(* with their retries and their idle monitor, the request admission and    *)
(* the stopping of engine.go, over the frontier's queue and in-flight set. *)
(*                                                                         *)
(* The frontier's locking and waiting are Frontier's subject; here taking  *)
(* a request is one step, as WorkPool promises, except for the moment a    *)
(* failed claim leaves the request in neither set. The deduper claims a    *)
(* URL once, so a request is identified by its URL.                        *)
(*                                                                         *)
(* A worker's pc:                                                          *)
(*   pop      in PopReady                                                  *)
(*   putback  between Done and Push of a request whose claim failed        *)
(*   send     holds a request, the circuit breaker not yet asked           *)
(*   fetch    inside fetcher.Fetch                                         *)
(*   page     has the response; items are emitted next                     *)
(*   links    adding the page's links, one AddRequest after the other      *)
(*   done     processRequest has returned; frontier.Done is next           *)
(*   check    released the request; the MaxRequests test is next           *)
(*   stopping called Engine.Stop itself                                    *)
(*   left     returned                                                     *)
(***************************************************************************)
EXTENDS Naturals, FiniteSets

CONSTANTS
    Url,
    Seeds,        \* added before Start
    Links,        \* the links on each page
    Outcomes,     \* what fetching each URL may come to
    Worker,
    MaxRetries,   \* req.MaxRetries of each request
    MaxDepth,
    MaxRequests,  \* cfg.Engine.MaxRequests; 0 is no limit
    ZeroBackoff,  \* whether a retry may be pushed before its worker's Done
    IdleStreak,   \* the idle ticks in a row that end a crawl: 3 in the code
    MaxPutBacks,  \* bound: how many claims fail in all
    None

Outcome == {"page", "unchanged", "retryable", "permanent", "circuitOpen"}

ASSUME CrawlAssumption ==
    /\ Seeds \subseteq Url
    /\ Links \in [Url -> SUBSET Url]
    /\ Outcomes \in [Url -> SUBSET Outcome]
    /\ MaxRetries \in [Url -> Nat]
    /\ MaxDepth \in Nat /\ MaxRequests \in Nat /\ MaxPutBacks \in Nat
    /\ ZeroBackoff \in BOOLEAN
    /\ IdleStreak \in Nat \ {0}
    /\ None \notin Url

VARIABLES
    seen,        \* the deduper's claimed URLs
    depth,       \* req.Depth
    queue, inFlight,
    closedBy,    \* who closed the frontier: nobody, the idle monitor, or Stop
    cancelled,   \* the engine's context
    state,       \* the engine's state, from Start on
    pc, cur,     \* where each worker is and the request it holds
    todo, link,  \* links still to add, and the one marked but not pushed
    retries,     \* req.RetryCount
    waiting,     \* retries waiting out a backoff off-queue
    pushed,      \* retry goroutines past their Push, not yet uncounted
    sent,        \* stats.RequestsSent, counted if there is a limit on it
    monitor, quiet, streak,  \* the idle monitor: step, first read, idle ticks
    blink,       \* history: a request may slip past the tick under way
    blind,       \* history: ticks of this streak one may have slipped past
    putBacks,    \* claims that have failed
    result       \* history: what became of each URL

work == <<seen, depth, queue, inFlight>>
stop == <<closedBy, cancelled, state>>
hands == <<cur, todo, link>>
retrying == <<retries, waiting, pushed>>
watch == <<monitor, quiet, streak, blink, blind>>
vars == <<work, stop, pc, hands, retrying, sent, watch, putBacks, result>>

closed == closedBy # "nobody"
\* Mutant: a retry waiting out its backoff is not counted.
uncountedRetries == Cardinality(pushed)

pendingRetries == Cardinality(waiting) + Cardinality(pushed)

PC == {"pop", "putback", "send", "fetch", "page", "links", "done", "check",
       "stopping", "left"}
Settled == {"page", "unchanged", "failed", "skipped"}

TypeOK ==
    /\ seen \subseteq Url
    /\ depth \in [Url -> 0 .. MaxDepth]
    /\ queue \subseteq Url /\ inFlight \subseteq Url
    /\ closedBy \in {"nobody", "idle", "stop"}
    /\ cancelled \in BOOLEAN
    /\ state \in {"running", "stopping", "stopped"}
    /\ pc \in [Worker -> PC]
    /\ cur \in [Worker -> Url \cup {None}]
    /\ todo \in [Worker -> SUBSET Url]
    /\ link \in [Worker -> Url \cup {None}]
    /\ \A u \in Url : retries[u] \in 0 .. MaxRetries[u]
    /\ waiting \subseteq Url
    /\ \A p \in pushed : p[1] \in Url /\ p[2] \in 1 .. MaxRetries[p[1]]
    /\ sent \in Nat
    /\ monitor \in {"tick", "second", "gone"}
    /\ quiet \in BOOLEAN
    /\ streak \in 0 .. IdleStreak
    /\ blink \in BOOLEAN /\ blind \in Nat
    /\ putBacks \in 0 .. MaxPutBacks
    /\ result \in [Url -> Settled \cup {"none", "cut", "dropped"}]

\* Start, after AddSeed of every seed.
Init ==
    /\ seen = Seeds /\ depth = [u \in Url |-> 0]
    /\ queue = Seeds /\ inFlight = {}
    /\ closedBy = "nobody" /\ cancelled = FALSE /\ state = "running"
    /\ pc = [w \in Worker |-> "pop"]
    /\ cur = [w \in Worker |-> None]
    /\ todo = [w \in Worker |-> {}] /\ link = [w \in Worker |-> None]
    /\ retries = [u \in Url |-> 0] /\ waiting = {} /\ pushed = {}
    /\ sent = 0
    /\ monitor = "tick" /\ quiet = FALSE /\ streak = 0
    /\ blink = FALSE /\ blind = 0 /\ putBacks = 0
    /\ result = [u \in Url |-> "none"]

Goto(w, l) == pc' = [pc EXCEPT ![w] = l]
Settle(u, r) == result' = [result EXCEPT ![u] = r]

\* frontier.Push: a closed frontier lets the request go without a word.
Push(u) ==
    IF closed
    THEN Settle(u, "dropped") /\ UNCHANGED queue
    ELSE queue' = queue \cup {u} /\ UNCHANGED result

-----------------------------------------------------------------------------
(* Taking a request. *)

\* PopReady, or TryPop on a closed frontier.
Take(w) ==
    /\ pc[w] = "pop"
    /\ \E u \in queue :
        /\ queue' = queue \ {u}
        /\ inFlight' = inFlight \cup {u}
        /\ cur' = [cur EXCEPT ![w] = u]
    /\ Goto(w, "send")
    /\ UNCHANGED <<seen, depth, stop, todo, link, retrying, sent, watch,
                   putBacks, result>>

\* PopReady's failed claim, up to its Done: the request is in neither set.
LoseClaim(w) ==
    /\ pc[w] = "pop"
    /\ putBacks < MaxPutBacks
    /\ \E u \in queue :
        /\ queue' = queue \ {u}
        /\ cur' = [cur EXCEPT ![w] = u]
    /\ putBacks' = putBacks + 1
    /\ Goto(w, "putback")
    /\ UNCHANGED <<seen, depth, inFlight, stop, todo, link, retrying, sent,
                   watch, result>>

PutBack(w) ==
    /\ pc[w] = "putback"
    /\ Push(cur[w])
    /\ cur' = [cur EXCEPT ![w] = None]
    /\ Goto(w, "pop")
    /\ UNCHANGED <<seen, depth, inFlight, stop, todo, link, retrying, sent,
                   watch, putBacks>>

\* PopReady returns nil. A waiter that parked on throttled work leaves through
\* the context's arm of the select with that work still queued.
Leave(w) ==
    /\ pc[w] = "pop"
    /\ (closed /\ queue = {}) \/ cancelled
    /\ Goto(w, "left")
    /\ UNCHANGED <<work, stop, hands, retrying, sent, watch, putBacks, result>>

-----------------------------------------------------------------------------
(* processRequest. *)

\* Mutant: an early return that leaves the request in flight.
SkipWithoutDone(w) ==
    /\ pc[w] = "send"
    /\ "circuitOpen" \in Outcomes[cur[w]]
    /\ Settle(cur[w], "skipped")
    /\ cur' = [cur EXCEPT ![w] = None]
    /\ Goto(w, "check")
    /\ UNCHANGED <<work, stop, todo, link, retrying, sent, watch, putBacks>>

\* The breaker skips the request. What the domain's earlier failures add up
\* to is CircuitBreaker's subject.
Skip(w) ==
    /\ pc[w] = "send"
    /\ "circuitOpen" \in Outcomes[cur[w]]
    /\ Settle(cur[w], "skipped")
    /\ Goto(w, "done")
    /\ UNCHANGED <<work, stop, hands, retrying, sent, watch, putBacks>>

\* A fetch begun under a cancelled context fails at once, for good.
Send(w) ==
    /\ pc[w] = "send"
    /\ sent' = IF MaxRequests > 0 THEN sent + 1 ELSE sent
    /\ IF cancelled
       THEN Settle(cur[w], "cut") /\ Goto(w, "done")
       ELSE Goto(w, "fetch") /\ UNCHANGED result
    /\ UNCHANGED <<work, stop, hands, retrying, watch, putBacks>>

Respond(w) ==
    /\ pc[w] = "fetch"
    /\ "page" \in Outcomes[cur[w]]
    /\ Goto(w, "page")
    /\ UNCHANGED <<work, stop, hands, retrying, sent, watch, putBacks, result>>

\* 304 Not Modified returns before callbacks and links.
NotModified(w) ==
    /\ pc[w] = "fetch"
    /\ "unchanged" \in Outcomes[cur[w]]
    /\ Settle(cur[w], "unchanged")
    /\ Goto(w, "done")
    /\ UNCHANGED <<work, stop, hands, retrying, sent, watch, putBacks>>

\* A permanent error, retries used up, or the context cancelled under the
\* fetch, which is not retryable either.
Fail(w) ==
    /\ pc[w] = "fetch"
    /\ \/ "permanent" \in Outcomes[cur[w]] /\ Settle(cur[w], "failed")
       \/ /\ "retryable" \in Outcomes[cur[w]]
          /\ retries[cur[w]] >= MaxRetries[cur[w]]
          /\ Settle(cur[w], "failed")
       \/ cancelled /\ Settle(cur[w], "cut")
    /\ Goto(w, "done")
    /\ UNCHANGED <<work, stop, hands, retrying, sent, watch, putBacks>>

\* handleFetchError: with no backoff the request is pushed here and now, while
\* this worker still has it in flight.
Retry(w) ==
    /\ pc[w] = "fetch"
    /\ "retryable" \in Outcomes[cur[w]]
    /\ retries[cur[w]] < MaxRetries[cur[w]]
    /\ retries' = [retries EXCEPT ![cur[w]] = @ + 1]
    /\ IF ZeroBackoff
       THEN Push(cur[w]) /\ UNCHANGED waiting
       ELSE waiting' = waiting \cup {cur[w]} /\ UNCHANGED <<queue, result>>
    /\ Goto(w, "done")
    /\ UNCHANGED <<seen, depth, inFlight, stop, hands, pushed, sent, watch,
                   putBacks>>

\* Mutant: the page stops counting before its links are queued.
EmitAndRelease(w) ==
    /\ pc[w] = "page"
    /\ Settle(cur[w], "page")
    /\ inFlight' = inFlight \ {cur[w]}
    /\ todo' = [todo EXCEPT ![w] = Links[cur[w]]]
    /\ Goto(w, "links")
    /\ UNCHANGED <<seen, depth, queue, stop, cur, link, retrying, sent, watch,
                   putBacks>>

\* Callbacks, provenance and items. emitItem gives up once the context is
\* cancelled, and the page's links with it.
Emit(w) ==
    /\ pc[w] = "page"
    /\ \/ /\ Settle(cur[w], "page")
          /\ todo' = [todo EXCEPT ![w] = Links[cur[w]]]
          /\ Goto(w, "links")
       \/ /\ cancelled
          /\ Settle(cur[w], "cut")
          /\ Goto(w, "done")
          /\ UNCHANGED todo
    /\ UNCHANGED <<work, stop, cur, link, retrying, sent, watch, putBacks>>

\* Mutant: enqueues whatever it finds, seen or not.
MarkLinkUnchecked(w) ==
    /\ pc[w] = "links" /\ link[w] = None
    /\ \E u \in todo[w] :
        /\ todo' = [todo EXCEPT ![w] = @ \ {u}]
        /\ IF depth[cur[w]] + 1 > MaxDepth
           THEN UNCHANGED <<seen, depth, link>>
           ELSE /\ seen' = seen \cup {u}
                /\ depth' = [depth EXCEPT ![u] = depth[cur[w]] + 1]
                /\ link' = [link EXCEPT ![w] = u]
    /\ UNCHANGED <<queue, inFlight, stop, pc, cur, retrying, sent, watch,
                   putBacks, result>>

\* AddRequest up to MarkIfUnseen.
MarkLink(w) ==
    /\ pc[w] = "links" /\ link[w] = None
    /\ \E u \in todo[w] :
        /\ todo' = [todo EXCEPT ![w] = @ \ {u}]
        /\ IF depth[cur[w]] + 1 > MaxDepth \/ u \in seen
           THEN UNCHANGED <<seen, depth, link>>
           ELSE /\ seen' = seen \cup {u}
                /\ depth' = [depth EXCEPT ![u] = depth[cur[w]] + 1]
                /\ link' = [link EXCEPT ![w] = u]
    /\ UNCHANGED <<queue, inFlight, stop, pc, cur, retrying, sent, watch,
                   putBacks, result>>

\* AddRequest's Push.
PushLink(w) ==
    /\ link[w] # None
    /\ Push(link[w])
    /\ link' = [link EXCEPT ![w] = None]
    /\ UNCHANGED <<seen, depth, inFlight, stop, pc, cur, todo, retrying, sent,
                   watch, putBacks>>

LinksAdded(w) ==
    /\ pc[w] = "links" /\ link[w] = None /\ todo[w] = {}
    /\ Goto(w, "done")
    /\ UNCHANGED <<work, stop, hands, retrying, sent, watch, putBacks, result>>

Done(w) ==
    /\ pc[w] = "done"
    /\ inFlight' = inFlight \ {cur[w]}
    /\ cur' = [cur EXCEPT ![w] = None]
    /\ Goto(w, "check")
    /\ UNCHANGED <<seen, depth, queue, stop, todo, link, retrying, sent, watch,
                   putBacks, result>>

-----------------------------------------------------------------------------
(* Stopping. *)

\* Engine.Stop up to frontier.Close, for the caller whose CompareAndSwap wins.
BeginStop ==
    /\ state' = "stopping"
    /\ closedBy' = IF closed THEN closedBy ELSE "stop"
    /\ UNCHANGED cancelled

\* The worker's MaxRequests test: it returns whether or not it is the one
\* that stops the engine.
CheckLimit(w) ==
    /\ pc[w] = "check"
    /\ IF MaxRequests > 0 /\ sent >= MaxRequests
       THEN IF state = "running"
            THEN BeginStop /\ Goto(w, "stopping")
            ELSE Goto(w, "left") /\ UNCHANGED stop
       ELSE Goto(w, "pop") /\ UNCHANGED stop
    /\ UNCHANGED <<work, hands, retrying, sent, watch, putBacks, result>>

Stopped(w) ==
    /\ pc[w] = "stopping" /\ cancelled
    /\ Goto(w, "left")
    /\ UNCHANGED <<work, stop, hands, retrying, sent, watch, putBacks, result>>

\* A signal, an API call or the SDK's caller stops the crawl.
Stop ==
    /\ state = "running"
    /\ BeginStop
    /\ UNCHANGED <<work, pc, hands, retrying, sent, watch, putBacks, result>>

\* The end of Engine.Stop.
Cancel ==
    /\ state = "stopping" /\ ~cancelled
    /\ cancelled' = TRUE
    /\ UNCHANGED <<work, closedBy, state, pc, hands, retrying, sent, watch,
                   putBacks, result>>

\* Engine.Wait, once every worker and retry goroutine has returned: it cancels
\* the context itself if nobody else has.
JoinWorkers ==
    /\ ~cancelled
    /\ \A w \in Worker : pc[w] = "left"
    /\ waiting = {} /\ pushed = {}
    /\ cancelled' = TRUE
    /\ UNCHANGED <<work, closedBy, state, pc, hands, retrying, sent, watch,
                   putBacks, result>>

\* And then, with the item and checkpoint goroutines joined too, it ends.
Wait ==
    /\ state # "stopped" /\ cancelled
    /\ \A w \in Worker : pc[w] = "left"
    /\ waiting = {} /\ pushed = {}
    /\ state' = "stopped"
    /\ UNCHANGED <<work, closedBy, cancelled, pc, hands, retrying, sent, watch,
                   putBacks, result>>

-----------------------------------------------------------------------------
(* requeueAfter's goroutines. *)

\* The timer fires. A positive backoff outlasts the worker's few instructions
\* up to Done.
RetryPush(u) ==
    /\ u \in waiting
    /\ \A w \in Worker : cur[w] # u
    /\ Push(u)
    /\ waiting' = waiting \ {u}
    /\ pushed' = pushed \cup {<<u, retries[u]>>}
    /\ blink' = (blink \/ monitor = "second")
    /\ UNCHANGED <<seen, depth, inFlight, stop, pc, hands, retries, sent,
                   monitor, quiet, streak, blind, putBacks>>

RetryUncount(p) ==
    /\ pushed' = pushed \ {p}
    /\ UNCHANGED <<work, stop, pc, hands, retries, waiting, sent, watch,
                   putBacks, result>>

RetryGiveUp(u) ==
    /\ u \in waiting /\ cancelled
    /\ waiting' = waiting \ {u}
    /\ Settle(u, "dropped")
    /\ UNCHANGED <<work, stop, pc, hands, retries, pushed, sent, watch,
                   putBacks>>

-----------------------------------------------------------------------------
(* idleMonitor. *)

\* A tick reads Outstanding. A request that is being put back is in neither of
\* the frontier's sets; a retry pushed from here to the second read is no
\* longer pending there, and was not yet queued here.
ReadOutstanding ==
    /\ monitor = "tick" /\ ~cancelled
    /\ quiet' = (queue = {} /\ inFlight = {})
    /\ blink' = (\E w \in Worker : pc[w] = "putback")
    /\ monitor' = "second"
    /\ UNCHANGED <<work, stop, pc, hands, retrying, sent, streak, blind,
                   putBacks, result>>

\* Then it reads pendingRetries and decides.
ReadPending ==
    /\ monitor = "second"
    /\ streak' = IF quiet /\ pendingRetries = 0 THEN streak + 1 ELSE 0
    /\ blind' = IF streak' = 0 THEN 0 ELSE IF blink THEN blind + 1 ELSE blind
    /\ quiet' = FALSE /\ blink' = FALSE
    /\ IF streak' >= IdleStreak
       THEN /\ closedBy' = IF closed THEN closedBy ELSE "idle"
            /\ monitor' = "gone"
       ELSE monitor' = "tick" /\ UNCHANGED closedBy
    /\ UNCHANGED <<work, cancelled, state, pc, hands, retrying, sent, putBacks,
                   result>>

MonitorLeaves ==
    /\ monitor = "tick" /\ cancelled
    /\ closedBy' = IF closed THEN closedBy ELSE "stop"
    /\ monitor' = "gone"
    /\ UNCHANGED <<work, cancelled, state, pc, hands, retrying, sent, quiet,
                   streak, blink, blind, putBacks, result>>

-----------------------------------------------------------------------------
Process(w) ==
    \/ Skip(w) \/ Send(w) \/ Respond(w) \/ NotModified(w) \/ Fail(w) \/ Retry(w)
    \/ Emit(w) \/ MarkLink(w) \/ PushLink(w) \/ LinksAdded(w) \/ Done(w)

Work(w) ==
    Take(w) \/ PutBack(w) \/ Leave(w) \/ Process(w) \/ CheckLimit(w) \/ Stopped(w)

Retrier ==
    \/ \E u \in Url : RetryPush(u) \/ RetryGiveUp(u)
    \/ \E p \in pushed : RetryUncount(p)

Monitor == ReadOutstanding \/ ReadPending \/ MonitorLeaves

Crawling ==
    \/ \E w \in Worker : Work(w) \/ LoseClaim(w)
    \/ Retrier \/ Monitor
    \/ Stop \/ Cancel \/ JoinWorkers

Over == state = "stopped" /\ monitor = "gone" /\ UNCHANGED vars

Next == Crawling \/ Wait \/ Over

Spec == Init /\ [][Next]_vars

\* Workers, retry goroutines, the monitor's ticker, the rest of a Stop that
\* has begun and the caller blocked in Wait all make progress. A fetch ends:
\* it has a timeout. Nobody need ever call Stop, and claims need not fail.
Fairness ==
    /\ \A w \in Worker : WF_vars(Work(w))
    /\ WF_vars(Retrier) /\ WF_vars(Monitor)
    /\ WF_vars(Cancel) /\ WF_vars(JoinWorkers)

FairSpec == Spec /\ Fairness /\ WF_vars(Wait)

-----------------------------------------------------------------------------
(* Properties. *)

Held == {cur[w] : w \in Worker} \ {None}
InHand == {link[w] : w \in Worker} \ {None}
Owed == queue \cup Held \cup InHand \cup waiting

(* "idleMonitor closes the frontier once there is provably no work left"   *)
(* (scheduler.go:122). Its test is two reads at two moments, and a request *)
(* can be in the other place at each: the confirmation streak makes up for *)
(* it. Unless a put-back lay under the first read, or a retry was pushed   *)
(* between the two, in every single tick of the streak it closes on, an    *)
(* idle close leaves nothing queued, fetched, put back or waiting, however *)
(* many retries and put-backs the crawl has had.                           *)
IdleCloseIsSound ==
    closedBy = "idle" /\ blind < IdleStreak => Owed = {}

(* A crawl the monitor ended, and nothing else, has an answer for every    *)
(* URL it claimed and has claimed every link within MaxDepth of every page *)
(* it read: none was dropped by a closed frontier, lost between            *)
(* MarkIfUnseen and Push, or left to a retry (engine.go:334-371,           *)
(* scheduler.go:204-207).                                                  *)
CompleteAtEnd ==
    closedBy = "idle" /\ blind < IdleStreak =>
        \A u \in seen :
            /\ result[u] \in Settled
            /\ result[u] = "page" /\ depth[u] < MaxDepth => Links[u] \subseteq seen

(* No page is delivered twice: two workers that find the same link at the  *)
(* same time (engine.go:354-360), a retry, a put-back and a drain at close *)
(* never bring a processed URL back. In CrawlCheckpoint, neither does a    *)
(* resumption: what a run finished and recorded the next one leaves alone  *)
(* (engine.go:651-655).                                                    *)
PageOnce ==
    [][\A w \in Worker : pc[w] = "page" /\ pc'[w] # "page"
          => result[cur[w]] = "none"]_vars

(* Every crawl ends: whatever fails, whoever stops it, Wait returns.       *)
Terminates == <>(state = "stopped")

(* What the frontier's abstract specification says of each request here: a *)
(* put-back is still queued, and a link in hand or a retry waiting out its *)
(* backoff is still to arrive.                                             *)
StatusOf(u) ==
    IF result[u] = "dropped" THEN "dropped"
    ELSE IF result[u] # "none" THEN "finished"
    ELSE IF u \in queue \/ \E w \in Worker : pc[w] = "putback" /\ cur[w] = u
         THEN "queued"
    ELSE IF \E w \in Worker : pc[w] \in {"send", "fetch", "page"} /\ cur[w] = u
         THEN "held"
    ELSE "arriving"

Pool == INSTANCE WorkPool
            WITH Req <- Url, status <- [u \in Url |-> StatusOf(u)], open <- ~closed

\* Without a backoff the holder's Again and Accept, or Refuse, are one step.
AtOnce(u) == Pool!Move(u, "held", IF closed THEN "dropped" ELSE "queued")

(* A crawl uses the frontier only as the pool it promises to be: whatever  *)
(* workers, retry goroutines, monitor and Stop do, a request is fetched by *)
(* the one worker it was handed to, is finished, retried, or put back, and *)
(* is let go only by a closed frontier (frontier.go:74-237,                *)
(* scheduler.go:170-217, 677-755).                                         *)
UsesPool ==
    [][Pool!PoolNext \/ (ZeroBackoff /\ \E u \in Url : AtOnce(u))]_(Pool!poolVars)
=============================================================================
