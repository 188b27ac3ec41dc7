------------------------------ MODULE ApiServer -------------------------------
(***************************************************************************)
(* The REST and WebSocket server: the rate limit, the crawl and batch      *)
(* handlers with the goroutine each starts, cancellation, the synchronous  *)
(* caller's wait, the event stream, and the SQLite job table they share    *)
(* (internal/apiserver), through shutdown, a crash and a restart.          *)
(*                                                                         *)
(* A request's handler (at):                                               *)
(*   new, missed (no limiter under the read lock), limited, waiting (sync),*)
(*   read (has seen a final status), replied, cut (written too late),      *)
(*   refused, gone (with the process)                                      *)
(* and its job's goroutine (run):                                          *)
(*   none, spawned, started, next (the next URL), crawling, stored (a row  *)
(*   written, not yet counted), waited (the engine is done), saved, done;  *)
(*   while sending is not empty it is inside BroadcastJobEvent.            *)
(***************************************************************************)
EXTENDS Naturals, SequencesExt, FiniteSetsExt

CONSTANTS
    Request, Client,
    KeyOf,          \* the API key or address a request is limited by
    Watches,        \* the job each WebSocket client asks for
    Kind,           \* what each may be: "crawl", "sync" (a crawl waited for), "batch", or
                    \* "fetch" (one page, no job: extract, screenshot, sitemap)
    Urls,           \* of a batch
    MaxItems,       \* per engine
    Burst,          \* of a limiter, rateRPS * 2
    PageSize,       \* the default limit of GetJobItems
    MaxBusy, MaxRestarts,  \* bounds
    None

Kinds == {"crawl", "sync", "batch", "fetch"}
Final == {"completed", "failed"}
Events == [event : {"started", "item", "completed"}, n : Nat]
Answers == [status : Final, itemCount : Nat, items : Seq(Nat), read : BOOLEAN]

ASSUME ApiServerAssumption ==
    /\ Kind \in [Request -> SUBSET Kinds]
    /\ Watches \in [Client -> Request]
    /\ {Urls, MaxItems, Burst, PageSize} \subseteq Nat \ {0}
    /\ {MaxBusy, MaxRestarts} \subseteq Nat
    /\ None \notin Request \cup Events \cup Answers

VARIABLES
    up, restarts,                  \* the process: "serving", "stopping", "down"
    db, busy,                      \* the database handle, and the times it was found locked
    status, itemCount, rows,       \* tables jobs and job_items
    limiters, tokens,              \* by key; by the request that made them
    at, kind, answer,              \* handlers
    run, left, count, totalItems,  \* goroutines
    wsClients, sending, event,     \* the registry, and each range in progress
    admitted, peak, lost, unsaved, events, got, since  \* history

process == <<up, restarts>>
table == <<db, busy, status, itemCount, rows, lost, unsaved>>
limits == <<limiters, tokens, admitted, peak>>
handlers == <<at, kind, answer>>
workers == <<run, left, count, totalItems>>
stream == <<wsClients, sending, event, events, got, since>>
vars == <<process, table, limits, handlers, workers, stream>>

Status == {"none", "pending", "running", "cancelled"} \cup Final
Key == {KeyOf[r] : r \in Request}

Init ==
    /\ up = "serving" /\ restarts = 0 /\ db = "open" /\ busy = 0
    /\ status = [r \in Request |-> "none"] /\ itemCount = [r \in Request |-> 0]
    /\ rows = [r \in Request |-> <<>>]
    /\ limiters = [k \in Key |-> None] /\ tokens = [r \in Request |-> 0]
    /\ admitted = [k \in Key |-> 0] /\ peak = [k \in Key |-> 0]
    /\ at = [r \in Request |-> "new"] /\ kind \in {k \in [Request -> Kinds] : \A r \in Request : k[r] \in Kind[r]}
    /\ answer = [r \in Request |-> None]
    /\ run = [r \in Request |-> "none"] /\ left = [r \in Request |-> 0]
    /\ count = [r \in Request |-> 0] /\ totalItems = [r \in Request |-> 0]
    /\ wsClients = [r \in Request |-> {}] /\ sending = [r \in Request |-> {}]
    /\ event = [r \in Request |-> None] /\ events = [r \in Request |-> <<>>]
    /\ got = [c \in Client |-> <<>>] /\ since = [c \in Client |-> 0]
    /\ lost = [r \in Request |-> 0] /\ unsaved = {}

Becomes(f, r, v) == [f EXCEPT ![r] = v]

-----------------------------------------------------------------------------
(* JobManager. A statement fails on a closed database, and on one that    *)
(* another connection has locked: AddJobItem does not take the manager's   *)
(* mutex.                                                                  *)

Works == db = "open" /\ UNCHANGED busy
Fails == \/ db = "closed" /\ UNCHANGED busy
         \/ db = "open" /\ busy < MaxBusy /\ busy' = busy + 1

\* UpdateStatus and FailJob, whose errors are logged or dropped.
UpdateStatus(r, s) ==
    \/ Works /\ status' = Becomes(status, r, s) /\ UNCHANGED unsaved
    \/ Fails /\ unsaved' = unsaved \cup {r} /\ UNCHANGED status

\* The whole row but the status, overwritten whatever the status was.
CompleteJob(r, n) ==
    \/ /\ Works
       /\ status' = Becomes(status, r, "completed") /\ itemCount' = Becomes(itemCount, r, n)
       /\ UNCHANGED unsaved
    \/ Fails /\ unsaved' = unsaved \cup {r} /\ UNCHANGED <<status, itemCount>>

AddJobItem(r, n) ==
    \/ Works /\ rows' = Becomes(rows, r, Append(rows[r], n)) /\ UNCHANGED lost
    \/ Fails /\ lost' = Becomes(lost, r, lost[r] + 1) /\ UNCHANGED rows

GetJobItems(r, offset, limit) ==
    LET n == IF limit = 0 THEN PageSize ELSE limit
    IN SubSeq(rows[r], offset + 1, Min({offset + n, Len(rows[r])}))

-----------------------------------------------------------------------------
(* withRateLimit, at one instant: no limiter refills. *)

Missed(k) == {r \in Request : at[r] = "missed" /\ KeyOf[r] = k}

Allow(r, l) ==
    IF tokens[l] > 0
    THEN /\ tokens' = Becomes(tokens, l, tokens[l] - 1)
         /\ admitted' = Becomes(admitted, KeyOf[r], admitted[KeyOf[r]] + 1)
         /\ at' = Becomes(at, r, "limited")
    ELSE at' = Becomes(at, r, "refused") /\ UNCHANGED <<tokens, admitted>>

\* getLimiter under the read lock.
FindLimiter(r) ==
    /\ up # "down" /\ at[r] = "new"
    /\ LET k == KeyOf[r]
       IN IF limiters[k] # None THEN Allow(r, limiters[k]) /\ UNCHANGED peak
          ELSE /\ at' = Becomes(at, r, "missed")
               /\ peak' = Becomes(peak, k, Max({peak[k], 1 + Cardinality(Missed(k))}))
               /\ UNCHANGED <<tokens, admitted>>
    /\ UNCHANGED <<process, table, limiters, kind, answer, workers, stream>>

\* Mutant: a limiter that is used and not kept.
MakeLimiterUnkept(r) ==
    /\ up # "down" /\ at[r] = "missed"
    /\ tokens' = Becomes(tokens, r, Burst - 1)
    /\ admitted' = Becomes(admitted, KeyOf[r], admitted[KeyOf[r]] + 1)
    /\ at' = Becomes(at, r, "limited")
    /\ UNCHANGED <<process, table, limiters, peak, kind, answer, workers, stream>>

\* getLimiter under the write lock: it does not look again.
MakeLimiter(r) ==
    /\ up # "down" /\ at[r] = "missed"
    /\ limiters' = Becomes(limiters, KeyOf[r], r)
    /\ tokens' = Becomes(tokens, r, Burst - 1)
    /\ admitted' = Becomes(admitted, KeyOf[r], admitted[KeyOf[r]] + 1)
    /\ at' = Becomes(at, r, "limited")
    /\ UNCHANGED <<process, table, peak, kind, answer, workers, stream>>

-----------------------------------------------------------------------------
(* handleCrawl, handleBatch, handleCancelJob. *)

\* CreateJob, the goroutine, and the reply of all but a synchronous crawl.
Accept(r) ==
    /\ up # "down" /\ at[r] = "limited" /\ kind[r] # "fetch" /\ Works
    /\ status' = Becomes(status, r, "pending")
    /\ run' = Becomes(run, r, "spawned")
    /\ left' = Becomes(left, r, IF kind[r] = "batch" THEN Urls ELSE 1)
    /\ at' = Becomes(at, r, IF kind[r] = "sync" THEN "waiting" ELSE "replied")
    /\ UNCHANGED <<process, db, itemCount, rows, lost, unsaved, limits, kind, answer,
                   count, totalItems, stream>>

CreateFails(r) ==
    /\ up # "down" /\ at[r] = "limited" /\ kind[r] # "fetch" /\ Fails
    /\ at' = Becomes(at, r, "refused")
    /\ UNCHANGED <<process, db, status, itemCount, rows, lost, unsaved, limits, kind,
                   answer, workers, stream>>

\* handleExtract, handleScreenshot, handleSitemap: a page or an error, and
\* nothing kept.
Fetch(r) ==
    /\ up # "down" /\ at[r] = "limited" /\ kind[r] = "fetch"
    /\ at' = Becomes(at, r, "replied")
    /\ UNCHANGED <<process, table, limits, kind, answer, workers, stream>>

\* The handler sets the row, and nothing else: the crawl goes on.
CancelJob(r) ==
    /\ up # "down" /\ status[r] \notin {"none", "cancelled"} /\ Works
    /\ status' = Becomes(status, r, "cancelled")
    /\ UNCHANGED <<process, db, itemCount, rows, lost, unsaved, limits, handlers,
                   workers, stream>>

\* Mutant: a synchronous caller that takes a cancelled job for finished.
PollCancelled(r) ==
    /\ up # "down" /\ at[r] = "waiting" /\ db = "open"
    /\ status[r] \in Final \cup {"cancelled"}
    /\ at' = Becomes(at, r, "read")
    /\ answer' = Becomes(answer, r, [status |-> status[r], itemCount |-> itemCount[r],
                                     items |-> <<>>, read |-> FALSE])
    /\ UNCHANGED <<process, table, limits, kind, workers, stream>>

\* A tick of the synchronous caller: GetJob, whose errors are dropped, and it
\* waits on.
Poll(r) ==
    /\ up # "down" /\ at[r] = "waiting" /\ db = "open"
    /\ status[r] \in Final
    /\ at' = Becomes(at, r, "read")
    /\ answer' = Becomes(answer, r, [status |-> status[r], itemCount |-> itemCount[r],
                                     items |-> <<>>, read |-> FALSE])
    /\ UNCHANGED <<process, table, limits, kind, workers, stream>>

\* Then GetJobItems, whose error is dropped and leaves the items empty, and the
\* response; past the server's WriteTimeout it is cut.
Reply(r) ==
    /\ up # "down" /\ at[r] = "read"
    /\ \/ /\ Works
          /\ answer' = [answer EXCEPT ![r].items = GetJobItems(r, 0, 0), ![r].read = TRUE]
       \/ Fails /\ UNCHANGED answer
    /\ \E end \in {"replied", "cut"} : at' = Becomes(at, r, end)
    /\ UNCHANGED <<process, db, status, itemCount, rows, lost, unsaved, limits, kind, workers,
                   stream>>

\* The five minutes are over, and so are the two of WriteTimeout.
Deadline(r) ==
    /\ up # "down" /\ at[r] = "waiting"
    /\ at' = Becomes(at, r, "cut")
    /\ UNCHANGED <<process, table, limits, kind, answer, workers, stream>>

-----------------------------------------------------------------------------
(* BroadcastJobEvent ranges over the live map of the job's clients.        *)

Idle(r) == event[r] = None

Broadcast(r, e) ==
    /\ event' = Becomes(event, r, e)
    /\ events' = Becomes(events, r, Append(events[r], e))
    /\ sending' = Becomes(sending, r, wsClients[r])
    /\ UNCHANGED <<wsClients, got, since>>

WriteJSON(r, c) ==
    /\ up # "down" /\ c \in sending[r]
    /\ sending' = Becomes(sending, r, sending[r] \ {c})
    /\ got' = Becomes(got, c, Append(got[c], event[r]))
    /\ UNCHANGED <<process, table, limits, handlers, workers, wsClients, event, events,
                   since>>

\* Mutant: a failed write that leaves the client registered.
WriteErrorKept(r, c) ==
    /\ up # "down" /\ c \in sending[r]
    /\ sending' = Becomes(sending, r, sending[r] \ {c})
    /\ UNCHANGED <<process, table, limits, handlers, workers, wsClients, event, events,
                   got, since>>

\* A failed write closes the connection and takes it off the registry.
WriteError(r, c) ==
    /\ up # "down" /\ c \in sending[r]
    /\ sending' = Becomes(sending, r, sending[r] \ {c})
    /\ wsClients' = Becomes(wsClients, r, wsClients[r] \ {c})
    /\ UNCHANGED <<process, table, limits, handlers, workers, event, events, got, since>>

\* The range ends: on to the caller's next statement.
Sent(r) ==
    /\ up # "down" /\ ~Idle(r) /\ sending[r] = {}
    /\ event' = Becomes(event, r, None)
    /\ CASE run[r] = "started" -> run' = Becomes(run, r, "next") /\ UNCHANGED count
         [] run[r] = "stored" -> /\ run' = Becomes(run, r, "crawling")
                                 /\ count' = Becomes(count, r, count[r] + 1)
         [] run[r] = "saved" -> run' = Becomes(run, r, "done") /\ UNCHANGED count
    /\ UNCHANGED <<process, table, limits, handlers, left, totalItems, wsClients, sending,
                   events, got, since>>

\* A new map entry may be produced by a range in progress, or not.
Connect(c) ==
    LET r == Watches[c]
    IN /\ up = "serving" /\ c \notin wsClients[r] /\ since[c] = 0
       /\ wsClients' = Becomes(wsClients, r, wsClients[r] \cup {c})
       /\ since' = Becomes(since, c, Len(events[r]) + 1)
       /\ IF Idle(r) THEN UNCHANGED sending
          ELSE \E seen \in SUBSET {c} : sending' = Becomes(sending, r, sending[r] \cup seen)
       /\ UNCHANGED <<process, table, limits, handlers, workers, event, events, got>>

\* The read pump ends; an entry deleted before it is reached is not produced.
Disconnect(c) ==
    LET r == Watches[c]
    IN /\ up # "down" /\ c \in wsClients[r]
       /\ wsClients' = Becomes(wsClients, r, wsClients[r] \ {c})
       /\ sending' = Becomes(sending, r, sending[r] \ {c})
       /\ UNCHANGED <<process, table, limits, handlers, workers, event, events, got, since>>

-----------------------------------------------------------------------------
(* executeCrawl, executeBatch and the engine they wait for. *)

MarkRunning(r) ==
    /\ up # "down" /\ run[r] = "spawned"
    /\ UpdateStatus(r, "running")
    /\ IF kind[r] = "batch" THEN run' = Becomes(run, r, "next") /\ UNCHANGED stream
       ELSE /\ run' = Becomes(run, r, "started")
            /\ Broadcast(r, [event |-> "started", n |-> 0])
    /\ UNCHANGED <<process, db, itemCount, rows, lost, limits, handlers, left, count,
                   totalItems>>

\* A collector of its own, and the engine starts.
StartEngine(r) ==
    /\ up # "down" /\ run[r] = "next" /\ left[r] > 0
    /\ run' = Becomes(run, r, "crawling") /\ count' = Becomes(count, r, 0)
    /\ left' = Becomes(left, r, left[r] - 1)
    /\ UNCHANGED <<process, table, limits, handlers, totalItems, stream>>

\* Mutant: a job that cannot start and is not marked failed.
StartFailsSilently(r) ==
    /\ up # "down" /\ run[r] = "next" /\ left[r] > 0
    /\ left' = Becomes(left, r, left[r] - 1)
    /\ IF kind[r] = "batch" THEN UNCHANGED run ELSE run' = Becomes(run, r, "done")
    /\ UNCHANGED <<process, table, limits, handlers, count, totalItems, stream>>

\* No fetcher, a bad seed: a batch goes on to its next URL.
StartFails(r) ==
    /\ up # "down" /\ run[r] = "next" /\ left[r] > 0
    /\ left' = Becomes(left, r, left[r] - 1)
    /\ IF kind[r] = "batch" THEN UNCHANGED <<table, run>>
       ELSE /\ UpdateStatus(r, "failed") /\ run' = Becomes(run, r, "done")
            /\ UNCHANGED <<db, itemCount, rows, lost>>
    /\ UNCHANGED <<process, limits, handlers, count, totalItems, stream>>

\* Mutant: an item that is streamed and not stored.
StoreStreamedOnly(r) ==
    /\ up # "down" /\ run[r] = "crawling" /\ count[r] < MaxItems
    /\ Broadcast(r, [event |-> "item", n |-> totalItems[r] + count[r] + 1])
    /\ run' = Becomes(run, r, "stored")
    /\ UNCHANGED <<process, table, limits, handlers, left, count, totalItems>>

\* streamingCollector.Store of one item: the row, then the event.
Store(r) ==
    /\ up # "down" /\ run[r] = "crawling" /\ count[r] < MaxItems
    /\ LET n == totalItems[r] + count[r] + 1
       IN AddJobItem(r, n) /\ Broadcast(r, [event |-> "item", n |-> n])
    /\ run' = Becomes(run, r, "stored")
    /\ UNCHANGED <<process, db, status, itemCount, unsaved, limits, handlers, left, count,
                   totalItems>>

\* Mutant: a batch that counts its last URL only.
EngineEndsLast(r) ==
    /\ up # "down" /\ run[r] = "crawling"
    /\ totalItems' = Becomes(totalItems, r, count[r])
    /\ run' = Becomes(run, r, IF kind[r] = "batch" THEN "next" ELSE "waited")
    /\ UNCHANGED <<process, table, limits, handlers, left, count, stream>>

\* eng.Wait returns.
EngineEnds(r) ==
    /\ up # "down" /\ run[r] = "crawling"
    /\ totalItems' = Becomes(totalItems, r, totalItems[r] + count[r])
    /\ run' = Becomes(run, r, IF kind[r] = "batch" THEN "next" ELSE "waited")
    /\ UNCHANGED <<process, table, limits, handlers, left, count, stream>>

Ended(r) == run[r] = "waited" \/ (kind[r] = "batch" /\ run[r] = "next" /\ left[r] = 0)

Complete(r) ==
    /\ up # "down" /\ Ended(r)
    /\ CompleteJob(r, totalItems[r])
    /\ IF kind[r] = "batch" THEN run' = Becomes(run, r, "done") /\ UNCHANGED stream
       ELSE /\ run' = Becomes(run, r, "saved")
            /\ Broadcast(r, [event |-> "completed", n |-> totalItems[r]])
    /\ UNCHANGED <<process, db, rows, lost, limits, handlers, left, count, totalItems>>

-----------------------------------------------------------------------------
(* The process. *)

\* ctx is done: the database is closed first, then the server drains for up
\* to ten seconds, and the jobs' goroutines run on meanwhile.
Stop ==
    /\ up = "serving" /\ up' = "stopping" /\ db' = "closed"
    /\ UNCHANGED <<restarts, busy, status, itemCount, rows, lost, unsaved, limits, handlers,
                   workers, stream>>

Die ==
    /\ up' = "down" /\ db' = "closed"
    /\ at' = [r \in Request |-> IF at[r] \in {"missed", "limited", "waiting", "read"}
                                THEN "gone" ELSE at[r]]
    /\ run' = [r \in Request |-> IF run[r] = "none" THEN "none" ELSE "done"]
    /\ wsClients' = [r \in Request |-> {}] /\ sending' = [r \in Request |-> {}]
    /\ event' = [r \in Request |-> None]
    /\ limiters' = [k \in Key |-> None] /\ admitted' = [k \in Key |-> 0]
    /\ peak' = [k \in Key |-> 0]
    /\ tokens' = [r \in Request |-> 0]
    /\ UNCHANGED <<restarts, busy, status, itemCount, rows, lost, unsaved, kind,
                   answer, left, count, totalItems, events, got, since>>

Exit == up = "stopping" /\ Die

\* Go ends a process that changes a map while another goroutine ranges over
\* it, if the runtime notices.
MapRace == up # "down" /\ (\E r \in Request : ~Idle(r)) /\ Die

\* NewServer opens the same database; nothing looks for jobs left running.
Restart ==
    /\ up = "down" /\ restarts < MaxRestarts
    /\ up' = "serving" /\ restarts' = restarts + 1 /\ db' = "open"
    /\ UNCHANGED <<busy, status, itemCount, rows, lost, unsaved, limits, handlers, workers,
                   stream>>

-----------------------------------------------------------------------------

Execute(r) ==
    \/ MarkRunning(r) \/ StartEngine(r) \/ StartFails(r) \/ EngineEnds(r) \/ Complete(r)
    \/ Sent(r)

Write(r) == \E c \in Client : WriteJSON(r, c) \/ WriteError(r, c)

Wait(r) == Poll(r) \/ Reply(r) \/ Deadline(r)

Next ==
    \/ \E r \in Request :
           \/ FindLimiter(r) \/ MakeLimiter(r)
           \/ Accept(r) \/ CreateFails(r) \/ Fetch(r) \/ CancelJob(r)
           \/ Wait(r) \/ Execute(r) \/ Store(r) \/ Write(r)
    \/ \E c \in Client : Connect(c) \/ Disconnect(c)
    \/ Stop \/ Exit \/ MapRace \/ Restart

\* The goroutines and the ticker run; the engine ends (Crawl.tla). A write to a
\* WebSocket client has no deadline and need not return.
Crawls == {r \in Request : Kind[r] # {"fetch"}}
Fairness == \A r \in Crawls : WF_vars(Execute(r)) /\ WF_vars(Wait(r)) /\ WF_vars(EngineEnds(r))

Spec == Init /\ [][Next]_vars /\ Fairness

-----------------------------------------------------------------------------
(* What the server promises. *)

\* A completed job's item_count is its rows and the inserts that failed,
\* over all the URLs of a batch (handlers.go: totalItems, count++; jobs.go:
\* CompleteJob).
CountAccountsForRows ==
    \A r \in Request :
        status[r] = "completed" => itemCount[r] = Len(rows[r]) + lost[r]

\* A synchronous answer is about a job that is over: no row was or will be
\* added to what it was read from, so its count accounts for the rows and its
\* items are the first page of them. When the second read failed, on a locked
\* database or a closed one, it has the count and no items: nothing tells it
\* from the answer of a job without any (handlers.go: the poll of handleCrawl).
AnswersAreWhole ==
    \A r \in Request :
        at[r] \in {"replied", "cut"} /\ answer[r] # None =>
            /\ answer[r].status = "completed" =>
                   answer[r].itemCount = Len(rows[r]) + lost[r]
            /\ answer[r].items = IF answer[r].read THEN GetJobItems(r, 0, 0) ELSE <<>>

\* What a WebSocket client was told is already so in the job table: each
\* item's row was written or its insert failed, and a job announced as
\* completed is, unless it was cancelled or the write failed (handlers.go:
\* Store and executeCrawl, each before its broadcast).
StreamFollowsTable ==
    \A c \in Client : LET r == Watches[c] IN
        \A i \in DOMAIN got[c] :
            CASE got[c][i].event = "item" -> got[c][i].n <= Len(rows[r]) + lost[r]
              [] got[c][i].event = "completed" ->
                     status[r] \in {"completed", "cancelled"} \/ r \in unsaved
              [] OTHER -> status[r] # "pending" \/ r \in unsaved

\* A client gets the job's events in order and without a gap from when it
\* connected, or from the event after the one being sent just then, until
\* its connection fails (server.go: BroadcastJobEvent).
StreamHasNoGap ==
    \A c \in Client : LET es == events[Watches[c]] IN
        got[c] # <<>> =>
            \E from \in {since[c] - 1, since[c]} \ {0} :
                /\ from + Len(got[c]) - 1 <= Len(es)
                /\ got[c] = SubSeq(es, from, from + Len(got[c]) - 1)

\* The requests admitted under one key before a limiter refills: the burst,
\* times the requests that found no limiter together (server.go:
\* getLimiter, withRateLimit).
AdmittedWithinBurst ==
    \A k \in Key : admitted[k] <= Burst * Max({1, peak[k]})

\* While the writes to its WebSocket clients return, a job that was accepted
\* leaves "pending" and "running" behind, unless the process ended or a write
\* of its status failed (handlers.go: executeCrawl, executeBatch; server.go:
\* BroadcastJobEvent).
JobsSettle ==
    \A r \in Crawls :
        []<>(sending[r] = {}) =>
            (run[r] = "spawned" ~>
                 status[r] \in Final \cup {"cancelled"} \/ up = "down" \/ r \in unsaved)
===============================================================================
