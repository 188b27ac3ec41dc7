----------------------------- MODULE ServerProofs -----------------------------
(* Proofs about the two servers, for any number of requests, keys, clients  *)
(* and calls: the job table, the synchronous answer, the event stream and   *)
(* the rate limit of the REST server, and the answers of the MCP server.    *)
EXTENDS ApiServer, McpServer, FiniteSetTheorems, SequenceTheorems, TLAPS

Written(r) == Len(rows[r]) + lost[r]

\* A job's goroutine starts when its handler is past the rate limit; it is
\* inside a broadcast exactly at the three places that make one.
PlaceInv ==
    /\ up \in {"serving", "stopping", "down"} /\ restarts \in Nat
    /\ db = "open" <=> up = "serving"
    /\ at \in [Request -> {"new", "missed", "limited", "waiting", "read", "replied", "cut",
                           "refused", "gone"}]
    /\ run \in [Request -> {"none", "spawned", "started", "next", "crawling", "stored",
                            "waited", "saved", "done"}]
    /\ event \in [Request -> Events \cup {None}]
    /\ \A r \in Request :
          /\ at[r] \in {"new", "missed", "limited"} => run[r] = "none"
          /\ ~Idle(r) <=> run[r] \in {"started", "stored", "saved"}

\* What a goroutine has counted, and what it is about to count, are the rows
\* and the failed inserts; none come after the job is over.
TableInv ==
    /\ status \in [Request -> Status] /\ itemCount \in [Request -> Nat]
    /\ rows \in [Request -> Seq(Nat)] /\ lost \in [Request -> Nat]
    /\ count \in [Request -> Nat] /\ totalItems \in [Request -> Nat]
    /\ unsaved \subseteq Request
    /\ \A r \in Request :
          /\ run[r] \in {"none", "spawned", "started"} => Written(r) = 0 /\ totalItems[r] = 0
          /\ run[r] \in {"next", "waited"} => Written(r) = totalItems[r]
          /\ run[r] = "crawling" => Written(r) = totalItems[r] + count[r]
          /\ run[r] = "stored" => Written(r) = totalItems[r] + count[r] + 1
          /\ status[r] \in Final => run[r] \in {"saved", "done"}
          /\ status[r] = "completed" => itemCount[r] = Written(r)

\* A synchronous caller has read a job that was over.
AnswerOk(r) ==
    /\ at[r] \in {"new", "missed", "limited", "waiting", "refused"} => answer[r] = None
    /\ at[r] = "read" => answer[r] # None
    /\ answer[r] # None =>
          /\ run[r] \in {"saved", "done"}
          /\ answer[r].status = "completed" => answer[r].itemCount = Written(r)
          /\ answer[r].items = IF answer[r].read THEN GetJobItems(r, 0, 0) ELSE <<>>

AnswerInv ==
    /\ answer \in [Request -> Answers \cup {None}]
    /\ \A r \in Request : AnswerOk(r)

\* What an event says is so when it is broadcast, and stays so.
Told(r, e) ==
    /\ e.event = "started" => run[r] # "none" /\ (status[r] # "pending" \/ r \in unsaved)
    /\ e.event = "item" => e.n <= Written(r)
    /\ e.event = "completed" =>
          /\ run[r] \in {"saved", "done"}
          /\ status[r] \in {"completed", "cancelled"} \/ r \in unsaved

ToldInv ==
    /\ wsClients \in [Request -> SUBSET Client] /\ sending \in [Request -> SUBSET Client]
    /\ got \in [Client -> Seq(Events)]
    /\ \A r \in Request :
          /\ \A c \in wsClients[r] : Watches[c] = r
          /\ sending[r] \subseteq wsClients[r]
          /\ Idle(r) => sending[r] = {}
          /\ ~Idle(r) => Told(r, event[r])
    /\ \A c \in Client : \A i \in DOMAIN got[c] : Told(Watches[c], got[c][i])

\* A client's events are a stretch of its job's, from the one after it came
\* or the one before that, and while it is registered up to the last one, or
\* the last but one if that is still to be sent to it.
Unsent(c) == IF c \in sending[Watches[c]] THEN 1 ELSE 0
Stretch(c, from) ==
    /\ from > 0 /\ (from = since[c] - 1 \/ from = since[c])
    /\ from + Len(got[c]) <= Len(events[Watches[c]]) + 1
    /\ \A i \in 1 .. Len(got[c]) : got[c][i] = events[Watches[c]][from + i - 1]
    /\ c \in wsClients[Watches[c]] =>
          from + Len(got[c]) + Unsent(c) = Len(events[Watches[c]]) + 1

Fits(c) ==
    IF since[c] = 0 THEN got[c] = <<>> /\ c \notin wsClients[Watches[c]]
    ELSE \E from \in Nat : Stretch(c, from)

GapInv ==
    /\ events \in [Request -> Seq(Events)] /\ since \in [Client -> Nat]
    /\ \A r \in Request :
          ~Idle(r) => Len(events[r]) > 0 /\ events[r][Len(events[r])] = event[r]
    /\ \A c \in Client : Fits(c)

\* No limiter is there, and none was used; or the requests let through, the
\* tokens left, and the bursts of those that will yet make a limiter of
\* their own, are within the bursts of those that found none together.
Within(k) ==
    /\ IsFiniteSet(Missed(k))
    /\ IF limiters[k] = None THEN admitted[k] = 0 /\ Cardinality(Missed(k)) <= peak[k]
       ELSE /\ KeyOf[limiters[k]] = k
            /\ admitted[k] + tokens[limiters[k]] + Burst * Cardinality(Missed(k))
                  <= Burst * peak[k]

LimitInv ==
    /\ limiters \in [Key -> Request \cup {None}] /\ tokens \in [Request -> Nat]
    /\ admitted \in [Key -> Nat] /\ peak \in [Key -> Nat]
    /\ \A k \in Key : Within(k)

\* What waits to be read was sent, once.
LineOk ==
    /\ line \in Seq(Call)
    /\ live => \A i, j \in DOMAIN line :
                  stage[line[i]] = "sent" /\ (line[i] = line[j] => i = j)

\* A job has all items its crawls found but those it has still to add; it is
\* completed with none to add and none to find.
JobOk(c) ==
    /\ stage[c] = "answered"
    /\ jobs[c].items + collected[c] = found[c]
    /\ jobs[c].status = "completed" => todo[c] = 0 /\ collected[c] = 0

\* An id that was given out is a job's; what a status call has read of a
\* job, and what it answers, is so for good once the job is completed.
CallOk(c) ==
    /\ c \notin DOMAIN jobs => collected[c] = 0 /\ found[c] = 0
    /\ about[c] # NoAnswer => asked[c] = "status" /\ about[c] \in DOMAIN jobs
    /\ stage[c] = "unsent" => reply[c] = NoAnswer
    /\ stage[c] = "serving" => asked[c] = "crawl"
    /\ stage[c] = "status" =>
          /\ about[c] # NoAnswer /\ read[c] # NoAnswer
          /\ read[c].items = NoAnswer /\ read[c].status \in JobStatus
          /\ read[c].status = "completed" => jobs[about[c]].status = "completed"
    /\ reply[c] # NoAnswer =>
          /\ reply[c].says = "started" => c \in DOMAIN jobs
          /\ about[c] # NoAnswer => reply[c].says = "job"
          /\ reply[c].status = "completed" =>
                /\ about[c] \in DOMAIN jobs /\ jobs[about[c]].status = "completed"
                /\ reply[c].items = found[about[c]]

McpType ==
    /\ todo \in [Call -> Nat] /\ collected \in [Call -> Nat] /\ found \in [Call -> Nat]
    /\ DOMAIN jobs \subseteq Call
    /\ jobs \in [DOMAIN jobs -> [status : JobStatus, items : Nat]]
    /\ stage \in [Call -> {"unsent", "sent", "serving", "status", "answered", "silent", "lost"}]
    /\ asked \in [Call -> {NoAnswer, "ping", "malformed", "notification", "crawl", "batch",
                           "status"}]
    /\ about \in [Call -> Call \cup {NoAnswer}]
    /\ read \in [Call -> Reads \cup {NoAnswer}]
    /\ reply \in [Call -> Replies \cup {NoAnswer}]

McpInv ==
    /\ McpType /\ LineOk
    /\ \A c \in DOMAIN jobs : JobOk(c)
    /\ \A c \in Call : CallOk(c)

-----------------------------------------------------------------------------
(* Where the handlers and the goroutines are. *)

LEMMA PlaceInit == Init => PlaceInv
  BY ApiServerAssumption DEF Init, PlaceInv, Idle, Events

LEMMA EventsAre ==
    /\ \A n \in Nat : /\ [event |-> "started", n |-> n] \in Events
                      /\ [event |-> "item", n |-> n] \in Events
                      /\ [event |-> "completed", n |-> n] \in Events
    /\ None \notin Events /\ None \notin Answers /\ None \notin Request
  BY ApiServerAssumption DEF Events

LEMMA PlaceStep ==
    ASSUME PlaceInv, TableInv, [Next]_vars
    PROVE  PlaceInv'
<1> USE DEF Idle
<1>a. ASSUME UNCHANGED <<up, restarts, db, at, run, event>> PROVE PlaceInv'
  BY <1>a DEF PlaceInv
<1>1. ASSUME NEW r \in Request, FindLimiter(r) \/ MakeLimiter(r) PROVE PlaceInv'
  <2>1. run[r] = "none" /\ UNCHANGED <<up, restarts, db, run, event>>
    BY <1>1 DEF FindLimiter, MakeLimiter, PlaceInv, process, table, workers, stream
  <2>2. \E p \in {"missed", "limited", "refused"} : at' = Becomes(at, r, p)
    BY <1>1 DEF FindLimiter, MakeLimiter, Allow
  <2> QED
    BY <2>1, <2>2 DEF PlaceInv, Becomes
<1>2. ASSUME NEW r \in Request, Accept(r) PROVE PlaceInv'
  BY <1>2 DEF Accept, PlaceInv, Becomes, process, stream
<1>3. ASSUME NEW r \in Request, CreateFails(r) \/ Fetch(r) \/ Poll(r) \/ Reply(r) \/ Deadline(r)
      PROVE  PlaceInv'
  <2>1. UNCHANGED <<up, restarts, db, run, event>>
    BY <1>3 DEF CreateFails, Fetch, Poll, Reply, Deadline, process, table, workers, stream
  <2>2. \E p \in {"replied", "cut", "read", "refused"} : at' = Becomes(at, r, p)
    BY <1>3 DEF CreateFails, Fetch, Poll, Reply, Deadline
  <2> QED
    BY <2>1, <2>2 DEF PlaceInv, Becomes
<1>4. ASSUME NEW r \in Request, CancelJob(r) PROVE PlaceInv'
  BY <1>4, <1>a DEF CancelJob, process, handlers, workers, stream
<1>5. ASSUME NEW r \in Request, MarkRunning(r) PROVE PlaceInv'
  <2>1. /\ run[r] = "spawned" /\ UNCHANGED <<up, restarts, db, at>>
        /\ \/ run' = Becomes(run, r, "next") /\ UNCHANGED event
           \/ run' = Becomes(run, r, "started")
              /\ event' = Becomes(event, r, [event |-> "started", n |-> 0])
    BY <1>5 DEF MarkRunning, Broadcast, process, handlers, stream
  <2>2. PICK e \in Events : e = [event |-> "started", n |-> 0]
    BY EventsAre
  <2> QED
    BY <2>1, <2>2, EventsAre DEF PlaceInv, Becomes
<1>6. ASSUME NEW r \in Request, StartEngine(r) PROVE PlaceInv'
  BY <1>6 DEF StartEngine, PlaceInv, Becomes, process, table, handlers, stream
<1>7. ASSUME NEW r \in Request, StartFails(r) PROVE PlaceInv'
  <2>1. /\ run[r] = "next" /\ UNCHANGED <<up, restarts, db, at, event>>
        /\ run' = Becomes(run, r, "done") \/ UNCHANGED run
    BY <1>7 DEF StartFails, process, table, handlers, stream
  <2> QED
    BY <2>1 DEF PlaceInv, Becomes
<1>8. ASSUME NEW r \in Request, EngineEnds(r) PROVE PlaceInv'
  <2>1. /\ run[r] = "crawling" /\ UNCHANGED <<up, restarts, db, at, event>>
        /\ run' = Becomes(run, r, "next") \/ run' = Becomes(run, r, "waited")
    BY <1>8 DEF EngineEnds, process, table, handlers, stream
  <2> QED
    BY <2>1 DEF PlaceInv, Becomes
<1>9. ASSUME NEW r \in Request, Complete(r) PROVE PlaceInv'
  <2>1. /\ run[r] \in {"waited", "next"} /\ UNCHANGED <<up, restarts, db, at>>
        /\ \/ run' = Becomes(run, r, "done") /\ UNCHANGED event
           \/ run' = Becomes(run, r, "saved")
              /\ event' = Becomes(event, r, [event |-> "completed", n |-> totalItems[r]])
    BY <1>9 DEF Complete, Ended, Broadcast, process, handlers, stream
  <2>2. PICK e \in Events : e = [event |-> "completed", n |-> totalItems[r]]
    BY EventsAre DEF TableInv
  <2> QED
    BY <2>1, <2>2, EventsAre DEF PlaceInv, Becomes
<1>10. ASSUME NEW r \in Request, Sent(r) PROVE PlaceInv'
  <2>1. run[r] \in {"started", "stored", "saved"}
    BY <1>10 DEF Sent, PlaceInv
  <2>2. /\ UNCHANGED <<up, restarts, db, at>> /\ event' = Becomes(event, r, None)
        /\ \E s \in {"next", "crawling", "done"} : run' = Becomes(run, r, s)
    BY <1>10, <2>1 DEF Sent, process, table, handlers
  <2> QED
    BY <2>1, <2>2 DEF PlaceInv, Becomes
<1>11. ASSUME NEW r \in Request, NEW c \in Client, WriteJSON(r, c) \/ WriteError(r, c)
       PROVE  PlaceInv'
  BY <1>11, <1>a DEF WriteJSON, WriteError, process, table, handlers, workers
<1>12. ASSUME NEW r \in Request, Store(r) PROVE PlaceInv'
  <2>1. /\ run[r] = "crawling" /\ UNCHANGED <<up, restarts, db, at>>
        /\ run' = Becomes(run, r, "stored")
        /\ event' = Becomes(event, r, [event |-> "item", n |-> totalItems[r] + count[r] + 1])
    BY <1>12 DEF Store, Broadcast, process, handlers
  <2>2. totalItems[r] + count[r] + 1 \in Nat
    BY DEF TableInv
  <2>3. PICK e \in Events : e = [event |-> "item", n |-> totalItems[r] + count[r] + 1]
    BY <2>2, EventsAre
  <2> QED
    BY <2>1, <2>3, EventsAre DEF PlaceInv, Becomes
<1>13. ASSUME NEW c \in Client, Connect(c) \/ Disconnect(c) PROVE PlaceInv'
  BY <1>13, <1>a DEF Connect, Disconnect, process, table, handlers, workers
<1>14. ASSUME Stop PROVE PlaceInv'
  BY <1>14 DEF Stop, PlaceInv, handlers, workers, stream
<1>15. ASSUME Exit \/ MapRace PROVE PlaceInv'
  BY <1>15 DEF Exit, MapRace, Die, PlaceInv
<1>16. ASSUME Restart PROVE PlaceInv'
  BY <1>16, ApiServerAssumption DEF Restart, PlaceInv, handlers, workers, stream
<1>17. ASSUME UNCHANGED vars PROVE PlaceInv'
  BY <1>17, <1>a DEF vars, process, table, handlers, workers, stream
<1> QED
  BY <1>1, <1>2, <1>3, <1>4, <1>5, <1>6, <1>7, <1>8, <1>9, <1>10, <1>11, <1>12, <1>13, <1>14,
     <1>15, <1>16, <1>17 DEF Next, Execute, Write, Wait
-----------------------------------------------------------------------------
(* The job table. *)

LEMMA TableInit == Init => TableInv
<1> SUFFICES ASSUME Init PROVE TableInv
  OBVIOUS
<1>1. /\ rows = [r \in Request |-> <<>>] /\ lost = [r \in Request |-> 0]
      /\ status = [r \in Request |-> "none"] /\ itemCount = [r \in Request |-> 0]
      /\ count = [r \in Request |-> 0] /\ totalItems = [r \in Request |-> 0]
      /\ run = [r \in Request |-> "none"] /\ unsaved = {}
  BY DEF Init
<1>2. \A r \in Request : Written(r) = 0
  BY <1>1 DEF Written
<1> QED
  BY <1>1, <1>2 DEF TableInv, Status, Final

\* The job of one request is written to, and the others are left alone.
LEMMA WrittenIs ==
    ASSUME TableInv PROVE \A r \in Request : Written(r) \in Nat
<1>1. \A r \in Request : Len(rows[r]) \in Nat /\ lost[r] \in Nat
  BY LenProperties DEF TableInv
<1> QED
  BY <1>1 DEF Written

LEMMA TableStep ==
    ASSUME PlaceInv, TableInv, [Next]_vars
    PROVE  TableInv'
<1> USE DEF Idle
<1>a. /\ \A q \in Request : Written(q) \in Nat /\ totalItems[q] \in Nat /\ count[q] \in Nat
      /\ UNCHANGED <<rows, lost>> => \A q \in Request : Written(q)' = Written(q)
  BY WrittenIs DEF TableInv, Written
<1>b. ASSUME UNCHANGED <<status, itemCount, rows, lost, count, totalItems, unsaved, run>>
      PROVE  TableInv'
  BY <1>a, <1>b DEF TableInv
\* A row is not completed unless its job is over.
<1>c. ASSUME NEW r \in Request, NEW s \in {"pending", "running", "cancelled"},
             status' = Becomes(status, r, s) \/ UNCHANGED status,
             unsaved' \subseteq Request,
             UNCHANGED <<itemCount, rows, lost, count, totalItems>>,
             \/ UNCHANGED run
             \/ run[r] = "none" /\ run' = Becomes(run, r, "spawned")
             \/ run[r] = "spawned" /\ run' = Becomes(run, r, "started")
             \/ run[r] = "spawned" /\ run' = Becomes(run, r, "next")
      PROVE  TableInv'
  <2>1. /\ status' \in [Request -> Status]
        /\ \A q \in Request :
              status'[q] \in Final => status[q] \in Final /\ status'[q] = status[q]
    BY <1>c DEF TableInv, Becomes, Status, Final
  <2>2. ASSUME NEW q \in Request
        PROVE  /\ run'[q] \in {"none", "spawned", "started"} => Written(q) = 0 /\ totalItems[q] = 0
               /\ run'[q] \in {"next", "waited"} => Written(q) = totalItems[q]
               /\ run'[q] = "crawling" => run[q] = "crawling"
               /\ run'[q] = "stored" => run[q] = "stored"
               /\ run[q] \in {"saved", "done"} => run'[q] = run[q]
    BY <1>c DEF TableInv, Becomes, PlaceInv
  <2>3. \A q \in Request : Written(q)' = Written(q)
    BY <1>a, <1>c
  <2>4. ASSUME NEW q \in Request
        PROVE  /\ run'[q] = "crawling" => Written(q) = totalItems[q] + count[q]
               /\ run'[q] = "stored" => Written(q) = totalItems[q] + count[q] + 1
               /\ status'[q] \in Final => run'[q] \in {"saved", "done"}
               /\ status'[q] = "completed" => itemCount[q] = Written(q)
    BY <2>1, <2>2 DEF TableInv, Final
  <2> QED
    BY <1>c, <2>1, <2>2, <2>3, <2>4 DEF TableInv
<1>1. ASSUME NEW r \in Request, \/ FindLimiter(r) \/ MakeLimiter(r) \/ CreateFails(r)
                                \/ Fetch(r) \/ Poll(r) \/ Reply(r) \/ Deadline(r)
      PROVE  TableInv'
  BY <1>1, <1>b
  DEF FindLimiter, MakeLimiter, CreateFails, Fetch, Poll, Reply, Deadline, table, workers
<1>2. ASSUME NEW r \in Request, Accept(r) PROVE TableInv'
  <2>1. /\ status' = Becomes(status, r, "pending") /\ run[r] = "none"
        /\ run' = Becomes(run, r, "spawned")
        /\ UNCHANGED <<itemCount, rows, lost, count, totalItems, unsaved>>
    BY <1>2 DEF Accept, PlaceInv
  <2> QED
    BY <2>1, <1>c DEF TableInv
<1>3. ASSUME NEW r \in Request, CancelJob(r) PROVE TableInv'
  <2>1. /\ status' = Becomes(status, r, "cancelled")
        /\ UNCHANGED <<itemCount, rows, lost, count, totalItems, unsaved, run>>
    BY <1>3 DEF CancelJob, workers
  <2> QED
    BY <2>1, <1>c DEF TableInv
<1>4. ASSUME NEW r \in Request, MarkRunning(r) PROVE TableInv'
  <2>1. /\ status' = Becomes(status, r, "running") \/ UNCHANGED status
        /\ unsaved' = unsaved \/ unsaved' = unsaved \cup {r}
        /\ run[r] = "spawned"
        /\ run' = Becomes(run, r, "started") \/ run' = Becomes(run, r, "next")
        /\ UNCHANGED <<itemCount, rows, lost, count, totalItems>>
    BY <1>4 DEF MarkRunning, UpdateStatus
  <2>2. unsaved' \subseteq Request
    BY <2>1 DEF TableInv
  <2> QED
    BY <2>1, <2>2, <1>c
<1>5. ASSUME NEW r \in Request, StartEngine(r) PROVE TableInv'
  <2>1. /\ run[r] = "next" /\ run' = Becomes(run, r, "crawling") /\ count' = Becomes(count, r, 0)
        /\ UNCHANGED <<status, itemCount, rows, lost, totalItems, unsaved>>
    BY <1>5 DEF StartEngine, table
  <2> QED
    BY <1>a, <2>1 DEF TableInv, Becomes, PlaceInv
<1>6. ASSUME NEW r \in Request, StartFails(r) PROVE TableInv'
  <2>1. /\ run[r] = "next" /\ UNCHANGED <<itemCount, rows, lost, count, totalItems>>
        /\ \/ UNCHANGED <<run, status, unsaved>>
           \/ /\ run' = Becomes(run, r, "done")
              /\ \/ status' = Becomes(status, r, "failed") /\ UNCHANGED unsaved
                 \/ unsaved' = unsaved \cup {r} /\ UNCHANGED status
    BY <1>6 DEF StartFails, UpdateStatus, table
  <2>2. CASE UNCHANGED run
    BY <1>b, <2>1, <2>2 DEF Becomes, PlaceInv
  <2>3. CASE run' = Becomes(run, r, "done")
    <3>1. unsaved' \subseteq Request
      BY <2>1 DEF TableInv
    <3>2. /\ status' \in [Request -> Status]
          /\ \A q \in Request : status'[q] = status[q] \/ (q = r /\ status'[q] = "failed")
      BY <2>1 DEF TableInv, Becomes, Status, Final
    <3>3. \A q \in Request : run'[q] = IF q = r THEN "done" ELSE run[q]
      BY <2>3 DEF PlaceInv, Becomes
    <3>4. \A q \in Request : Written(q)' = Written(q)
      BY <1>a, <2>1
    <3>5. ASSUME NEW q \in Request
          PROVE  /\ run'[q] \in {"none", "spawned", "started"} =>
                       Written(q) = 0 /\ totalItems[q] = 0
                 /\ run'[q] \in {"next", "waited"} => Written(q) = totalItems[q]
                 /\ run'[q] = "crawling" => Written(q) = totalItems[q] + count[q]
                 /\ run'[q] = "stored" => Written(q) = totalItems[q] + count[q] + 1
                 /\ status'[q] \in Final => run'[q] \in {"saved", "done"}
                 /\ status'[q] = "completed" => itemCount[q] = Written(q)
      <4>1. CASE q = r
        BY <3>2, <3>3, <4>1 DEF TableInv
      <4>2. CASE q # r
        BY <3>2, <3>3, <4>2 DEF TableInv
      <4> QED
        BY <4>1, <4>2
    <3> QED
      BY <2>1, <3>1, <3>2, <3>4, <3>5 DEF TableInv
  <2> QED
    BY <2>1, <2>2, <2>3
<1>7. ASSUME NEW r \in Request, EngineEnds(r) PROVE TableInv'
  <2>1. /\ run[r] = "crawling" /\ totalItems' = Becomes(totalItems, r, totalItems[r] + count[r])
        /\ run' = Becomes(run, r, "next") \/ run' = Becomes(run, r, "waited")
        /\ UNCHANGED <<status, itemCount, rows, lost, count, unsaved>>
    BY <1>7 DEF EngineEnds, table
  <2>2. totalItems' \in [Request -> Nat]
    BY <1>a, <2>1 DEF TableInv, Becomes
  <2>3. Written(r) = totalItems[r] + count[r] /\ status[r] \notin Final
    BY <2>1 DEF TableInv
  <2>4. ASSUME NEW q \in Request
        PROVE  /\ run'[q] \in {"none", "spawned", "started"} => Written(q) = 0 /\ totalItems'[q] = 0
               /\ run'[q] \in {"next", "waited"} => Written(q) = totalItems'[q]
               /\ run'[q] = "crawling" => Written(q) = totalItems'[q] + count[q]
               /\ run'[q] = "stored" => Written(q) = totalItems'[q] + count[q] + 1
               /\ status[q] \in Final => run'[q] \in {"saved", "done"}
    BY <1>a, <2>1, <2>3 DEF TableInv, Becomes, PlaceInv
  <2> QED
    BY <1>a, <2>1, <2>2, <2>4 DEF TableInv
<1>8. ASSUME NEW r \in Request, Complete(r) PROVE TableInv'
  <2>1. /\ run[r] \in {"waited", "next"}
        /\ run' = Becomes(run, r, "saved") \/ run' = Becomes(run, r, "done")
        /\ UNCHANGED <<rows, lost, count, totalItems>>
        /\ \/ /\ status' = Becomes(status, r, "completed")
              /\ itemCount' = Becomes(itemCount, r, totalItems[r]) /\ UNCHANGED unsaved
           \/ unsaved' = unsaved \cup {r} /\ UNCHANGED <<status, itemCount>>
    BY <1>8 DEF Complete, Ended, CompleteJob
  <2>2. unsaved' \subseteq Request
    BY <2>1 DEF TableInv
  <2>3. Written(r) = totalItems[r] /\ status[r] \notin Final
    BY <2>1 DEF TableInv
  <2>4. status' \in [Request -> Status] /\ itemCount' \in [Request -> Nat]
    BY <1>a, <2>1 DEF TableInv, Becomes, Status, Final
  <2>5. ASSUME NEW q \in Request
        PROVE  /\ run'[q] \in {"saved", "done"} \/ (q # r /\ run'[q] = run[q])
               /\ q # r => /\ status'[q] = status[q] /\ itemCount'[q] = itemCount[q]
                           /\ run'[q] = run[q]
               /\ q = r => run'[q] \in {"saved", "done"}
               /\ status'[r] = "completed" => itemCount'[r] = totalItems[r]
    BY <2>1, <2>3 DEF TableInv, Becomes, PlaceInv, Final
  <2> QED
    BY <1>a, <2>1, <2>2, <2>3, <2>4, <2>5, SMTT(30) DEF TableInv
<1>9. ASSUME NEW r \in Request, Sent(r) PROVE TableInv'
  <2>1. run[r] \in {"started", "stored", "saved"}
    BY <1>9 DEF Sent, PlaceInv
  <2>2. /\ UNCHANGED <<status, itemCount, rows, lost, totalItems, unsaved>>
        /\ \/ run[r] = "started" /\ run' = Becomes(run, r, "next") /\ UNCHANGED count
           \/ run[r] = "stored" /\ run' = Becomes(run, r, "crawling")
              /\ count' = Becomes(count, r, count[r] + 1)
           \/ run[r] = "saved" /\ run' = Becomes(run, r, "done") /\ UNCHANGED count
    BY <1>9, <2>1 DEF Sent, table
  <2>3. PICK n \in Nat : n = count[r] + 1
    BY <1>a
  <2>4. count' \in [Request -> Nat]
    BY <2>2, <2>3 DEF TableInv, Becomes
  <2>5. \A q \in Request : Written(q)' = Written(q)
    BY <1>a, <2>2
  <2>6. CASE run[r] = "stored"
    <3>1. \A q \in Request : /\ q # r => run'[q] = run[q] /\ count'[q] = count[q]
                             /\ q = r => run'[q] = "crawling" /\ count'[q] = n
      BY <2>2, <2>3, <2>6 DEF TableInv, Becomes, PlaceInv
    <3>2. Written(r) = totalItems[r] + count[r] + 1 /\ totalItems[r] \in Nat /\ count[r] \in Nat
      BY <2>6, <1>a DEF TableInv
    <3>3. Written(r) = totalItems[r] + n
      BY <2>3, <3>2
    <3>4. status[r] \notin Final
      BY <2>6 DEF TableInv
    <3> QED
      BY <2>2, <2>4, <2>5, <3>1, <3>3, <3>4 DEF TableInv, Final
  <2>7. CASE run[r] # "stored"
    <3>1. \A q \in Request :
             /\ run'[q] \in {"none", "spawned", "started", "waited", "crawling", "stored"} =>
                   run'[q] = run[q]
             /\ run'[q] = "next" => run[q] = "next" \/ run[q] = "started"
             /\ run[q] \in {"saved", "done"} => run'[q] \in {"saved", "done"}
      BY <2>2, <2>7 DEF Becomes, PlaceInv
    <3>2. UNCHANGED count
      BY <2>2, <2>7
    <3> QED
      BY <2>2, <2>5, <3>1, <3>2 DEF TableInv
  <2> QED
    BY <2>6, <2>7
<1>10. ASSUME NEW r \in Request, Store(r) PROVE TableInv'
  <2>1. PICK n \in Nat : n = totalItems[r] + count[r] + 1
    BY <1>a
  <2>2. /\ run[r] = "crawling" /\ run' = Becomes(run, r, "stored")
        /\ UNCHANGED <<status, itemCount, count, totalItems, unsaved>>
        /\ \/ rows' = Becomes(rows, r, Append(rows[r], n)) /\ UNCHANGED lost
           \/ lost' = Becomes(lost, r, lost[r] + 1) /\ UNCHANGED rows
    BY <1>10, <2>1 DEF Store, AddJobItem
  <2>3. /\ rows' \in [Request -> Seq(Nat)] /\ lost' \in [Request -> Nat]
        /\ Written(r)' = Written(r) + 1
    <3>1. rows[r] \in Seq(Nat) /\ lost[r] \in Nat /\ Len(rows[r]) \in Nat
      BY LenProperties DEF TableInv
    <3>2. Append(rows[r], n) \in Seq(Nat) /\ Len(Append(rows[r], n)) = Len(rows[r]) + 1
      BY <3>1, AppendProperties
    <3>3. CASE rows' = Becomes(rows, r, Append(rows[r], n)) /\ UNCHANGED lost
      <4>1. rows'[r] = Append(rows[r], n) /\ lost'[r] = lost[r]
        BY <3>3 DEF TableInv, Becomes
      <4>2. rows' \in [Request -> Seq(Nat)] /\ lost' \in [Request -> Nat]
        BY <3>2, <3>3 DEF TableInv, Becomes
      <4>3. PICK a \in Nat, b \in Nat : a = Len(rows[r]) /\ b = lost[r]
        BY <3>1
      <4>4. Len(rows'[r]) = a + 1 /\ lost'[r] = b
        BY <3>2, <4>1, <4>3
      <4>5. Written(r) = a + b /\ Written(r)' = (a + 1) + b
        BY <4>3, <4>4 DEF Written
      <4> QED
        BY <4>2, <4>5
    <3>4. CASE lost' = Becomes(lost, r, lost[r] + 1) /\ UNCHANGED rows
      <4>1. PICK m \in Nat : m = lost[r] + 1
        BY <3>1
      <4>2. rows'[r] = rows[r] /\ lost'[r] = m
        BY <3>4, <4>1 DEF TableInv, Becomes
      <4>3. rows' \in [Request -> Seq(Nat)] /\ lost' \in [Request -> Nat]
        BY <3>4, <4>1 DEF TableInv, Becomes
      <4>4. PICK a \in Nat, b \in Nat : a = Len(rows[r]) /\ b = lost[r]
        BY <3>1
      <4>5. Len(rows'[r]) = a /\ lost'[r] = b + 1
        BY <4>1, <4>2, <4>4
      <4>6. Written(r) = a + b /\ Written(r)' = a + (b + 1)
        BY <4>4, <4>5 DEF Written
      <4> QED
        BY <4>3, <4>6
    <3> QED
      BY <2>2, <3>3, <3>4
  <2>4. \A q \in Request : q # r => Written(q)' = Written(q) /\ run'[q] = run[q]
    BY <2>2 DEF TableInv, Becomes, Written, PlaceInv
  <2>5. run'[r] = "stored" /\ status[r] \notin Final /\ Written(r) = totalItems[r] + count[r]
    BY <2>2 DEF TableInv, Becomes, PlaceInv
  <2> QED
    BY <1>a, <2>2, <2>3, <2>4, <2>5 DEF TableInv, Final
<1>11. ASSUME NEW r \in Request, NEW c \in Client, WriteJSON(r, c) \/ WriteError(r, c)
       PROVE  TableInv'
  BY <1>11, <1>b DEF WriteJSON, WriteError, table, workers
<1>12. ASSUME NEW c \in Client, Connect(c) \/ Disconnect(c) PROVE TableInv'
  BY <1>12, <1>b DEF Connect, Disconnect, table, workers
<1>13. ASSUME Stop \/ Restart PROVE TableInv'
  BY <1>13, <1>b DEF Stop, Restart, workers
<1>14. ASSUME Exit \/ MapRace PROVE TableInv'
  <2>1. /\ UNCHANGED <<status, itemCount, rows, lost, count, totalItems, unsaved>>
        /\ \A q \in Request : run'[q] = IF run[q] = "none" THEN "none" ELSE "done"
    BY <1>14 DEF Exit, MapRace, Die
  <2> QED
    BY <1>a, <2>1 DEF TableInv, Final
<1>15. ASSUME UNCHANGED vars PROVE TableInv'
  BY <1>15, <1>b DEF vars, table, workers
<1> QED
  BY <1>1, <1>2, <1>3, <1>4, <1>5, <1>6, <1>7, <1>8, <1>9, <1>10, <1>11, <1>12, <1>13, <1>14,
     <1>15 DEF Next, Execute, Write, Wait

-----------------------------------------------------------------------------
(* What is told is not taken back. *)

\* Rows are added only, and none to a job that is over, whose status may
\* still become "cancelled"; it is pending only before its goroutine runs.
LEMMA TableMoves ==
    ASSUME PlaceInv, TableInv, [Next]_vars
    PROVE  /\ restarts > 0 \/ up # "serving" => restarts' > 0 \/ up' # "serving"
           /\ \A q \in Request :
                 /\ Written(q) \in Nat /\ Written(q)' \in Nat /\ Written(q) <= Written(q)'
                 /\ q \in unsaved => q \in unsaved'
                 /\ run[q] # "none" =>
                       run'[q] # "none" /\ (status'[q] = "pending" => status[q] = "pending")
                 /\ run[q] \in {"saved", "done"} =>
                       /\ run'[q] \in {"saved", "done"}
                       /\ rows'[q] = rows[q] /\ Written(q)' = Written(q)
                       /\ status'[q] = status[q] \/ status'[q] = "cancelled"
<1> DEFINE Quiet(q) ==
              /\ rows'[q] = rows[q] /\ lost'[q] = lost[q] /\ (q \in unsaved => q \in unsaved')
              /\ run[q] # "none" => run'[q] # "none"
              /\ run[q] # "none" /\ status'[q] = "pending" => status[q] = "pending"
              /\ run[q] \in {"saved", "done"} =>
                    /\ run'[q] \in {"saved", "done"}
                    /\ status'[q] = status[q] \/ status'[q] = "cancelled"
           Adds(q) ==
              /\ run[q] = "crawling" /\ run'[q] = "stored" /\ UNCHANGED <<status, unsaved>>
              /\ \/ rows'[q] = Append(rows[q], totalItems[q] + count[q] + 1)
                    /\ lost'[q] = lost[q]
                 \/ rows'[q] = rows[q] /\ lost'[q] = lost[q] + 1
<1> USE DEF Idle
<1>b. restarts > 0 \/ up # "serving" => restarts' > 0 \/ up' # "serving"
  <2>1. restarts \in Nat
    BY DEF PlaceInv
  <2>2. ASSUME NEW r \in Request, \/ FindLimiter(r) \/ MakeLimiter(r) \/ CreateFails(r) \/ Fetch(r)
                                  \/ Accept(r) \/ CancelJob(r) \/ Wait(r)
        PROVE  UNCHANGED <<up, restarts>>
    BY <2>2 DEF FindLimiter, MakeLimiter, CreateFails, Fetch, Accept, CancelJob, Wait, Poll, Reply,
                Deadline, process
  <2>3. ASSUME NEW r \in Request, \/ MarkRunning(r) \/ StartEngine(r) \/ StartFails(r)
                                  \/ EngineEnds(r) \/ Complete(r) \/ Sent(r) \/ Store(r)
        PROVE  UNCHANGED <<up, restarts>>
    BY <2>3 DEF MarkRunning, StartEngine, StartFails, EngineEnds, Complete, Sent, Store, process
  <2>4. ASSUME NEW r \in Request, NEW c \in Client, WriteJSON(r, c) \/ WriteError(r, c)
        PROVE  UNCHANGED <<up, restarts>>
    BY <2>4 DEF WriteJSON, WriteError, process
  <2>5. ASSUME NEW c \in Client, Connect(c) \/ Disconnect(c) PROVE UNCHANGED <<up, restarts>>
    BY <2>5 DEF Connect, Disconnect, process
  <2>6. ASSUME Stop \/ Exit \/ MapRace PROVE up' # "serving"
    BY <2>6 DEF Stop, Exit, MapRace, Die
  <2>7. ASSUME Restart PROVE restarts' > 0
    BY <2>1, <2>7 DEF Restart
  <2>8. ASSUME UNCHANGED vars PROVE UNCHANGED <<up, restarts>>
    BY <2>8 DEF vars, process
  <2> QED
    BY <2>2, <2>3, <2>4, <2>5, <2>6, <2>7, <2>8 DEF Next, Execute, Write
<1>c. ASSUME UNCHANGED <<status, rows, lost, unsaved, run>>, NEW q \in Request PROVE Quiet(q)
  BY <1>c
<1>1. ASSUME NEW r \in Request, \/ FindLimiter(r) \/ MakeLimiter(r) \/ CreateFails(r)
                                \/ Fetch(r) \/ Poll(r) \/ Reply(r) \/ Deadline(r),
             NEW q \in Request
      PROVE  Quiet(q)
  BY <1>1, <1>c DEF FindLimiter, MakeLimiter, CreateFails, Fetch, Poll, Reply, Deadline, table,
                    workers
<1>2. ASSUME NEW r \in Request, Accept(r), NEW q \in Request PROVE Quiet(q)
  <2>1. /\ run[r] = "none" /\ status' = Becomes(status, r, "pending")
        /\ run' = Becomes(run, r, "spawned") /\ UNCHANGED <<rows, lost, unsaved>>
    BY <1>2 DEF Accept, PlaceInv
  <2> QED
    BY <2>1 DEF Becomes, PlaceInv, TableInv
<1>3. ASSUME NEW r \in Request, CancelJob(r), NEW q \in Request PROVE Quiet(q)
  BY <1>3 DEF CancelJob, Becomes, TableInv, workers
<1>4. ASSUME NEW r \in Request, MarkRunning(r), NEW q \in Request PROVE Quiet(q)
  <2>1. /\ run[r] = "spawned" /\ UNCHANGED <<rows, lost>>
        /\ status' = Becomes(status, r, "running") \/ UNCHANGED status
        /\ unsaved \subseteq unsaved'
        /\ run' = Becomes(run, r, "started") \/ run' = Becomes(run, r, "next")
    BY <1>4 DEF MarkRunning, UpdateStatus
  <2> QED
    BY <2>1 DEF Becomes, PlaceInv, TableInv
<1>5. ASSUME NEW r \in Request, StartEngine(r) \/ StartFails(r) \/ EngineEnds(r), NEW q \in Request
      PROVE  Quiet(q)
  <2>1. /\ run[r] \in {"next", "crawling"} /\ UNCHANGED <<rows, lost>>
        /\ status' = Becomes(status, r, "failed") \/ UNCHANGED status
        /\ unsaved \subseteq unsaved'
        /\ UNCHANGED run
           \/ \E s \in {"crawling", "next", "waited", "done"} : run' = Becomes(run, r, s)
    BY <1>5 DEF StartEngine, StartFails, EngineEnds, UpdateStatus, table
  <2>2. /\ run'[q] = run[q] \/ (q = r /\ run'[q] \in {"crawling", "next", "waited", "done"})
        /\ status'[q] = status[q] \/ (q = r /\ status'[q] = "failed")
    BY <2>1 DEF Becomes, PlaceInv, TableInv
  <2> QED
    BY <2>1, <2>2
<1>6. ASSUME NEW r \in Request, Complete(r), NEW q \in Request PROVE Quiet(q)
  <2>1. /\ run[r] \in {"waited", "next"} /\ UNCHANGED <<rows, lost>>
        /\ status' = Becomes(status, r, "completed") \/ UNCHANGED status
        /\ unsaved \subseteq unsaved'
        /\ run' = Becomes(run, r, "saved") \/ run' = Becomes(run, r, "done")
    BY <1>6 DEF Complete, CompleteJob, Ended
  <2> QED
    BY <2>1 DEF Becomes, PlaceInv, TableInv
<1>7. ASSUME NEW r \in Request, Sent(r), NEW q \in Request PROVE Quiet(q)
  <2>1. run[r] \in {"started", "stored", "saved"}
    BY <1>7 DEF Sent, PlaceInv
  <2>2. /\ UNCHANGED <<status, rows, lost, unsaved>>
        /\ \/ run[r] = "started" /\ run' = Becomes(run, r, "next")
           \/ run[r] = "stored" /\ run' = Becomes(run, r, "crawling")
           \/ run[r] = "saved" /\ run' = Becomes(run, r, "done")
    BY <1>7, <2>1 DEF Sent, table
  <2> QED
    BY <2>2 DEF Becomes, PlaceInv
<1>8. ASSUME NEW r \in Request, Store(r), NEW q \in Request PROVE Quiet(q) \/ Adds(q)
  <2>1. PICK n : n = totalItems[r] + count[r] + 1
    OBVIOUS
  <2>2. /\ run[r] = "crawling" /\ run' = Becomes(run, r, "stored") /\ UNCHANGED <<status, unsaved>>
        /\ \/ rows' = Becomes(rows, r, Append(rows[r], n)) /\ UNCHANGED lost
           \/ lost' = Becomes(lost, r, lost[r] + 1) /\ UNCHANGED rows
    BY <1>8, <2>1 DEF Store, AddJobItem
  <2>3. CASE q = r
    BY <2>1, <2>2, <2>3 DEF Becomes, PlaceInv, TableInv
  <2>4. CASE q # r
    BY <2>2, <2>4 DEF Becomes, PlaceInv, TableInv
  <2> QED
    BY <2>3, <2>4
<1>9. ASSUME NEW r \in Request, NEW c \in Client, WriteJSON(r, c) \/ WriteError(r, c),
             NEW q \in Request
      PROVE  Quiet(q)
  BY <1>9, <1>c DEF WriteJSON, WriteError, table, workers
<1>10. ASSUME (\E c \in Client : Connect(c) \/ Disconnect(c)) \/ Stop \/ Restart, NEW q \in Request
       PROVE  Quiet(q)
  BY <1>10, <1>c DEF Connect, Disconnect, Stop, Restart, table, workers
<1>11. ASSUME Exit \/ MapRace, NEW q \in Request PROVE Quiet(q)
  BY <1>11 DEF Exit, MapRace, Die
<1>12. ASSUME UNCHANGED vars, NEW q \in Request PROVE Quiet(q)
  BY <1>12, <1>c DEF vars, table, workers
<1>13. ASSUME NEW q \in Request PROVE Quiet(q) \/ Adds(q)
  BY <1>1, <1>2, <1>3, <1>4, <1>5, <1>6, <1>7, <1>8, <1>9, <1>10, <1>11, <1>12
     DEF Next, Execute, Write, Wait
<1>14. ASSUME NEW q \in Request, Adds(q)
       PROVE  /\ Written(q) \in Nat /\ Written(q)' \in Nat /\ Written(q) <= Written(q)'
  <2>2. rows[q] \in Seq(Nat) /\ lost[q] \in Nat /\ Len(rows[q]) \in Nat
    BY LenProperties DEF TableInv
  <2>3. PICK n \in Nat : n = totalItems[q] + count[q] + 1
    BY DEF TableInv
  <2>4. Len(Append(rows[q], n)) = Len(rows[q]) + 1
    BY <2>2, AppendProperties
  <2>5. PICK a \in Nat, b \in Nat : a = Len(rows[q]) /\ b = lost[q]
    BY <2>2
  <2>6. (Len(rows'[q]) = a + 1 /\ lost'[q] = b) \/ (Len(rows'[q]) = a /\ lost'[q] = b + 1)
    BY <1>14, <2>3, <2>4, <2>5
  <2>7. Written(q) = a + b /\ (Written(q)' = (a + 1) + b \/ Written(q)' = a + (b + 1))
    BY <2>5, <2>6 DEF Written
  <2> QED
    BY <2>7
<1>15. ASSUME NEW q \in Request, Quiet(q)
       PROVE  Written(q) \in Nat /\ Written(q)' = Written(q)
  BY <1>15, WrittenIs DEF Written
<1>16. ASSUME NEW q \in Request
       PROVE  /\ Written(q) \in Nat /\ Written(q)' \in Nat /\ Written(q) <= Written(q)'
              /\ q \in unsaved => q \in unsaved'
              /\ run[q] # "none" =>
                    run'[q] # "none" /\ (status'[q] = "pending" => status[q] = "pending")
              /\ run[q] \in {"saved", "done"} =>
                    /\ run'[q] \in {"saved", "done"}
                    /\ rows'[q] = rows[q] /\ Written(q)' = Written(q)
                    /\ status'[q] = status[q] \/ status'[q] = "cancelled"
  <2>1. CASE Quiet(q)
    BY <1>15, <2>1
  <2>2. CASE Adds(q)
    BY <1>14, <2>2
  <2> QED
    BY <1>13, <2>1, <2>2
<1> QED
  BY <1>b, <1>16

-----------------------------------------------------------------------------
(* The synchronous answer. *)

LEMMA AnswerInit == Init => AnswerInv
  BY EventsAre DEF Init, AnswerInv, AnswerOk

LEMMA AnswerStep ==
    ASSUME PlaceInv, TableInv, AnswerInv, [Next]_vars
    PROVE  AnswerInv'
<1> USE DEF Idle
<1>a. ASSUME NEW q \in Request, run[q] \in {"saved", "done"}
      PROVE  run'[q] \in {"saved", "done"} /\ Written(q)' = Written(q) /\ rows'[q] = rows[q]
  BY <1>a, TableMoves
\* An answer that was read holds good, whatever is done with it.
<1>c. ASSUME NEW q \in Request, answer'[q] = answer[q],
             \/ at'[q] = at[q] \/ at'[q] = "gone" \/ (answer[q] = None /\ at'[q] # "read")
      PROVE  AnswerOk(q)'
  <2>1. AnswerOk(q)
    BY DEF AnswerInv
  <2>2. CASE answer[q] = None
    BY <1>c, <2>1, <2>2 DEF AnswerOk
  <2>3. CASE answer[q] # None
    <3>1. run[q] \in {"saved", "done"} /\ run'[q] \in {"saved", "done"}
          /\ Written(q)' = Written(q) /\ rows'[q] = rows[q]
      BY <1>a, <2>1, <2>3 DEF AnswerOk
    <3>2. GetJobItems(q, 0, 0)' = GetJobItems(q, 0, 0)
      BY <3>1 DEF GetJobItems
    <3> QED
      BY <1>c, <2>1, <2>3, <3>1, <3>2 DEF AnswerOk
  <2> QED
    BY <2>2, <2>3
<1>d. ASSUME UNCHANGED answer, \A q \in Request : at'[q] = at[q] \/ at'[q] = "gone"
      PROVE  AnswerInv'
  BY <1>c, <1>d DEF AnswerInv
<1>e. ASSUME UNCHANGED answer, NEW r \in Request, answer[r] = None,
             NEW s \in {"missed", "limited", "waiting", "replied", "cut", "refused"},
             at' = Becomes(at, r, s)
      PROVE  AnswerInv'
  <2>1. ASSUME NEW q \in Request PROVE at'[q] = at[q] \/ (q = r /\ at'[q] = s)
    BY <1>e DEF Becomes, PlaceInv
  <2> QED
    BY <1>c, <1>e, <2>1 DEF AnswerInv
<1>1. ASSUME NEW r \in Request, FindLimiter(r) \/ MakeLimiter(r) PROVE AnswerInv'
  <2>1. UNCHANGED answer /\ \E s \in {"missed", "limited", "refused"} : at' = Becomes(at, r, s)
    BY <1>1 DEF FindLimiter, MakeLimiter, Allow
  <2>2. answer[r] = None
    BY <1>1 DEF FindLimiter, MakeLimiter, AnswerInv, AnswerOk
  <2> QED
    BY <1>e, <2>1, <2>2
<1>2. ASSUME NEW r \in Request, Accept(r) \/ CreateFails(r) \/ Fetch(r) \/ Deadline(r)
      PROVE  AnswerInv'
  <2>1. /\ UNCHANGED answer
        /\ \E s \in {"waiting", "replied", "cut", "refused"} : at' = Becomes(at, r, s)
    BY <1>2 DEF Accept, CreateFails, Fetch, Deadline
  <2>2. answer[r] = None
    BY <1>2 DEF Accept, CreateFails, Fetch, Deadline, AnswerInv, AnswerOk
  <2> QED
    BY <1>e, <2>1, <2>2
<1>3. ASSUME NEW r \in Request, Poll(r) PROVE AnswerInv'
  <2>1. PICK a : a = [status |-> status[r], itemCount |-> itemCount[r], items |-> <<>>,
                      read |-> FALSE]
    OBVIOUS
  <2>2. /\ at' = Becomes(at, r, "read") /\ answer' = Becomes(answer, r, a)
        /\ UNCHANGED <<run, rows, lost>>
    BY <1>3, <2>1 DEF Poll, table, workers
  <2>3. status[r] \in Final /\ run[r] \in {"saved", "done"}
    BY <1>3 DEF Poll, TableInv
  <2>4. a \in Answers /\ a # None
    <3>1. <<>> \in Seq(Nat) /\ itemCount[r] \in Nat
      BY DEF TableInv
    <3>2. a \in Answers
      BY <2>1, <2>3, <3>1 DEF Answers
    <3> QED
      BY <3>2, EventsAre
  <2>5. /\ a.status = "completed" => a.itemCount = Written(r)
        /\ a.items = <<>> /\ a.read = FALSE
    BY <2>1 DEF TableInv
  <2>6. AnswerOk(r)'
    BY <2>2, <2>3, <2>4, <2>5 DEF AnswerOk, AnswerInv, PlaceInv, Becomes, Written
  <2>7. ASSUME NEW q \in Request, q # r PROVE AnswerOk(q)'
    BY <1>c, <2>2, <2>7 DEF Becomes, PlaceInv, AnswerInv
  <2> QED
    BY <2>2, <2>4, <2>6, <2>7 DEF AnswerInv, Becomes
<1>4. ASSUME NEW r \in Request, Reply(r) PROVE AnswerInv'
  <2>1. PICK p : p = GetJobItems(r, 0, 0)
    OBVIOUS
  <2>2. PICK end \in {"replied", "cut"} : at' = Becomes(at, r, end)
    BY <1>4 DEF Reply
  <2>3. /\ UNCHANGED answer \/ answer' = [answer EXCEPT ![r].items = p, ![r].read = TRUE]
        /\ UNCHANGED <<rows, lost, run>>
    BY <1>4, <2>1 DEF Reply, workers
  <2>4. /\ answer[r] \in Answers /\ answer[r] # None /\ run[r] \in {"saved", "done"}
        /\ answer[r].status = "completed" => answer[r].itemCount = Written(r)
        /\ answer[r].items = IF answer[r].read THEN p ELSE <<>>
    BY <1>4, <2>1 DEF Reply, AnswerInv, AnswerOk
  <2>5. p \in Seq(Nat)
    <3>1. rows[r] \in Seq(Nat) /\ Len(rows[r]) \in Nat
      BY LenProperties DEF TableInv
    <3>2. PICK L \in Nat, n \in Nat : L = Len(rows[r]) /\ n = 0 + PageSize
      BY <3>1, ApiServerAssumption
    <3>3. PICK m : m = Min({n, L})
      OBVIOUS
    <3>4. m \in {n, L} /\ \A i \in {n, L} : m <= i
      <4>1. \E x \in {n, L} : \A y \in {n, L} : x <= y
        BY <3>2
      <4> QED
        BY <3>3, <4>1 DEF Min
    <3>5. m \in 0 .. L
      BY <3>2, <3>4
    <3>6. SubSeq(rows[r], 1, m) \in Seq(Nat)
      BY <3>1, <3>2, <3>5, SubSeqProperties
    <3>7. GetJobItems(r, 0, 0) = SubSeq(rows[r], 1, m)
      <4>1. GetJobItems(r, 0, 0) = SubSeq(rows[r], 0 + 1, Min({0 + PageSize, Len(rows[r])}))
        BY Zenon DEF GetJobItems
      <4>2. Min({0 + PageSize, Len(rows[r])}) = m
        BY <3>2, <3>3, Zenon
      <4>3. 0 + 1 = 1
        OBVIOUS
      <4> QED
        BY <4>1, <4>2, <4>3, Zenon
    <3> QED
      BY <2>1, <3>6, <3>7, Zenon
  <2>6. PICK a \in Answers :
           /\ a.status = answer[r].status /\ a.itemCount = answer[r].itemCount
           /\ a.items = IF a.read THEN p ELSE <<>>
           /\ answer' = Becomes(answer, r, a)
    <3>1. CASE UNCHANGED answer
      <4>1. answer' = Becomes(answer, r, answer[r])
        BY <3>1 DEF Becomes, AnswerInv
      <4> QED
        BY <2>4, <4>1
    <3>2. CASE answer' = [answer EXCEPT ![r].items = p, ![r].read = TRUE]
      <4>1. PICK a : a = [answer[r] EXCEPT !.items = p, !.read = TRUE]
        OBVIOUS
      <4>2. /\ a \in Answers /\ a.items = p /\ a.read = TRUE
            /\ a.status = answer[r].status /\ a.itemCount = answer[r].itemCount
        BY <2>4, <2>5, <4>1 DEF Answers
      <4>3. answer' = Becomes(answer, r, a)
        BY <3>2, <4>1 DEF Becomes, AnswerInv
      <4> QED
        BY <4>2, <4>3
    <3> QED
      BY <2>3, <3>1, <3>2
  <2>7. /\ answer'[r] = a /\ at'[r] = end /\ GetJobItems(r, 0, 0)' = p
        /\ run'[r] = run[r] /\ Written(r)' = Written(r)
    BY <2>1, <2>2, <2>3, <2>6 DEF Becomes, AnswerInv, PlaceInv, GetJobItems, Written
  <2>8. AnswerOk(r)'
    <3>1. a # None
      BY <2>6, EventsAre
    <3> QED
      BY <2>2, <2>4, <2>6, <2>7, <3>1 DEF AnswerOk
  <2>9. ASSUME NEW q \in Request, q # r PROVE AnswerOk(q)'
    BY <1>c, <2>2, <2>6, <2>9 DEF Becomes, PlaceInv, AnswerInv
  <2> QED
    BY <2>6, <2>8, <2>9 DEF AnswerInv, Becomes
<1>5. ASSUME NEW r \in Request, \/ CancelJob(r) \/ MarkRunning(r) \/ StartEngine(r) \/ StartFails(r)
                                \/ EngineEnds(r) \/ Complete(r) \/ Sent(r) \/ Store(r)
      PROVE  AnswerInv'
  BY <1>5, <1>d DEF CancelJob, MarkRunning, StartEngine, StartFails, EngineEnds, Complete, Sent,
                    Store, handlers
<1>6. ASSUME NEW r \in Request, NEW c \in Client, WriteJSON(r, c) \/ WriteError(r, c)
      PROVE  AnswerInv'
  BY <1>6, <1>d DEF WriteJSON, WriteError, handlers
<1>7. ASSUME NEW c \in Client, Connect(c) \/ Disconnect(c) PROVE AnswerInv'
  BY <1>7, <1>d DEF Connect, Disconnect, handlers
<1>8. ASSUME Stop \/ Restart PROVE AnswerInv'
  BY <1>8, <1>d DEF Stop, Restart, handlers
<1>9. ASSUME Exit \/ MapRace PROVE AnswerInv'
  BY <1>9, <1>d DEF Exit, MapRace, Die
<1>10. ASSUME UNCHANGED vars PROVE AnswerInv'
  BY <1>10, <1>d DEF vars, handlers
<1> QED
  BY <1>1, <1>2, <1>3, <1>4, <1>5, <1>6, <1>7, <1>8, <1>9, <1>10 DEF Next, Execute, Write, Wait

-----------------------------------------------------------------------------
(* The stream follows the table. *)

\* What an event said stays so.
LEMMA ToldLasts ==
    ASSUME PlaceInv, TableInv, [Next]_vars, NEW r \in Request, NEW e \in Events, Told(r, e)
    PROVE  Told(r, e)'
<1>1. e.n \in Nat
  BY DEF Events
<1>2. /\ Written(r) \in Nat /\ Written(r)' \in Nat /\ Written(r) <= Written(r)'
      /\ r \in unsaved => r \in unsaved'
      /\ run[r] # "none" => run'[r] # "none" /\ (status'[r] = "pending" => status[r] = "pending")
      /\ run[r] \in {"saved", "done"} =>
            run'[r] \in {"saved", "done"} /\ (status'[r] = status[r] \/ status'[r] = "cancelled")
  BY TableMoves
<1> QED
  BY <1>1, <1>2 DEF Told

LEMMA ToldInit == Init => ToldInv
  BY DEF Init, ToldInv, Idle

LEMMA ToldStep ==
    ASSUME PlaceInv, TableInv, ToldInv, [Next]_vars
    PROVE  ToldInv'
<1> USE DEF Idle
<1>a. PlaceInv' /\ TableInv'
  BY PlaceStep, TableStep
<1>b. \A r \in Request : event[r] # None => event[r] \in Events /\ Told(r, event[r])
  BY DEF ToldInv, PlaceInv
<1>c. \A c \in Client : Watches[c] \in Request
  BY ApiServerAssumption
<1>t. wsClients \in [Request -> SUBSET Client] /\ sending \in [Request -> SUBSET Client]
  BY DEF ToldInv
<1>u. \A q \in Request : /\ \A d \in wsClients[q] : Watches[d] = q
                         /\ sending[q] \subseteq wsClients[q]
                         /\ event[q] = None => sending[q] = {}
  BY DEF ToldInv
\* What was sent, and what is being sent, stays told.
<1>h. ASSUME NEW c \in Client, NEW i \in DOMAIN got[c], NEW e, e = got[c][i]
      PROVE  Told(Watches[c], e)'
  <2>1. got[c] \in Seq(Events) /\ Told(Watches[c], e)
    BY <1>h DEF ToldInv
  <2>2. e \in Events
    BY <1>h, <2>1, ElementOfSeq, LenProperties
  <2> QED
    BY <1>c, <2>1, <2>2, ToldLasts
<1>e. ASSUME NEW q \in Request, NEW e, e = event[q], e # None PROVE Told(q, e)'
  BY <1>b, <1>e, ToldLasts
<1>d. ASSUME UNCHANGED got
      PROVE  /\ got' \in [Client -> Seq(Events)]
             /\ \A c \in Client : \A i \in DOMAIN got'[c] : Told(Watches[c], got[c][i])'
  <2>1. ASSUME NEW c \in Client, NEW i \in DOMAIN got'[c] PROVE Told(Watches[c], got[c][i])'
    <3>1. PICK e : e = got[c][i]
      OBVIOUS
    <3>2. e = got'[c][i] /\ Told(Watches[c], e)'
      BY <1>d, <1>h, <2>1, <3>1
    <3> QED
      BY <3>2 DEF Told
  <2> QED
    BY <1>d, <2>1 DEF ToldInv
\* Events that are the same are told.
<1>i. ASSUME NEW q \in Request, event'[q] = event[q], event[q] # None PROVE Told(q, event[q])'
  <2>1. PICK e : e = event[q]
    OBVIOUS
  <2>2. e = event'[q] /\ Told(q, e)'
    BY <1>e, <1>i, <2>1
  <2> QED
    BY <2>2 DEF Told
<1>f. ASSUME UNCHANGED <<wsClients, sending, event, got>> PROVE ToldInv'
  BY <1>d, <1>i, <1>f DEF ToldInv
\* A broadcast begins.
<1>g. ASSUME NEW r \in Request, NEW e \in Events, event' = Becomes(event, r, e),
             sending' = Becomes(sending, r, wsClients[r]), UNCHANGED <<wsClients, got>>,
             Told(r, e)'
      PROVE  ToldInv'
  <2>1. \A q \in Request : event'[q] = IF q = r THEN e ELSE event[q]
    BY <1>g DEF Becomes, PlaceInv
  <2>2. \A q \in Request : sending'[q] = IF q = r THEN wsClients[q] ELSE sending[q]
    BY <1>g DEF Becomes, ToldInv
  <2>3. sending' \in [Request -> SUBSET Client]
    BY <1>g DEF Becomes, ToldInv
  <2>4. ASSUME NEW q \in Request, event'[q] # None PROVE Told(q, event[q])'
    <3>1. CASE q = r
      <4>1. event'[q] = e
        BY <2>1, <3>1
      <4> QED
        BY <1>g, <3>1, <4>1 DEF Told
    <3>2. CASE q # r
      BY <1>i, <2>1, <2>4, <3>2
    <3> QED
      BY <3>1, <3>2
  <2>5. ASSUME NEW q \in Request
        PROVE  sending'[q] \subseteq wsClients[q] /\ (event'[q] = None => sending'[q] = {})
    BY <2>1, <2>2, EventsAre DEF ToldInv
  <2> QED
    BY <1>d, <1>g, <2>3, <2>4, <2>5 DEF ToldInv
<1>1. ASSUME NEW r \in Request, \/ FindLimiter(r) \/ MakeLimiter(r) \/ CreateFails(r)
                                \/ Fetch(r) \/ Poll(r) \/ Reply(r) \/ Deadline(r)
      PROVE  ToldInv'
  BY <1>1, <1>f DEF FindLimiter, MakeLimiter, CreateFails, Fetch, Poll, Reply, Deadline, stream
<1>2. ASSUME NEW r \in Request, \/ Accept(r) \/ CancelJob(r) \/ StartEngine(r) \/ StartFails(r)
                                \/ EngineEnds(r)
      PROVE  ToldInv'
  BY <1>2, <1>f DEF Accept, CancelJob, StartEngine, StartFails, EngineEnds, stream
<1>3. ASSUME NEW r \in Request, MarkRunning(r) PROVE ToldInv'
  <2>1. CASE UNCHANGED stream
    BY <1>f, <2>1 DEF stream
  <2>2. CASE ~ UNCHANGED stream
    <3>1. PICK e \in Events : e = [event |-> "started", n |-> 0]
      BY EventsAre
    <3>2. /\ run' = Becomes(run, r, "started") /\ Broadcast(r, e)
          /\ \/ status' = Becomes(status, r, "running") \/ r \in unsaved'
      BY <1>3, <2>2, <3>1 DEF MarkRunning, UpdateStatus
    <3>3. run'[r] = "started" /\ (status'[r] = "running" \/ r \in unsaved')
      BY <3>2 DEF Becomes, PlaceInv, TableInv
    <3>4. Told(r, e)'
      BY <3>1, <3>3 DEF Told
    <3> QED
      BY <1>g, <3>2, <3>4 DEF Broadcast
  <2> QED
    BY <2>1, <2>2
<1>4. ASSUME NEW r \in Request, Complete(r) PROVE ToldInv'
  <2>1. CASE UNCHANGED stream
    BY <1>f, <2>1 DEF stream
  <2>2. CASE ~ UNCHANGED stream
    <3>1. PICK e \in Events : e = [event |-> "completed", n |-> totalItems[r]]
      BY EventsAre DEF TableInv
    <3>2. /\ run' = Becomes(run, r, "saved") /\ Broadcast(r, e)
          /\ \/ status' = Becomes(status, r, "completed") \/ r \in unsaved'
      BY <1>4, <2>2, <3>1 DEF Complete, CompleteJob
    <3>3. run'[r] = "saved" /\ (status'[r] = "completed" \/ r \in unsaved')
      BY <3>2 DEF Becomes, PlaceInv, TableInv
    <3>4. Told(r, e)'
      BY <3>1, <3>3 DEF Told
    <3> QED
      BY <1>g, <3>2, <3>4 DEF Broadcast
  <2> QED
    BY <2>1, <2>2
<1>5. ASSUME NEW r \in Request, Store(r) PROVE ToldInv'
  <2>1. PICK n \in Nat : n = totalItems[r] + count[r] + 1
    BY DEF TableInv
  <2>2. PICK e \in Events : e = [event |-> "item", n |-> n]
    BY <2>1, EventsAre
  <2>3. run' = Becomes(run, r, "stored") /\ Broadcast(r, e) /\ UNCHANGED <<count, totalItems>>
    BY <1>5, <2>1, <2>2 DEF Store
  <2>4. run'[r] = "stored"
    BY <2>3 DEF Becomes, PlaceInv
  <2>5. Written(r)' = n
    BY <1>a, <2>1, <2>3, <2>4 DEF TableInv
  <2>6. Told(r, e)'
    BY <2>1, <2>2, <2>5 DEF Told
  <2> QED
    BY <1>g, <2>3, <2>6 DEF Broadcast
<1>6. ASSUME NEW r \in Request, Sent(r) PROVE ToldInv'
  <2>1. event' = Becomes(event, r, None) /\ sending[r] = {} /\ UNCHANGED <<wsClients, sending, got>>
    BY <1>6 DEF Sent
  <2>2. \A q \in Request : event'[q] = IF q = r THEN None ELSE event[q]
    BY <2>1 DEF Becomes, PlaceInv
  <2>3. ASSUME NEW q \in Request, event'[q] # None PROVE Told(q, event[q])'
    BY <1>i, <2>2, <2>3
  <2> QED
    BY <1>d, <2>1, <2>2, <2>3 DEF ToldInv
<1>7. ASSUME NEW r \in Request, NEW c \in Client, WriteJSON(r, c) PROVE ToldInv'
  <2>1. /\ c \in sending[r] /\ sending' = Becomes(sending, r, sending[r] \ {c})
        /\ got' = Becomes(got, c, Append(got[c], event[r])) /\ UNCHANGED <<wsClients, event>>
    BY <1>7 DEF WriteJSON
  <2>2. event[r] # None /\ Watches[c] = r
    BY <2>1 DEF ToldInv
  <2>3. PICK e \in Events : e = event[r] /\ Told(r, e)
    BY <1>b, <2>2
  <2>4. /\ sending' \in [Request -> SUBSET Client]
        /\ \A q \in Request : sending'[q] \subseteq sending[q]
    BY <2>1 DEF Becomes, ToldInv
  <2>5. /\ got[c] \in Seq(Events) /\ Append(got[c], e) \in Seq(Events)
        /\ DOMAIN got[c] = 1 .. Len(got[c]) /\ Len(got[c]) \in Nat
        /\ DOMAIN Append(got[c], e) = 1 .. Len(got[c]) + 1
        /\ \A i \in 1 .. Len(got[c]) : Append(got[c], e)[i] = got[c][i]
        /\ Append(got[c], e)[Len(got[c]) + 1] = e
    <3>1. got[c] \in Seq(Events)
      BY DEF ToldInv
    <3> QED
      BY <3>1, AppendProperties, LenProperties
  <2>6. /\ got' \in [Client -> Seq(Events)]
        /\ \A d \in Client : got'[d] = IF d = c THEN Append(got[c], e) ELSE got[d]
    BY <2>1, <2>3, <2>5 DEF Becomes, ToldInv
  <2>8. Told(r, e)'
    BY <2>3, ToldLasts
  <2>9. ASSUME NEW d \in Client, NEW i \in DOMAIN got'[d] PROVE Told(Watches[d], got[d][i])'
    <3>1. PICK f : f = got'[d][i]
      OBVIOUS
    <3>2. (f = e /\ Watches[d] = r) \/ (i \in DOMAIN got[d] /\ f = got[d][i])
      <4>1. CASE d = c
        <5>1. PICK n \in Nat : n = Len(got[c])
          BY <2>5
        <5>2. i \in 1 .. n + 1 /\ f = Append(got[c], e)[i]
          <6>1. got'[d] = Append(got[c], e)
            BY <2>6, <4>1
          <6> QED
            BY <2>5, <2>9, <3>1, <5>1, <6>1
        <5>3. i \in 1 .. n \/ i = n + 1
          BY <5>1, <5>2
        <5>4. CASE i \in 1 .. n
          <6>1. i \in DOMAIN got[c] /\ Append(got[c], e)[i] = got[c][i]
            BY <2>5, <5>1, <5>4
          <6> QED
            BY <4>1, <5>2, <6>1
        <5>5. CASE i = n + 1
          <6>1. Append(got[c], e)[i] = e
            BY <2>5, <5>1, <5>5
          <6> QED
            BY <2>2, <4>1, <5>2, <6>1
        <5> QED
          BY <5>3, <5>4, <5>5
      <4>2. CASE d # c
        BY <2>6, <2>9, <3>1, <4>2
      <4> QED
        BY <4>1, <4>2
    <3>3. Told(Watches[d], f)'
      BY <1>h, <2>8, <3>2
    <3> QED
      BY <3>1, <3>3 DEF Told
  <2>a. \A q \in Request : event'[q] # None => Told(q, event[q])'
    BY <1>i, <2>1
  <2> QED
    BY <2>1, <2>4, <2>6, <2>9, <2>a DEF ToldInv
<1>8. ASSUME NEW r \in Request, NEW c \in Client, WriteError(r, c) PROVE ToldInv'
  <2>1. /\ sending' = Becomes(sending, r, sending[r] \ {c})
        /\ wsClients' = Becomes(wsClients, r, wsClients[r] \ {c}) /\ UNCHANGED <<event, got>>
    BY <1>8 DEF WriteError
  <2>2. /\ wsClients' \in [Request -> SUBSET Client] /\ sending' \in [Request -> SUBSET Client]
        /\ \A q \in Request :
              /\ wsClients'[q] = IF q = r THEN wsClients[q] \ {c} ELSE wsClients[q]
              /\ sending'[q] = IF q = r THEN sending[q] \ {c} ELSE sending[q]
    BY <2>1, <1>t DEF Becomes
  <2>3. \A q \in Request :
           /\ \A d \in wsClients'[q] : Watches[d] = q
           /\ sending'[q] \subseteq wsClients'[q]
           /\ event'[q] = None => sending'[q] = {}
    BY <1>u, <2>1, <2>2
  <2>4. \A q \in Request : event'[q] # None => Told(q, event[q])'
    BY <1>i, <2>1
  <2> QED
    <3>1. /\ got' \in [Client -> Seq(Events)]
          /\ \A d \in Client : \A i \in DOMAIN got'[d] : Told(Watches[d], got[d][i])'
      BY <1>d, <2>1, <2>2
    <3> QED
      BY <3>1, <2>1, <2>2, <2>3, <2>4 DEF ToldInv
<1>9. ASSUME NEW c \in Client, Connect(c) PROVE ToldInv'
  <2>1. PICK r \in Request : r = Watches[c]
    BY <1>c
  <2>2. /\ wsClients' = Becomes(wsClients, r, wsClients[r] \cup {c}) /\ UNCHANGED <<event, got>>
        /\ \/ event[r] = None /\ UNCHANGED sending
           \/ /\ event[r] # None
              /\ \E seen \in SUBSET {c} : sending' = Becomes(sending, r, sending[r] \cup seen)
    BY <1>9, <2>1 DEF Connect
  <2>3. /\ wsClients' \in [Request -> SUBSET Client] /\ sending' \in [Request -> SUBSET Client]
        /\ \A q \in Request :
              /\ wsClients'[q] = IF q = r THEN wsClients[q] \cup {c} ELSE wsClients[q]
              /\ \/ sending'[q] = sending[q]
                 \/ q = r /\ event[q] # None /\ sending'[q] \subseteq sending[q] \cup {c}
    BY <2>2, <1>t DEF Becomes
  <2>4. \A q \in Request :
           /\ \A d \in wsClients'[q] : Watches[d] = q
           /\ sending'[q] \subseteq wsClients'[q]
           /\ event'[q] = None => sending'[q] = {}
    <3> SUFFICES ASSUME NEW q \in Request
                 PROVE  /\ \A d \in wsClients'[q] : Watches[d] = q
                        /\ sending'[q] \subseteq wsClients'[q]
                        /\ event'[q] = None => sending'[q] = {}
      OBVIOUS
    <3>1. CASE q = r
      <4>1. /\ wsClients'[q] = wsClients[q] \cup {c} /\ Watches[c] = q /\ event'[q] = event[q]
            /\ \/ sending'[q] = sending[q]
               \/ event[q] # None /\ sending'[q] \subseteq sending[q] \cup {c}
        BY <2>1, <2>2, <2>3, <3>1
      <4>2. /\ \A d \in wsClients[q] : Watches[d] = q
            /\ sending[q] \subseteq wsClients[q]
            /\ event[q] = None => sending[q] = {}
        BY <1>u
      <4> QED
        BY <4>1, <4>2
    <3>2. CASE q # r
      <4>1. wsClients'[q] = wsClients[q] /\ event'[q] = event[q] /\ sending'[q] = sending[q]
        BY <2>2, <2>3, <3>2
      <4> QED
        BY <1>u, <4>1
    <3> QED
      BY <3>1, <3>2
  <2>5. \A q \in Request : event'[q] # None => Told(q, event[q])'
    BY <1>i, <2>2
  <2> QED
    <3>1. /\ got' \in [Client -> Seq(Events)]
          /\ \A d \in Client : \A i \in DOMAIN got'[d] : Told(Watches[d], got[d][i])'
      BY <1>d, <2>1, <2>2
    <3> QED
      BY <3>1, <2>2, <2>3, <2>4, <2>5 DEF ToldInv
<1>10. ASSUME NEW c \in Client, Disconnect(c) PROVE ToldInv'
  <2>1. PICK r \in Request : r = Watches[c]
    BY <1>c
  <2>2. /\ sending' = Becomes(sending, r, sending[r] \ {c})
        /\ wsClients' = Becomes(wsClients, r, wsClients[r] \ {c}) /\ UNCHANGED <<event, got>>
    BY <1>10, <2>1 DEF Disconnect
  <2>3. /\ wsClients' \in [Request -> SUBSET Client] /\ sending' \in [Request -> SUBSET Client]
        /\ \A q \in Request :
              /\ wsClients'[q] = IF q = r THEN wsClients[q] \ {c} ELSE wsClients[q]
              /\ sending'[q] = IF q = r THEN sending[q] \ {c} ELSE sending[q]
    BY <2>2, <1>t DEF Becomes
  <2>4. \A q \in Request :
           /\ \A d \in wsClients'[q] : Watches[d] = q
           /\ sending'[q] \subseteq wsClients'[q]
           /\ event'[q] = None => sending'[q] = {}
    BY <1>u, <2>2, <2>3
  <2>5. \A q \in Request : event'[q] # None => Told(q, event[q])'
    BY <1>i, <2>2
  <2> QED
    <3>1. /\ got' \in [Client -> Seq(Events)]
          /\ \A d \in Client : \A i \in DOMAIN got'[d] : Told(Watches[d], got[d][i])'
      BY <1>d, <2>1, <2>2
    <3> QED
      BY <3>1, <2>2, <2>3, <2>4, <2>5 DEF ToldInv
<1>11. ASSUME Stop \/ Restart PROVE ToldInv'
  BY <1>11, <1>f DEF Stop, Restart, stream
<1>12. ASSUME Exit \/ MapRace PROVE ToldInv'
  <2>1. /\ wsClients' = [r \in Request |-> {}] /\ sending' = [r \in Request |-> {}]
        /\ event' = [r \in Request |-> None] /\ UNCHANGED got
    BY <1>12 DEF Exit, MapRace, Die
  <2> QED
    BY <1>d, <2>1 DEF ToldInv
<1>13. ASSUME UNCHANGED vars PROVE ToldInv'
  BY <1>13, <1>f DEF vars, stream
<1> QED
  BY <1>1, <1>2, <1>3, <1>4, <1>5, <1>6, <1>7, <1>8, <1>9, <1>10, <1>11, <1>12, <1>13
     DEF Next, Execute, Write, Wait

-----------------------------------------------------------------------------
(* The stream has no gap. *)

LEMMA GapInit == Init => GapInv
  BY ApiServerAssumption DEF Init, GapInv, Fits, Idle

LEMMA GapStep ==
    ASSUME PlaceInv, TableInv, ToldInv, GapInv, [Next]_vars
    PROVE  GapInv'
<1> USE DEF Idle
<1>t. /\ wsClients \in [Request -> SUBSET Client] /\ sending \in [Request -> SUBSET Client]
      /\ got \in [Client -> Seq(Events)] /\ event \in [Request -> Events \cup {None}]
      /\ events \in [Request -> Seq(Events)] /\ since \in [Client -> Nat]
  BY DEF ToldInv, PlaceInv, GapInv
<1>u. \A q \in Request : /\ \A d \in wsClients[q] : Watches[d] = q
                         /\ sending[q] \subseteq wsClients[q]
                         /\ event[q] = None => sending[q] = {}
  BY DEF ToldInv
<1>v. /\ \A c \in Client : Watches[c] \in Request /\ got[c] \in Seq(Events) /\ Len(got[c]) \in Nat
                          /\ since[c] \in Nat /\ Fits(c)
      /\ \A r \in Request : events[r] \in Seq(Events) /\ Len(events[r]) \in Nat
      /\ \A r \in Request :
            event[r] # None => Len(events[r]) > 0 /\ events[r][Len(events[r])] = event[r]
  BY <1>t, ApiServerAssumption, LenProperties DEF GapInv
\* A client whose job is not broadcasting, and that is not registered anew.
<1>a. ASSUME NEW c \in Client, NEW r \in Request, r = Watches[c],
             events'[r] = events[r], got'[c] = got[c], since'[c] = since[c],
             c \in wsClients'[r] => c \in wsClients[r] /\ (c \in sending'[r] <=> c \in sending[r])
      PROVE  Fits(c)'
  <2>1. CASE since[c] = 0
    BY <1>a, <1>v, <2>1 DEF Fits
  <2>2. CASE since[c] # 0
    <3>1. PICK from \in Nat : Stretch(c, from)
      BY <1>v, <2>2 DEF Fits
    <3>2. Stretch(c, from)'
      BY <1>a, <3>1 DEF Stretch, Unsent
    <3> QED
      BY <1>a, <2>2, <3>2 DEF Fits
  <2> QED
    BY <2>1, <2>2
<1>b. ASSUME UNCHANGED <<events, since, event, got, wsClients, sending>> PROVE GapInv'
  <2>1. \A c \in Client : Fits(c)'
    BY <1>a, <1>b, <1>v
  <2> QED
    BY <1>b, <1>t, <1>v, <2>1 DEF GapInv
\* Clients leave the registry, and events end.
<1>c. ASSUME UNCHANGED <<events, since, got>>,
             \A q \in Request : event'[q] # None => event'[q] = event[q],
             \A q \in Request : \A c \in wsClients'[q] :
                c \in wsClients[q] /\ (c \in sending'[q] <=> c \in sending[q])
      PROVE  GapInv'
  <2>1. \A c \in Client : Fits(c)'
    BY <1>a, <1>c, <1>v
  <2> QED
    BY <1>c, <1>t, <1>v, <2>1 DEF GapInv
\* A broadcast begins.
<1>d. ASSUME NEW r \in Request, NEW e \in Events, event[r] = None, event' = Becomes(event, r, e),
             events' = Becomes(events, r, Append(events[r], e)),
             sending' = Becomes(sending, r, wsClients[r]), UNCHANGED <<wsClients, got, since>>
      PROVE  GapInv'
  <2>1. PICK n \in Nat : n = Len(events[r])
    BY <1>v
  <2>2. /\ Append(events[r], e) \in Seq(Events) /\ Len(Append(events[r], e)) = n + 1
        /\ \A i \in 1 .. n : Append(events[r], e)[i] = events[r][i]
        /\ Append(events[r], e)[n + 1] = e
    BY <1>v, <2>1, AppendProperties
  <2>3. /\ events' \in [Request -> Seq(Events)]
        /\ events'[r] = Append(events[r], e) /\ event'[r] = e /\ sending'[r] = wsClients[r]
        /\ \A q \in Request : q # r => events'[q] = events[q] /\ event'[q] = event[q]
                                      /\ sending'[q] = sending[q]
    BY <1>d, <1>t, <2>2 DEF Becomes
  <2>4. ASSUME NEW c \in Client, Watches[c] # r PROVE Fits(c)'
    BY <1>a, <1>d, <1>v, <2>3, <2>4
  <2>5. ASSUME NEW c \in Client, Watches[c] = r PROVE Fits(c)'
    <3>1. CASE since[c] = 0
      BY <1>d, <1>v, <2>5, <3>1 DEF Fits
    <3>2. CASE since[c] # 0
      <4>1. PICK from \in Nat : Stretch(c, from)
        BY <1>v, <3>2 DEF Fits
      <4>2. PICK g \in Nat : g = Len(got[c])
        BY <1>v
      <4>3. /\ from > 0 /\ (from = since[c] - 1 \/ from = since[c]) /\ from + g <= n + 1
            /\ \A i \in 1 .. g : got[c][i] = events[r][from + i - 1]
            /\ c \in wsClients[r] => from + g = n + 1
        <5>1. c \notin sending[r] /\ Unsent(c) = 0
          BY <1>d, <1>u, <2>5 DEF Unsent
        <5>2. /\ from > 0 /\ (from = since[c] - 1 \/ from = since[c]) /\ from + g <= n + 1
              /\ c \in wsClients[r] => from + g + 0 = n + 1
          BY <2>1, <2>5, <4>1, <4>2, <5>1 DEF Stretch
        <5>3. \A i \in 1 .. g : got[c][i] = events[r][from + i - 1]
          BY <2>5, <4>1, <4>2 DEF Stretch
        <5> QED
          BY <5>2, <5>3
      <4>4. from + g <= (n + 1) + 1 /\ (c \in wsClients[r] => from + g + 1 = (n + 1) + 1)
        BY <4>3
      <4>5. ASSUME NEW i \in 1 .. g PROVE got[c][i] = events'[r][from + i - 1]
        <5>1. from + i - 1 \in 1 .. n
          BY <4>3
        <5> QED
          BY <2>2, <2>3, <4>3, <5>1
      <4>6. Len(events'[r]) = n + 1 /\ since'[c] = since[c] /\ got'[c] = got[c]
            /\ (c \in wsClients'[r] <=> c \in wsClients[r])
            /\ (c \in sending'[r] <=> c \in wsClients[r])
        BY <1>d, <2>2, <2>3
      <4>7. Stretch(c, from)'
        BY <2>5, <4>2, <4>3, <4>4, <4>5, <4>6 DEF Stretch, Unsent
      <4> QED
        BY <3>2, <4>6, <4>7 DEF Fits
    <3> QED
      BY <3>1, <3>2
  <2>6. \A q \in Request :
           event'[q] # None => Len(events'[q]) > 0 /\ events'[q][Len(events'[q])] = event'[q]
    BY <1>v, <2>2, <2>3
  <2> QED
    BY <1>d, <1>t, <2>3, <2>4, <2>5, <2>6 DEF GapInv
<1>1. ASSUME NEW r \in Request, \/ FindLimiter(r) \/ MakeLimiter(r) \/ CreateFails(r)
                                \/ Fetch(r) \/ Poll(r) \/ Reply(r) \/ Deadline(r)
      PROVE  GapInv'
  BY <1>1, <1>b DEF FindLimiter, MakeLimiter, CreateFails, Fetch, Poll, Reply, Deadline, stream
<1>2. ASSUME NEW r \in Request, \/ Accept(r) \/ CancelJob(r) \/ StartEngine(r) \/ StartFails(r)
                                \/ EngineEnds(r)
      PROVE  GapInv'
  BY <1>2, <1>b DEF Accept, CancelJob, StartEngine, StartFails, EngineEnds, stream
<1>3. ASSUME NEW r \in Request, MarkRunning(r) PROVE GapInv'
  <2>1. CASE UNCHANGED stream
    BY <1>b, <2>1 DEF stream
  <2>2. CASE ~ UNCHANGED stream
    <3>1. PICK e \in Events : e = [event |-> "started", n |-> 0]
      BY EventsAre
    <3>2. Broadcast(r, e) /\ event[r] = None
      BY <1>3, <2>2, <3>1 DEF MarkRunning, PlaceInv
    <3> QED
      BY <1>d, <3>2 DEF Broadcast
  <2> QED
    BY <2>1, <2>2
<1>4. ASSUME NEW r \in Request, Complete(r) PROVE GapInv'
  <2>1. CASE UNCHANGED stream
    BY <1>b, <2>1 DEF stream
  <2>2. CASE ~ UNCHANGED stream
    <3>1. PICK e \in Events : e = [event |-> "completed", n |-> totalItems[r]]
      BY EventsAre DEF TableInv
    <3>2. Broadcast(r, e) /\ event[r] = None
      BY <1>4, <2>2, <3>1 DEF Complete, Ended, PlaceInv
    <3> QED
      BY <1>d, <3>2 DEF Broadcast
  <2> QED
    BY <2>1, <2>2
<1>5. ASSUME NEW r \in Request, Store(r) PROVE GapInv'
  <2>1. PICK n \in Nat : n = totalItems[r] + count[r] + 1
    BY DEF TableInv
  <2>2. PICK e \in Events : e = [event |-> "item", n |-> n]
    BY <2>1, EventsAre
  <2>3. Broadcast(r, e) /\ event[r] = None
    BY <1>5, <2>1, <2>2 DEF Store, PlaceInv
  <2> QED
    BY <1>d, <2>3 DEF Broadcast
<1>6. ASSUME NEW r \in Request, Sent(r) PROVE GapInv'
  <2>1. event' = Becomes(event, r, None) /\ UNCHANGED <<wsClients, sending, got, events, since>>
    BY <1>6 DEF Sent
  <2>2. \A q \in Request : event'[q] # None => event'[q] = event[q]
    BY <2>1, <1>t DEF Becomes
  <2> QED
    BY <1>c, <2>1, <2>2
<1>7. ASSUME NEW r \in Request, NEW c \in Client, WriteJSON(r, c) PROVE GapInv'
  <2>1. /\ c \in sending[r] /\ sending' = Becomes(sending, r, sending[r] \ {c})
        /\ got' = Becomes(got, c, Append(got[c], event[r]))
        /\ UNCHANGED <<wsClients, event, events, since>>
    BY <1>7 DEF WriteJSON
  <2>2. event[r] # None /\ Watches[c] = r /\ c \in wsClients[r]
    BY <1>u, <2>1
  <2>3. /\ \A q \in Request : sending'[q] = IF q = r THEN sending[q] \ {c} ELSE sending[q]
        /\ got'[c] = Append(got[c], event[r]) /\ \A d \in Client : d # c => got'[d] = got[d]
    BY <1>t, <2>1 DEF Becomes
  <2>4. ASSUME NEW d \in Client, d # c PROVE Fits(d)'
    BY <1>a, <1>v, <2>1, <2>3, <2>4
  <2>5. Fits(c)'
    <3>1. PICK from \in Nat : Stretch(c, from) /\ since[c] # 0
      BY <1>v, <2>2 DEF Fits
    <3>2. PICK g \in Nat, n \in Nat, e \in Events :
             /\ g = Len(got[c]) /\ n = Len(events[r]) /\ e = event[r]
             /\ n > 0 /\ events[r][n] = e
      BY <1>t, <1>v, <2>2
    <3>3. /\ from > 0 /\ (from = since[c] - 1 \/ from = since[c])
          /\ \A i \in 1 .. g : got[c][i] = events[r][from + i - 1]
          /\ from + g + 1 = n + 1
      BY <2>1, <2>2, <3>1, <3>2 DEF Stretch, Unsent
    <3>4. /\ Len(got'[c]) = g + 1 /\ got'[c][g + 1] = e
          /\ \A i \in 1 .. g : got'[c][i] = got[c][i]
      BY <1>v, <2>3, <3>2, AppendProperties
    <3>5. ASSUME NEW i \in 1 .. g + 1 PROVE got'[c][i] = events[r][from + i - 1]
      <4>1. CASE i \in 1 .. g
        BY <3>3, <3>4, <4>1
      <4>2. CASE i = g + 1
        <5>1. from + i - 1 = n
          BY <3>3, <4>2
        <5> QED
          BY <3>2, <3>4, <4>2, <5>1
      <4> QED
        BY <4>1, <4>2
    <3>6. from + (g + 1) <= n + 1 /\ from + (g + 1) + 0 = n + 1
      BY <3>3
    <3>7. c \notin sending'[r] /\ events'[r] = events[r] /\ since'[c] = since[c]
      BY <2>1, <2>3
    <3>8. Stretch(c, from)'
      BY <2>2, <3>2, <3>3, <3>4, <3>5, <3>6, <3>7 DEF Stretch, Unsent
    <3> QED
      BY <3>1, <3>7, <3>8 DEF Fits
  <2> QED
    BY <1>t, <1>v, <2>1, <2>4, <2>5 DEF GapInv
<1>8. ASSUME NEW r \in Request, NEW c \in Client, WriteError(r, c) PROVE GapInv'
  <2>1. /\ sending' = Becomes(sending, r, sending[r] \ {c})
        /\ wsClients' = Becomes(wsClients, r, wsClients[r] \ {c})
        /\ UNCHANGED <<event, got, events, since>>
    BY <1>8 DEF WriteError
  <2>2. \A q \in Request : \A d \in wsClients'[q] :
           d \in wsClients[q] /\ (d \in sending'[q] <=> d \in sending[q])
    BY <1>t, <2>1 DEF Becomes
  <2> QED
    BY <1>c, <2>1, <2>2
<1>9. ASSUME NEW c \in Client, Connect(c) PROVE GapInv'
  <2>1. PICK r \in Request : r = Watches[c]
    BY <1>v
  <2>2. PICK n \in Nat : n = Len(events[r])
    BY <1>v
  <2>3. /\ c \notin wsClients[r] /\ since[c] = 0
        /\ wsClients' = Becomes(wsClients, r, wsClients[r] \cup {c})
        /\ since' = Becomes(since, c, n + 1) /\ UNCHANGED <<event, got, events>>
        /\ \/ UNCHANGED sending
           \/ event[r] # None /\ sending' = Becomes(sending, r, sending[r] \cup {c})
    <3>1. /\ c \notin wsClients[r] /\ since[c] = 0
          /\ wsClients' = Becomes(wsClients, r, wsClients[r] \cup {c})
          /\ since' = Becomes(since, c, n + 1) /\ UNCHANGED <<event, got, events>>
          /\ \/ UNCHANGED sending
             \/ /\ event[r] # None
                /\ \E seen \in SUBSET {c} : sending' = Becomes(sending, r, sending[r] \cup seen)
      BY <1>9, <2>1, <2>2 DEF Connect
    <3>2. ASSUME NEW seen \in SUBSET {c}, sending' = Becomes(sending, r, sending[r] \cup seen)
          PROVE  UNCHANGED sending \/ sending' = Becomes(sending, r, sending[r] \cup {c})
      <4>1. CASE seen = {c}
        BY <3>2, <4>1
      <4>2. CASE seen = {}
        <5>1. sending[r] \cup seen = sending[r]
          BY <4>2
        <5> QED
          BY <1>t, <3>2, <5>1 DEF Becomes
      <4> QED
        BY <4>1, <4>2
    <3> QED
      BY <3>1, <3>2
  <2>4. /\ since' \in [Client -> Nat] /\ since'[c] = n + 1 /\ c \in wsClients'[r]
        /\ \A d \in Client : d # c => since'[d] = since[d]
        /\ \A q \in Request : \A d \in Client : d # c =>
              /\ (d \in wsClients'[q] <=> d \in wsClients[q])
              /\ (d \in sending'[q] <=> d \in sending[q])
    BY <1>t, <2>3 DEF Becomes
  <2>5. ASSUME NEW d \in Client, d # c PROVE Fits(d)'
    BY <1>a, <1>v, <2>3, <2>4, <2>5
  <2>6. Fits(c)'
    <3>1. got'[c] = <<>> /\ Len(got'[c]) = 0
      BY <1>v, <2>3 DEF Fits
    <3>2. c \notin sending[r]
      BY <1>u, <2>3
    <3>3. CASE c \notin sending'[r]
      <4>1. Stretch(c, n + 1)'
        BY <2>1, <2>2, <2>3, <2>4, <3>1, <3>3 DEF Stretch, Unsent
      <4> QED
        BY <2>4, <4>1 DEF Fits
    <3>4. CASE c \in sending'[r]
      <4>1. event[r] # None
        BY <2>3, <3>2, <3>4
      <4>2. n > 0
        BY <1>v, <2>2, <4>1
      <4>3. Stretch(c, n)'
        BY <2>1, <2>2, <2>3, <2>4, <3>1, <3>4, <4>2 DEF Stretch, Unsent
      <4> QED
        BY <2>4, <4>3 DEF Fits
    <3> QED
      BY <3>3, <3>4
  <2> QED
    BY <1>t, <1>v, <2>3, <2>4, <2>5, <2>6 DEF GapInv
<1>10. ASSUME NEW c \in Client, Disconnect(c) PROVE GapInv'
  <2>1. PICK r \in Request : r = Watches[c]
    BY <1>v
  <2>2. /\ sending' = Becomes(sending, r, sending[r] \ {c})
        /\ wsClients' = Becomes(wsClients, r, wsClients[r] \ {c})
        /\ UNCHANGED <<event, got, events, since>>
    BY <1>10, <2>1 DEF Disconnect
  <2>3. \A q \in Request : \A d \in wsClients'[q] :
           d \in wsClients[q] /\ (d \in sending'[q] <=> d \in sending[q])
    BY <1>t, <2>2 DEF Becomes
  <2> QED
    BY <1>c, <2>2, <2>3
<1>11. ASSUME Stop \/ Restart PROVE GapInv'
  BY <1>11, <1>b DEF Stop, Restart, stream
<1>12. ASSUME Exit \/ MapRace PROVE GapInv'
  <2>1. /\ wsClients' = [r \in Request |-> {}] /\ event' = [r \in Request |-> None]
        /\ UNCHANGED <<got, events, since>>
    BY <1>12 DEF Exit, MapRace, Die
  <2> QED
    BY <1>c, <2>1
<1>13. ASSUME UNCHANGED vars PROVE GapInv'
  BY <1>13, <1>b DEF vars, stream
<1> QED
  BY <1>1, <1>2, <1>3, <1>4, <1>5, <1>6, <1>7, <1>8, <1>9, <1>10, <1>11, <1>12, <1>13
     DEF Next, Execute, Write, Wait

-----------------------------------------------------------------------------
(* The rate limit. *)

LEMMA Multiples ==
    ASSUME NEW b \in Nat, NEW m \in Nat
    PROVE  /\ b * m \in Nat /\ b * (m + 1) = b * m + b
           /\ \A p \in Nat : m <= p => b * m <= b * p
<1>1. b * m \in Nat /\ b * (m + 1) = b * m + b
  OBVIOUS
<1>2. ASSUME NEW p \in Nat, m <= p PROVE b * m <= b * p
  <2>1. PICK d \in Nat : p = m + d
    <3>1. p - m \in Nat /\ p = m + (p - m)
      BY <1>2
    <3> QED
      BY <3>1
  <2>2. b * d \in Nat /\ b * m \in Nat /\ b * p = b * m + b * d
    BY <2>1
  <2> QED
    BY <2>2
<1> QED
  BY <1>1, <1>2

\* The larger of one and a number.
LEMMA AtLeast ==
    ASSUME NEW p \in Nat
    PROVE  Max({1, p}) \in Nat /\ p <= Max({1, p}) /\ (p > 0 => Max({1, p}) = p)
<1>1. \E x \in {1, p} : \A y \in {1, p} : x >= y
  OBVIOUS
<1>2. Max({1, p}) \in {1, p} /\ \A y \in {1, p} : Max({1, p}) >= y
  BY <1>1 DEF Max
<1> QED
  BY <1>2

LEMMA LimitInit == Init => LimitInv
<1> SUFFICES ASSUME Init PROVE LimitInv
  OBVIOUS
<1>1. \A k \in Key : Missed(k) = {}
  BY DEF Init, Missed
<1>2. IsFiniteSet({}) /\ Cardinality({}) = 0
  BY FS_EmptySet
<1>3. /\ limiters = [k \in Key |-> None] /\ tokens = [r \in Request |-> 0]
      /\ admitted = [k \in Key |-> 0] /\ peak = [k \in Key |-> 0]
  BY DEF Init
<1>4. \A k \in Key : Within(k)
  BY <1>1, <1>2, <1>3 DEF Within
<1> QED
  BY <1>3, <1>4 DEF LimitInv

LEMMA LimitStep ==
    ASSUME PlaceInv, LimitInv, [Next]_vars
    PROVE  LimitInv'
<1>t. /\ limiters \in [Key -> Request \cup {None}] /\ tokens \in [Request -> Nat]
      /\ admitted \in [Key -> Nat] /\ peak \in [Key -> Nat]
      /\ \A k \in Key : Within(k) /\ IsFiniteSet(Missed(k)) /\ Cardinality(Missed(k)) \in Nat
      /\ \A r \in Request : KeyOf[r] \in Key
      /\ Burst \in Nat \ {0} /\ None \notin Request
  BY FS_CardinalityType, ApiServerAssumption DEF LimitInv, Within, Key
<1>p. at \in [Request -> {"new", "missed", "limited", "waiting", "read", "replied", "cut",
                          "refused", "gone"}]
  BY DEF PlaceInv
\* A key that is left alone.
<1>a. ASSUME NEW k \in Key, Missed(k)' = Missed(k), limiters'[k] = limiters[k],
             admitted'[k] = admitted[k], peak'[k] = peak[k],
             limiters[k] # None => tokens'[limiters[k]] = tokens[limiters[k]]
      PROVE  Within(k)'
  BY <1>a, <1>t DEF Within
<1>b. ASSUME NEW r \in Request, NEW s, s # "missed", at[r] # "missed", at' = Becomes(at, r, s),
             NEW k \in Key
      PROVE  Missed(k)' = Missed(k)
  BY <1>b, <1>p DEF Missed, Becomes
<1>c. ASSUME UNCHANGED limits,
             UNCHANGED at \/ \E r \in Request,
                                s \in {"waiting", "replied", "cut", "read", "refused"} :
                                at[r] # "missed" /\ at' = Becomes(at, r, s)
      PROVE  LimitInv'
  <2>1. \A k \in Key : Missed(k)' = Missed(k)
    <3>1. CASE UNCHANGED at
      BY <3>1 DEF Missed
    <3>2. CASE \E r \in Request, s \in {"waiting", "replied", "cut", "read", "refused"} :
                  at[r] # "missed" /\ at' = Becomes(at, r, s)
      BY <1>b, <3>2
    <3> QED
      BY <1>c, <3>1, <3>2
  <2>2. \A k \in Key : Within(k)'
    BY <1>a, <1>c, <2>1 DEF limits
  <2> QED
    BY <1>c, <1>t, <2>2 DEF LimitInv, limits
\* A request passes by the limiter it found, or is refused.
<1>d. ASSUME NEW r \in Request, at[r] = "new", limiters[KeyOf[r]] # None,
             Allow(r, limiters[KeyOf[r]]), UNCHANGED <<limiters, peak>>
      PROVE  LimitInv'
  <2>1. PICK K \in Key : K = KeyOf[r]
    BY <1>t
  <2>2. PICK l \in Request : l = limiters[K]
    BY <1>d, <1>t, <2>1
  <2>3. KeyOf[l] = K
    BY <1>d, <1>t, <2>1, <2>2 DEF Within
  <2>4. \A k \in Key : Missed(k)' = Missed(k)
    <3>1. \E s \in {"limited", "refused"} : at' = Becomes(at, r, s)
      BY <1>d DEF Allow
    <3> QED
      BY <1>b, <1>d, <3>1
  <2>5. CASE tokens[l] > 0
    <3>1. PICK m \in Nat, a \in Nat : m + 1 = tokens[l] /\ a = admitted[K]
      <4>1. tokens[l] - 1 \in Nat /\ (tokens[l] - 1) + 1 = tokens[l]
        BY <1>t, <2>5
      <4> QED
        BY <1>t, <4>1
    <3>2. /\ tokens' = Becomes(tokens, l, tokens[l] - 1)
          /\ admitted' = Becomes(admitted, K, admitted[K] + 1)
      BY <1>d, <2>1, <2>2, <2>5 DEF Allow
    <3>3. tokens[l] - 1 = m /\ admitted[K] + 1 = a + 1
      BY <3>1
    <3>4. /\ tokens' \in [Request -> Nat] /\ admitted' \in [Key -> Nat]
          /\ tokens'[l] = m /\ admitted'[K] = a + 1
          /\ \A q \in Request : q # l => tokens'[q] = tokens[q]
          /\ \A k \in Key : k # K => admitted'[k] = admitted[k]
      BY <1>t, <3>1, <3>2, <3>3 DEF Becomes
    <3>5. Within(K)'
      <4>1. PICK c, x, y : c = Missed(K) /\ x = Burst * Cardinality(c) /\ y = Burst * peak[K]
        OBVIOUS
      <4>2. x \in Nat /\ y \in Nat
        BY <1>t, <4>1, Multiples
      <4>3. a + (m + 1) + x <= y
        BY <1>d, <1>t, <2>1, <2>2, <3>1, <4>1 DEF Within
      <4>4. (a + 1) + m + x <= y
        BY <3>1, <4>2, <4>3
      <4>5. Missed(K)' = c /\ limiters'[K] = l /\ peak'[K] = peak[K] /\ l # None
        BY <1>d, <1>t, <2>2, <2>4, <4>1
      <4> QED
        BY <1>t, <2>3, <3>4, <4>1, <4>4, <4>5 DEF Within
    <3>6. ASSUME NEW k \in Key, k # K PROVE Within(k)'
      <4>1. limiters[k] # None => limiters[k] \in Request /\ limiters[k] # l
        BY <1>t, <2>3, <3>6 DEF Within
      <4> QED
        BY <1>a, <1>d, <2>4, <3>4, <3>6, <4>1
    <3> QED
      BY <1>d, <1>t, <3>4, <3>5, <3>6 DEF LimitInv
  <2>6. CASE ~(tokens[l] > 0)
    <3>1. UNCHANGED <<tokens, admitted>>
      BY <1>d, <2>1, <2>2, <2>6 DEF Allow
    <3>2. \A k \in Key : Within(k)'
      BY <1>a, <1>d, <2>4, <3>1
    <3> QED
      BY <1>d, <1>t, <3>1, <3>2 DEF LimitInv
  <2> QED
    BY <2>5, <2>6
\* A request finds no limiter.
<1>e. ASSUME NEW r \in Request, at[r] = "new", limiters[KeyOf[r]] = None,
             at' = Becomes(at, r, "missed"),
             peak' = Becomes(peak, KeyOf[r],
                             Max({peak[KeyOf[r]], 1 + Cardinality(Missed(KeyOf[r]))})),
             UNCHANGED <<tokens, admitted, limiters>>
      PROVE  LimitInv'
  <2>1. PICK K \in Key : K = KeyOf[r]
    BY <1>t
  <2>2. PICK c \in Nat, p \in Nat : c = Cardinality(Missed(K)) /\ p = peak[K]
    BY <1>t
  <2>3. Missed(K)' = Missed(K) \cup {r} /\ r \notin Missed(K)
    BY <1>e, <1>p, <2>1 DEF Missed, Becomes
  <2>4. IsFiniteSet(Missed(K)') /\ Cardinality(Missed(K)') = c + 1
    BY <1>t, <2>2, <2>3, FS_AddElement
  <2>5. PICK m : m = Max({p, 1 + c})
    OBVIOUS
  <2>6. m \in Nat /\ 1 + c <= m
    <3>1. \E x \in {p, 1 + c} : \A y \in {p, 1 + c} : x >= y
      BY <2>2
    <3>2. m \in {p, 1 + c} /\ \A y \in {p, 1 + c} : m >= y
      BY <2>5, <3>1 DEF Max
    <3> QED
      BY <2>2, <3>2
  <2>7. peak' = Becomes(peak, K, m)
    BY <1>e, <2>1, <2>2, <2>5
  <2>8. peak' \in [Key -> Nat] /\ peak'[K] = m /\ \A k \in Key : k # K => peak'[k] = peak[k]
    BY <1>t, <2>6, <2>7 DEF Becomes
  <2>9. Within(K)'
    <3>1. admitted[K] = 0 /\ limiters[K] = None
      BY <1>e, <1>t, <2>1 DEF Within
    <3>2. c + 1 <= m
      BY <2>2, <2>6
    <3> QED
      BY <1>e, <2>4, <2>8, <3>1, <3>2 DEF Within
  <2>10. ASSUME NEW k \in Key, k # K PROVE Within(k)'
    <3>1. Missed(k)' = Missed(k)
      BY <1>e, <1>p, <2>1, <2>10 DEF Missed, Becomes
    <3> QED
      BY <1>a, <1>e, <2>8, <2>10, <3>1
  <2> QED
    BY <1>e, <1>t, <2>8, <2>9, <2>10 DEF LimitInv
\* A request that found none makes one.
<1>f. ASSUME NEW r \in Request, MakeLimiter(r) PROVE LimitInv'
  <2>1. PICK K \in Key : K = KeyOf[r]
    BY <1>t
  <2>2. /\ at[r] = "missed" /\ limiters' = Becomes(limiters, K, r)
        /\ tokens' = Becomes(tokens, r, Burst - 1)
        /\ admitted' = Becomes(admitted, K, admitted[K] + 1)
        /\ at' = Becomes(at, r, "limited") /\ UNCHANGED peak
    BY <1>f, <2>1 DEF MakeLimiter
  <2>3. PICK b \in Nat, a \in Nat : b + 1 = Burst /\ a = admitted[K]
    <3>1. Burst - 1 \in Nat /\ (Burst - 1) + 1 = Burst
      BY <1>t
    <3> QED
      BY <1>t, <3>1
  <2>4. /\ limiters' \in [Key -> Request \cup {None}] /\ tokens' \in [Request -> Nat]
        /\ admitted' \in [Key -> Nat]
        /\ limiters'[K] = r /\ tokens'[r] = b /\ admitted'[K] = a + 1
        /\ \A q \in Request : q # r => tokens'[q] = tokens[q]
        /\ \A k \in Key : k # K => admitted'[k] = admitted[k] /\ limiters'[k] = limiters[k]
    <3>1. Burst - 1 = b /\ admitted[K] + 1 = a + 1
      BY <2>3
    <3> QED
      BY <1>t, <2>2, <2>3, <3>1 DEF Becomes
  <2>5. Missed(K)' = Missed(K) \ {r} /\ r \in Missed(K)
    BY <1>p, <2>1, <2>2 DEF Missed, Becomes
  <2>6. PICK c \in Nat : c + 1 = Cardinality(Missed(K))
    <3>1. Cardinality(Missed(K)) # 0
      BY <1>t, <2>5, FS_EmptySet
    <3>2. Cardinality(Missed(K)) - 1 \in Nat
          /\ (Cardinality(Missed(K)) - 1) + 1 = Cardinality(Missed(K))
      BY <1>t, <3>1
    <3> QED
      BY <3>2
  <2>7. IsFiniteSet(Missed(K)') /\ Cardinality(Missed(K)') = c
    <3>1. IsFiniteSet(Missed(K) \ {r}) /\ Cardinality(Missed(K) \ {r}) = Cardinality(Missed(K)) - 1
      BY <1>t, <2>5, FS_RemoveElement
    <3> QED
      BY <2>5, <2>6, <3>1
  <2>8. Within(K)'
    <3>1. PICK x \in Nat, y \in Nat, p \in Nat : x = Burst * c /\ p = peak[K] /\ y = Burst * p
      <4>1. peak[K] \in Nat
        BY <1>t
      <4> QED
        BY <1>t, <2>6, <4>1, Multiples
    <3>2. Burst * (c + 1) = x + Burst
      BY <1>t, <2>6, <3>1, Multiples
    <3>3. a + (x + Burst) <= y
      <4>1. CASE limiters[K] = None
        <5>1. a = 0 /\ c + 1 <= p
          BY <1>t, <2>3, <2>6, <3>1, <4>1 DEF Within
        <5>2. Burst * (c + 1) <= y
          BY <1>t, <2>6, <3>1, <5>1, Multiples
        <5> QED
          BY <1>t, <3>1, <3>2, <5>1, <5>2
      <4>2. CASE limiters[K] # None
        <5>1. PICK t \in Nat : t = tokens[limiters[K]]
          BY <1>t, <4>2
        <5>2. a + t + Burst * (c + 1) <= y
          BY <1>t, <2>3, <2>6, <3>1, <4>2, <5>1 DEF Within
        <5>3. a + t + (x + Burst) <= y
          BY <3>2, <5>2
        <5> QED
          BY <1>t, <2>3, <3>1, <5>1, <5>3
      <4> QED
        BY <4>1, <4>2
    <3>4. (a + 1) + b + x <= y
      BY <2>3, <3>1, <3>3
    <3>5. peak'[K] = p /\ r # None /\ KeyOf[r] = K
      BY <1>t, <2>1, <2>2, <3>1
    <3> QED
      BY <2>4, <2>7, <3>1, <3>4, <3>5 DEF Within
  <2>9. ASSUME NEW k \in Key, k # K PROVE Within(k)'
    <3>1. Missed(k)' = Missed(k)
      BY <1>p, <2>1, <2>2, <2>9 DEF Missed, Becomes
    <3>2. limiters[k] # None => limiters[k] \in Request /\ limiters[k] # r
      BY <1>t, <2>1, <2>9 DEF Within
    <3> QED
      BY <1>a, <2>2, <2>4, <2>9, <3>1, <3>2
  <2> QED
    BY <1>t, <2>2, <2>4, <2>8, <2>9 DEF LimitInv
<1>1. ASSUME NEW r \in Request, FindLimiter(r) PROVE LimitInv'
  <2>1. CASE limiters[KeyOf[r]] # None
    <3>1. at[r] = "new" /\ Allow(r, limiters[KeyOf[r]]) /\ UNCHANGED <<limiters, peak>>
      BY <1>1, <2>1 DEF FindLimiter
    <3> QED
      BY <1>d, <2>1, <3>1
  <2>2. CASE limiters[KeyOf[r]] = None
    <3>1. /\ at[r] = "new" /\ at' = Becomes(at, r, "missed")
          /\ peak' = Becomes(peak, KeyOf[r],
                             Max({peak[KeyOf[r]], 1 + Cardinality(Missed(KeyOf[r]))}))
          /\ UNCHANGED <<tokens, admitted, limiters>>
      BY <1>1, <2>2 DEF FindLimiter
    <3> QED
      BY <1>e, <2>2, <3>1
  <2> QED
    BY <2>1, <2>2
<1>2. ASSUME NEW r \in Request, \/ Accept(r) \/ CreateFails(r) \/ Fetch(r) \/ Poll(r) \/ Reply(r)
                                \/ Deadline(r)
      PROVE  LimitInv'
  <2>1. /\ UNCHANGED limits /\ at[r] # "missed"
        /\ \E s \in {"waiting", "replied", "cut", "read", "refused"} : at' = Becomes(at, r, s)
    BY <1>2 DEF Accept, CreateFails, Fetch, Poll, Reply, Deadline
  <2> QED
    BY <1>c, <2>1
<1>3. ASSUME NEW r \in Request, \/ CancelJob(r) \/ MarkRunning(r) \/ StartEngine(r) \/ StartFails(r)
                                \/ EngineEnds(r) \/ Complete(r) \/ Sent(r) \/ Store(r)
      PROVE  LimitInv'
  BY <1>3, <1>c DEF CancelJob, MarkRunning, StartEngine, StartFails, EngineEnds, Complete, Sent,
                    Store, handlers
<1>4. ASSUME NEW r \in Request, NEW c \in Client, WriteJSON(r, c) \/ WriteError(r, c)
      PROVE  LimitInv'
  BY <1>4, <1>c DEF WriteJSON, WriteError, handlers
<1>5. ASSUME NEW c \in Client, Connect(c) \/ Disconnect(c) PROVE LimitInv'
  BY <1>5, <1>c DEF Connect, Disconnect, handlers
<1>6. ASSUME Stop \/ Restart PROVE LimitInv'
  BY <1>6, <1>c DEF Stop, Restart, handlers
<1>7. ASSUME Exit \/ MapRace PROVE LimitInv'
  <2>1. /\ at' = [r \in Request |-> IF at[r] \in {"missed", "limited", "waiting", "read"}
                                    THEN "gone" ELSE at[r]]
        /\ limiters' = [k \in Key |-> None] /\ admitted' = [k \in Key |-> 0]
        /\ peak' = [k \in Key |-> 0] /\ tokens' = [r \in Request |-> 0]
    BY <1>7 DEF Exit, MapRace, Die
  <2>2. \A k \in Key : Missed(k)' = {}
    BY <2>1 DEF Missed
  <2>3. IsFiniteSet({}) /\ Cardinality({}) = 0
    BY FS_EmptySet
  <2>4. \A k \in Key : Within(k)'
    BY <2>1, <2>2, <2>3 DEF Within
  <2> QED
    BY <2>1, <2>4 DEF LimitInv
<1>8. ASSUME UNCHANGED vars PROVE LimitInv'
  BY <1>8, <1>c DEF vars, handlers
<1> QED
  BY <1>1, <1>2, <1>3, <1>4, <1>5, <1>6, <1>7, <1>8, <1>f DEF Next, Execute, Write, Wait

-----------------------------------------------------------------------------
(* The answers of the MCP server. *)

\* What is taken off a line of different calls is gone from it.
LEMMA RemoveIs ==
    ASSUME NEW seq \in Seq(Call), NEW i \in DOMAIN seq, NEW c \in Call, seq[i] = c,
           \A j, k \in DOMAIN seq : seq[j] = seq[k] => j = k
    PROVE  /\ RemoveFirst(seq, c) \in Seq(Call)
           /\ \A j \in DOMAIN RemoveFirst(seq, c) : \E k \in DOMAIN seq :
                 RemoveFirst(seq, c)[j] = seq[k] /\ seq[k] # c /\ k \in {j, j + 1}
                 /\ (k = j <=> j < i)
<1> PICK L : L = Len(seq)
  OBVIOUS
<1>0. L \in Nat /\ DOMAIN seq = 1 .. L /\ i \in 1 .. L
  BY LenProperties
<1>1. \A j \in DOMAIN seq : seq[j] = c => j = i
  OBVIOUS
<1>2. SelectInSeq(seq, LAMBDA v : v = c) = i
  BY <1>0, <1>1 DEF SelectInSeq, Min
<1>3. RemoveFirst(seq, c) = SubSeq(seq, 1, i - 1) \o SubSeq(seq, i + 1, L)
  BY <1>0, <1>2 DEF RemoveFirst, RemoveAt
<1>a. PICK a, b : a = SubSeq(seq, 1, i - 1) /\ b = SubSeq(seq, i + 1, L)
  OBVIOUS
<1>4. a \in Seq(Call) /\ Len(a) = i - 1 /\ \A k \in 1 .. i - 1 : a[k] = seq[k]
  BY <1>0, <1>a, SubSeqProperties
<1>5. b \in Seq(Call) /\ Len(b) = L - i /\ \A k \in 1 .. L - i : b[k] = seq[i + k]
  BY <1>0, <1>a, SubSeqProperties
<1>6. /\ a \o b \in Seq(Call) /\ Len(a \o b) = Len(a) + Len(b)
      /\ \A k \in 1 .. Len(a) + Len(b) :
            (a \o b)[k] = IF k <= Len(a) THEN a[k] ELSE b[k - Len(a)]
  <2>1. a \in Seq(Call) /\ b \in Seq(Call)
    BY <1>4, <1>5
  <2> QED
    BY <2>1, ConcatProperties
<1>7. Len(a) + Len(b) = L - 1 /\ i - 1 \in Nat /\ L - i \in Nat
  <2>1. Len(a) = i - 1 /\ Len(b) = L - i
    BY <1>4, <1>5
  <2> QED
    BY <1>0, <2>1
<1>8. DOMAIN (a \o b) = 1 .. L - 1
  BY <1>6, <1>7, LenProperties
<1>9. ASSUME NEW j \in 1 .. L - 1
      PROVE  \E k \in DOMAIN seq :
                (a \o b)[j] = seq[k] /\ seq[k] # c /\ k \in {j, j + 1} /\ (k = j <=> j < i)
  <2>1. CASE j < i
    <3>1. j \in 1 .. i - 1 /\ j \in 1 .. L /\ j # i
      BY <1>0, <2>1
    <3>2. (a \o b)[j] = seq[j]
      BY <1>4, <1>6, <1>7, <3>1
    <3> QED
      BY <1>0, <1>1, <2>1, <3>1, <3>2
  <2>2. CASE j >= i
    <3>1. /\ ~(j <= i - 1) /\ j - (i - 1) \in 1 .. L - i /\ i + (j - (i - 1)) = j + 1
          /\ j + 1 \in 1 .. L /\ j + 1 # i /\ j + 1 # j
      BY <1>0, <2>2
    <3>2. (a \o b)[j] = b[j - (i - 1)]
      BY <1>4, <1>6, <1>7, <3>1
    <3>3. (a \o b)[j] = seq[j + 1]
      BY <1>5, <3>1, <3>2
    <3> QED
      BY <1>0, <1>1, <2>2, <3>1, <3>3, SMTT(30)
  <2>3. j < i \/ j >= i
    BY <1>0
  <2> QED
    BY <2>1, <2>2, <2>3
<1>b. RemoveFirst(seq, c) = a \o b
  BY <1>3, <1>a
<1> QED
  BY <1>6, <1>8, <1>9, <1>b, Zenon

\* A call that is taken was sent and is no job, and the rest wait in line.
LEMMA TakeIs ==
    ASSUME McpInv, NEW c \in Call, Take(c)
    PROVE  /\ live /\ live' = live /\ stage[c] = "sent" /\ c \notin DOMAIN jobs
           /\ UNCHANGED <<asked, about>>
           /\ \A s : stage' = [stage EXCEPT ![c] = s] => LineOk'
<1>0. live /\ UNCHANGED <<live, asked, about>> /\ line' = RemoveFirst(line, c) /\ line # <<>>
      /\ c \in Waiting
  BY DEF Take
<1> PICK L : L = Len(line)
  OBVIOUS
<1>1. /\ line \in Seq(Call) /\ L \in Nat /\ DOMAIN line = 1 .. L /\ L > 0
      /\ \A i, j \in DOMAIN line : stage[line[i]] = "sent" /\ (line[i] = line[j] => i = j)
  BY <1>0, LenProperties, EmptySeq DEF McpInv, LineOk
<1>2. PICK i \in DOMAIN line : line[i] = c
  <2>1. Head(line) = line[1] /\ 1 \in DOMAIN line
    BY <1>0, <1>1
  <2>2. c = Head(line) \/ c \in ToSet(line)
    BY <1>0 DEF Waiting
  <2> QED
    BY <2>1, <2>2 DEF ToSet
<1>3. stage[c] = "sent"
  BY <1>1, <1>2
<1>4. c \notin DOMAIN jobs
  BY <1>3 DEF McpInv, JobOk
<1>5. ASSUME NEW s, stage' = [stage EXCEPT ![c] = s] PROVE LineOk'
  <2>a. PICK seq : seq = line
    OBVIOUS
  <2>b. /\ seq \in Seq(Call) /\ i \in DOMAIN seq /\ seq[i] = c
        /\ \A j, k \in DOMAIN seq : seq[j] = seq[k] => j = k
    BY <1>1, <1>2, <2>a
  <2>c. /\ RemoveFirst(seq, c) \in Seq(Call)
        /\ \A j \in DOMAIN RemoveFirst(seq, c) : \E k \in DOMAIN seq :
              RemoveFirst(seq, c)[j] = seq[k] /\ seq[k] # c /\ k \in {j, j + 1}
              /\ (k = j <=> j < i)
    BY <2>b, RemoveIs
  <2>d. line' = RemoveFirst(seq, c)
    BY <1>0, <2>a, Zenon
  <2>1. /\ line' \in Seq(Call)
        /\ \A j \in DOMAIN line' : \E k \in DOMAIN line :
              line'[j] = line[k] /\ line[k] # c /\ k \in {j, j + 1} /\ (k = j <=> j < i)
    BY <2>a, <2>c, <2>d, Zenon
  <2>2. ASSUME NEW j \in DOMAIN line' PROVE stage'[line'[j]] = "sent"
    <3>1. PICK k \in DOMAIN line : line'[j] = line[k] /\ line[k] # c
      BY <2>1
    <3>2. line[k] \in Call /\ stage[line[k]] = "sent"
      BY <1>1, ElementOfSeq
    <3> QED
      BY <1>5, <3>1, <3>2 DEF McpInv, McpType
  <2>3. ASSUME NEW j \in DOMAIN line', NEW l \in DOMAIN line', line'[j] = line'[l] PROVE j = l
    <3>1. PICK k \in DOMAIN line : line'[j] = line[k] /\ k \in {j, j + 1} /\ (k = j <=> j < i)
      BY <2>1
    <3>2. PICK m \in DOMAIN line : line'[l] = line[m] /\ m \in {l, l + 1} /\ (m = l <=> l < i)
      BY <2>1
    <3>3. k = m
      BY <1>1, <2>3, <3>1, <3>2
    <3>4. DOMAIN line' = 1 .. Len(line') /\ Len(line') \in Nat
      BY <2>1, LenProperties
    <3>5. j \in Nat /\ l \in Nat /\ i \in Nat
      BY <1>1, <3>4
    <3> QED
      BY <3>1, <3>2, <3>3, <3>5
  <2> QED
    BY <2>1, <2>2, <2>3 DEF LineOk
<1> QED
  BY <1>0, <1>3, <1>4, <1>5

LEMMA McpInit == InitMcp => McpInv
<1> SUFFICES ASSUME InitMcp PROVE McpInv
  OBVIOUS
<1>1. /\ jobs = <<>> /\ line = <<>> /\ DOMAIN jobs = {}
      /\ stage = [c \in Call |-> "unsent"] /\ asked = [c \in Call |-> NoAnswer]
      /\ about = [c \in Call |-> NoAnswer] /\ read = [c \in Call |-> NoAnswer]
      /\ reply = [c \in Call |-> NoAnswer] /\ todo = [c \in Call |-> 0]
      /\ collected = [c \in Call |-> 0] /\ found = [c \in Call |-> 0]
  BY DEF InitMcp
<1>2. McpType
  BY <1>1 DEF McpType
<1>3. LineOk
  BY <1>1 DEF LineOk
<1>4. \A c \in Call : CallOk(c)
  BY <1>1 DEF CallOk
<1> QED
  BY <1>1, <1>2, <1>3, <1>4 DEF McpInv

\* What is no answer is neither a status, nor a call, nor an answer.
LEMMA NoAnswerIs ==
    /\ NoAnswer # "completed" /\ NoAnswer # "running" /\ NoAnswer \notin Call
    /\ NoAnswer \notin Nat /\ NoAnswer \notin Replies /\ NoAnswer \notin Reads
<1>1. NoAnswer \notin Call \cup JobStatus \cup Nat \cup Replies \cup Reads
  BY McpServerAssumption, Zenon
<1>2. "completed" \in JobStatus /\ "running" \in JobStatus
  BY DEF JobStatus
<1> QED
  BY <1>1, <1>2, Zenon

\* A step at one call that is no job leaves the others and the jobs alone.
LEMMA CallStep ==
    ASSUME McpInv, McpType', LineOk', NEW c \in Call, c \notin DOMAIN jobs,
           UNCHANGED <<jobs, todo, collected, found>>,
           \A d \in Call \ {c} : /\ stage'[d] = stage[d] /\ asked'[d] = asked[d]
                                 /\ about'[d] = about[d] /\ read'[d] = read[d]
                                 /\ reply'[d] = reply[d],
           CallOk(c)'
    PROVE  McpInv'
<1>t. McpType /\ (\A d \in DOMAIN jobs : JobOk(d)) /\ \A d \in Call : CallOk(d)
  BY DEF McpInv
<1>1. ASSUME NEW d \in DOMAIN jobs PROVE JobOk(d)'
  <2>1. d \in Call \ {c} /\ JobOk(d)
    BY <1>t, <1>1 DEF McpType
  <2> QED
    BY <2>1 DEF JobOk
<1>2. ASSUME NEW d \in Call \ {c} PROVE CallOk(d)'
  <2>1. CallOk(d)
    BY <1>t
  <2> QED
    BY <2>1 DEF CallOk
<1> QED
  BY <1>1, <1>2 DEF McpInv

\* A call whose tool is running, or that has read a status, does not wait in line.
LEMMA ServedLine ==
    ASSUME McpInv, NEW c \in Call, stage[c] \in {"serving", "status"}, NEW s,
           stage' = [stage EXCEPT ![c] = s], UNCHANGED <<line, live>>
    PROVE  LineOk' /\ c \notin DOMAIN jobs
<1>1. LineOk /\ McpType
  BY DEF McpInv
<1>2. ASSUME live, NEW i \in DOMAIN line PROVE stage'[line[i]] = "sent"
  <2>1. line[i] \in Call /\ stage[line[i]] = "sent"
    BY <1>1, <1>2, ElementOfSeq DEF LineOk
  <2> QED
    BY <1>1, <2>1 DEF McpType
<1>3. c \notin DOMAIN jobs
  BY DEF McpInv, JobOk
<1> QED
  BY <1>1, <1>2, <1>3 DEF LineOk

\* A call that is answered otherwise than by a job's status.
LEMMA SaysOk ==
    ASSUME McpInv, NEW c \in Call, NEW what \in {"result", "error"}, about[c] = NoAnswer,
           c \notin DOMAIN jobs, Answered(c, Says(what)), LineOk',
           UNCHANGED <<asked, about, read, jobs, todo, collected, found>>
    PROVE  McpInv'
<1>t. McpType /\ CallOk(c)
  BY DEF McpInv
<1> PICK a : a = Says(what)
  OBVIOUS
<1>1. a.says = what /\ a.status = NoAnswer /\ a.items = 0
  BY DEF Says
<1>2. a \in Replies
  <2>1. a = [says |-> what, status |-> NoAnswer, items |-> 0]
    BY DEF Says
  <2> QED
    BY <2>1 DEF Replies
<1>3. stage' = [stage EXCEPT ![c] = "answered"] /\ reply' = [reply EXCEPT ![c] = a]
  BY DEF Answered
<1>4. McpType'
  BY <1>t, <1>2, <1>3 DEF McpType
<1>5. CallOk(c)'
  <2>1. stage'[c] = "answered" /\ reply'[c] = a
    BY <1>t, <1>3 DEF McpType
  <2>2. NoAnswer # "completed"
    BY NoAnswerIs
  <2> QED
    BY <1>t, <1>1, <2>1, <2>2 DEF CallOk
<1>6. \A d \in Call \ {c} : stage'[d] = stage[d] /\ reply'[d] = reply[d]
  BY <1>t, <1>3 DEF McpType
<1> QED
  BY <1>4, <1>5, <1>6, CallStep

\* A call that is not answered.
LEMMA StageOk ==
    ASSUME McpInv, NEW c \in Call, NEW s \in {"serving", "silent", "lost"},
           s = "serving" => asked[c] = "crawl", c \notin DOMAIN jobs, LineOk',
           stage' = [stage EXCEPT ![c] = s],
           UNCHANGED <<asked, about, read, reply, jobs, todo, collected, found>>
    PROVE  McpInv'
<1>t. McpType /\ CallOk(c)
  BY DEF McpInv
<1>1. McpType'
  BY <1>t DEF McpType
<1>2. CallOk(c)'
  <2>1. stage'[c] = s
    BY <1>t DEF McpType
  <2> QED
    BY <1>t, <2>1 DEF CallOk
<1>3. \A d \in Call \ {c} : stage'[d] = stage[d]
  BY <1>t DEF McpType
<1> QED
  BY <1>1, <1>2, <1>3, CallStep

\* Only a call for a status is about a job.
LEMMA AboutJob ==
    ASSUME McpInv, NEW c \in Call, asked[c] # "status"
    PROVE  about[c] = NoAnswer
BY DEF McpInv, CallOk

LEMMA CallActions ==
    ASSUME McpInv, NEW c \in Call
    PROVE  /\ Notification(c) => McpInv'
           /\ Immediate(c) => McpInv'
           /\ StartTool(c) => McpInv'
           /\ ToolEnds(c) => McpInv'
           /\ NoSuchJob(c) => McpInv'
           /\ TooLate(c) => McpInv'
<1>t. McpType /\ CallOk(c)
  BY DEF McpInv
<1>1. ASSUME Notification(c) PROVE McpInv'
  <2>1. Take(c) /\ stage' = [stage EXCEPT ![c] = "silent"] /\ UNCHANGED <<read, reply, Background>>
    BY <1>1 DEF Notification
  <2>2. c \notin DOMAIN jobs /\ LineOk' /\ UNCHANGED <<asked, about>>
    BY <2>1, TakeIs
  <2> QED
    BY <2>1, <2>2, StageOk DEF Background
<1>2. ASSUME Immediate(c) PROVE McpInv'
  <2> PICK what : what = IF asked[c] = "ping" THEN "result" ELSE "error"
    OBVIOUS
  <2>1. /\ Take(c) /\ Answered(c, Says(what)) /\ UNCHANGED <<read, Background>>
        /\ asked[c] \in {"ping", "malformed"} /\ what \in {"result", "error"}
    BY <1>2 DEF Immediate
  <2>2. c \notin DOMAIN jobs /\ LineOk' /\ UNCHANGED <<asked, about>>
    BY <2>1, TakeIs DEF Answered
  <2>3. about[c] = NoAnswer
    BY <2>1, AboutJob
  <2> QED
    BY <2>1, <2>2, <2>3, SaysOk DEF Background
<1>3. ASSUME StartTool(c) PROVE McpInv'
  <2>1. /\ Take(c) /\ stage' = [stage EXCEPT ![c] = "serving"] /\ asked[c] = "crawl"
        /\ UNCHANGED <<read, reply, Background>>
    BY <1>3 DEF StartTool
  <2>2. c \notin DOMAIN jobs /\ LineOk' /\ UNCHANGED <<asked, about>>
    BY <2>1, TakeIs
  <2> QED
    BY <2>1, <2>2, StageOk DEF Background
<1>4. ASSUME ToolEnds(c) PROVE McpInv'
  <2>1. PICK what \in {"result", "error"} : Answered(c, Says(what))
    BY <1>4 DEF ToolEnds
  <2>2. /\ stage[c] = "serving" /\ UNCHANGED <<line, asked, about, read, live>>
        /\ UNCHANGED <<jobs, todo, collected, found>>
    BY <1>4 DEF ToolEnds, Background
  <2>3. c \notin DOMAIN jobs /\ LineOk'
    BY <2>1, <2>2, ServedLine DEF Answered
  <2>4. about[c] = NoAnswer
    BY <1>t, <2>2, AboutJob DEF CallOk
  <2> QED
    BY <2>1, <2>2, <2>3, <2>4, SaysOk
<1>5. ASSUME NoSuchJob(c) PROVE McpInv'
  <2>1. /\ Take(c) /\ Answered(c, Says("error")) /\ UNCHANGED <<read, Background>>
        /\ about[c] \notin DOMAIN jobs
    BY <1>5 DEF NoSuchJob
  <2>2. c \notin DOMAIN jobs /\ LineOk' /\ UNCHANGED <<asked, about>>
    BY <2>1, TakeIs DEF Answered
  <2>3. about[c] = NoAnswer
    BY <1>t, <2>1 DEF CallOk
  <2> QED
    BY <2>1, <2>2, <2>3, SaysOk DEF Background
<1>6. ASSUME TooLate(c) PROVE McpInv'
  <2>1. /\ stage[c] = "serving" /\ stage' = [stage EXCEPT ![c] = "lost"]
        /\ UNCHANGED <<line, asked, about, read, reply, live>>
        /\ UNCHANGED <<jobs, todo, collected, found>>
    BY <1>6 DEF TooLate, Background
  <2>2. c \notin DOMAIN jobs /\ LineOk'
    BY <2>1, ServedLine
  <2> QED
    BY <2>1, <2>2, StageOk
<1> QED
  BY <1>1, <1>2, <1>3, <1>4, <1>5, <1>6

\* A client asks after a job only when it was told of it.
LEMMA SendOk == ASSUME McpInv, NEW c \in Call, NEW k \in Asks[c], Send(c, k) PROVE McpInv'
<1>t. McpType /\ CallOk(c) /\ LineOk
  BY DEF McpInv
<1>1. /\ live /\ stage[c] = "unsent" /\ stage' = [stage EXCEPT ![c] = "sent"]
      /\ asked' = [asked EXCEPT ![c] = k] /\ line' = Append(line, c)
      /\ UNCHANGED <<read, reply, live, jobs, todo, collected, found>>
  BY DEF Send, Background
<1>2. PICK j \in Known \cup {NoAnswer} :
          about' = [about EXCEPT ![c] = IF k = "status" THEN j ELSE NoAnswer]
  BY DEF Send
<1>3. j # NoAnswer => j \in DOMAIN jobs
  BY <1>2 DEF Known, McpInv, CallOk
<1>4. k \in {"ping", "malformed", "notification", "crawl", "batch", "status"}
  <2>1. Asks \in [Call -> SUBSET {"ping", "malformed", "notification", "crawl", "batch", "status"}]
    BY McpServerAssumption, Zenon
  <2> QED
    BY <2>1
<1>5. c \notin DOMAIN jobs
  BY <1>1 DEF McpInv, JobOk
<1>6. McpType'
  <2>1. j \in Call \cup {NoAnswer}
    BY <1>2 DEF Known
  <2>2. about' \in [Call -> Call \cup {NoAnswer}]
    BY <1>t, <1>2, <2>1 DEF McpType
  <2> QED
    BY <1>t, <1>1, <1>4, <2>2 DEF McpType
<1>7. CallOk(c)'
  <2>1. stage'[c] = "sent" /\ asked'[c] = k /\ reply'[c] = NoAnswer
        /\ about'[c] = IF k = "status" THEN j ELSE NoAnswer
    BY <1>t, <1>1, <1>2 DEF McpType, CallOk
  <2> QED
    BY <1>t, <1>1, <1>3, <1>5, <2>1 DEF CallOk
<1>8. LineOk'
  <2> PICK n : n = Len(line)
    OBVIOUS
  <2>1. /\ n \in Nat /\ DOMAIN line = 1 .. n /\ DOMAIN line' = 1 .. n + 1
        /\ line' \in Seq(Call) /\ line'[n + 1] = c /\ \A i \in 1 .. n : line'[i] = line[i]
    BY <1>t, <1>1, AppendProperties, LenProperties DEF LineOk
  <2>2. ASSUME NEW i \in 1 .. n
        PROVE  line[i] \in Call /\ stage[line[i]] = "sent"
               /\ line[i] # c /\ stage'[line[i]] = "sent"
    <3>1. line[i] \in Call /\ stage[line[i]] = "sent"
      BY <1>t, <1>1, <2>1, ElementOfSeq DEF LineOk
    <3> QED
      BY <1>t, <1>1, <3>1 DEF McpType
  <2>3. ASSUME NEW i \in DOMAIN line' PROVE stage'[line'[i]] = "sent"
    <3>1. CASE i = n + 1
      BY <1>t, <1>1, <2>1, <3>1 DEF McpType
    <3>2. CASE i # n + 1
      BY <2>1, <2>2, <3>2
    <3> QED
      BY <3>1, <3>2
  <2>4. ASSUME NEW i \in DOMAIN line', NEW l \in DOMAIN line', line'[i] = line'[l] PROVE i = l
    <3>1. CASE i = n + 1 \/ l = n + 1
      BY <2>1, <2>2, <2>4, <3>1
    <3>2. CASE i \in 1 .. n /\ l \in 1 .. n
      <4>1. line[i] = line[l] /\ i \in DOMAIN line /\ l \in DOMAIN line
        BY <2>1, <2>4, <3>2
      <4> QED
        BY <1>t, <1>1, <4>1 DEF LineOk
    <3> QED
      BY <2>1, <3>1, <3>2
  <2> QED
    BY <2>1, <2>3, <2>4 DEF LineOk
<1>9. \A d \in Call \ {c} : /\ stage'[d] = stage[d] /\ asked'[d] = asked[d]
                            /\ about'[d] = about[d] /\ read'[d] = read[d] /\ reply'[d] = reply[d]
  BY <1>t, <1>1, <1>2 DEF McpType
<1> QED
  BY <1>1, <1>5, <1>6, <1>7, <1>8, <1>9, CallStep

\* A new job has found nothing.
LEMMA StartBatchOk == ASSUME McpInv, NEW c \in Call, StartBatch(c) PROVE McpInv'
<1>t. McpType /\ CallOk(c)
  BY DEF McpInv
<1>1. Take(c) /\ asked[c] = "batch" /\ UNCHANGED read
  BY DEF StartBatch
<1>2. c \notin DOMAIN jobs /\ UNCHANGED <<asked, about>>
  BY <1>1, TakeIs
<1>3. about[c] = NoAnswer
  BY <1>1, AboutJob
<1>4. CASE Answered(c, Says("error")) /\ UNCHANGED Background
  <2>1. LineOk'
    BY <1>1, <1>4, TakeIs DEF Answered
  <2> QED
    BY <1>1, <1>2, <1>3, <1>4, <2>1, SaysOk DEF Background
<1>5. CASE /\ jobs' = [j \in {c} \cup DOMAIN jobs |->
                        IF j = c THEN [status |-> "running", items |-> 0] ELSE jobs[j]]
           /\ todo' = [todo EXCEPT ![c] = BatchUrls]
           /\ Answered(c, [says |-> "started", status |-> "running", items |-> 0])
           /\ UNCHANGED <<collected, found>>
  <2> PICK a : a = [says |-> "started", status |-> "running", items |-> 0]
    OBVIOUS
  <2>1. a \in Replies /\ a.says = "started" /\ a.status = "running"
    BY DEF Replies, JobStatus
  <2>2. stage' = [stage EXCEPT ![c] = "answered"] /\ reply' = [reply EXCEPT ![c] = a]
    BY <1>5 DEF Answered
  <2>3. LineOk'
    BY <1>1, <2>2, TakeIs
  <2>4. /\ DOMAIN jobs' = {c} \cup DOMAIN jobs
        /\ jobs'[c] = [status |-> "running", items |-> 0]
        /\ \A d \in DOMAIN jobs : d # c /\ jobs'[d] = jobs[d]
    BY <1>2, <1>5
  <2>5. jobs' = [d \in {c} \cup DOMAIN jobs |-> jobs'[d]]
    BY <1>5, <2>4
  <2>6. McpType'
    <3>1. jobs' \in [DOMAIN jobs' -> [status : JobStatus, items : Nat]]
      BY <1>t, <2>4, <2>5 DEF McpType, JobStatus
    <3>2. todo' \in [Call -> Nat]
      <4>1. BatchUrls \in Nat
        BY McpServerAssumption
      <4> QED
        BY <1>t, <1>5, <4>1 DEF McpType
    <3> QED
      BY <1>t, <1>1, <1>2, <1>5, <2>1, <2>2, <2>4, <3>1, <3>2 DEF McpType
  <2>7. ASSUME NEW d \in DOMAIN jobs' PROVE JobOk(d)'
    <3>1. CASE d = c
      <4>1. stage'[c] = "answered" /\ collected'[c] = 0 /\ found'[c] = 0
        BY <1>t, <1>2, <1>5, <2>2 DEF McpType, CallOk
      <4> QED
        BY <2>4, <3>1, <4>1 DEF JobOk
    <3>2. CASE d # c
      <4>1. d \in DOMAIN jobs /\ d \in Call /\ JobOk(d)
        BY <1>t, <2>4, <3>2 DEF McpInv, McpType
      <4>2. stage'[d] = stage[d] /\ todo'[d] = todo[d] /\ jobs'[d] = jobs[d]
        BY <1>t, <1>5, <2>2, <2>4, <3>2, <4>1 DEF McpType
      <4> QED
        BY <1>5, <4>1, <4>2 DEF JobOk
    <3> QED
      BY <3>1, <3>2
  <2>8. ASSUME NEW d \in Call PROVE CallOk(d)'
    <3>1. CASE d = c
      <4>1. stage'[c] = "answered" /\ reply'[c] = a
        BY <1>t, <2>2 DEF McpType
      <4> QED
        BY <1>2, <1>3, <2>1, <2>4, <3>1, <4>1 DEF CallOk
    <3>2. CASE d # c
      <4>1. CallOk(d) /\ stage'[d] = stage[d] /\ reply'[d] = reply[d]
        BY <1>t, <2>2, <3>2 DEF McpInv, McpType
      <4> QED
        BY <1>1, <1>2, <1>5, <2>4, <3>2, <4>1 DEF CallOk
    <3> QED
      BY <3>1, <3>2
  <2> QED
    BY <2>3, <2>6, <2>7, <2>8 DEF McpInv
<1> QED
  BY <1>4, <1>5 DEF StartBatch

\* A status that was read stays true of the job when the items are counted after.
LEMMA StatusCalls ==
    ASSUME McpInv, NEW c \in Call
    PROVE  (ReadStatus(c) => McpInv') /\ (GetItems(c) => McpInv')
<1>t. McpType /\ CallOk(c)
  BY DEF McpInv
<1>1. ASSUME ReadStatus(c) PROVE McpInv'
  <2> PICK a : a = [status |-> jobs[about[c]].status, items |-> NoAnswer]
    OBVIOUS
  <2>1. /\ Take(c) /\ asked[c] = "status" /\ about[c] \in DOMAIN jobs
        /\ read' = [read EXCEPT ![c] = a] /\ stage' = [stage EXCEPT ![c] = "status"]
        /\ UNCHANGED <<reply, jobs, todo, collected, found>>
    BY <1>1 DEF ReadStatus, Background
  <2>2. c \notin DOMAIN jobs /\ LineOk' /\ UNCHANGED <<asked, about>>
    BY <2>1, TakeIs
  <2>3. jobs[about[c]].status \in JobStatus
    BY <1>t, <2>1 DEF McpType
  <2>4. /\ a \in Reads /\ a.items = NoAnswer /\ a.status \in JobStatus
        /\ a.status = jobs[about[c]].status
    BY <2>3 DEF Reads
  <2>5. McpType'
    BY <1>t, <2>1, <2>2, <2>4 DEF McpType
  <2>6. CallOk(c)'
    <3>1. stage'[c] = "status" /\ read'[c] = a
      BY <1>t, <2>1 DEF McpType
    <3>2. a # NoAnswer /\ about[c] # NoAnswer
      BY <1>t, <2>1, <2>4, NoAnswerIs DEF McpType
    <3> QED
      BY <1>t, <2>1, <2>2, <2>4, <3>1, <3>2 DEF CallOk
  <2>7. \A d \in Call \ {c} : stage'[d] = stage[d] /\ read'[d] = read[d]
    BY <1>t, <2>1 DEF McpType
  <2> QED
    BY <2>1, <2>2, <2>5, <2>6, <2>7, CallStep
<1>2. ASSUME GetItems(c) PROVE McpInv'
  <2> PICK j : j = about[c]
    OBVIOUS
  <2>1. stage[c] = "status" /\ UNCHANGED <<line, asked, about, read, live>>
        /\ UNCHANGED <<jobs, todo, collected, found>>
    BY <1>2 DEF GetItems, Background
  <2>2. /\ j # NoAnswer /\ j \in DOMAIN jobs /\ read[c].items = NoAnswer
        /\ read[c].status \in JobStatus
        /\ read[c].status = "completed" => jobs[j].status = "completed"
    BY <1>t, <2>1 DEF CallOk
  <2>3. read[c].status # NoAnswer
    BY <2>2, NoAnswerIs DEF JobStatus
  <2> PICK a : a = [says |-> "job", status |-> read[c].status, items |-> jobs[j].items]
    OBVIOUS
  <2>4. stage' = [stage EXCEPT ![c] = "answered"] /\ reply' = [reply EXCEPT ![c] = a]
    BY <1>2, <2>2, <2>3 DEF GetItems, Answered
  <2>5. /\ a.says = "job" /\ a.status = read[c].status /\ a.items = jobs[j].items
        /\ a \in Replies
    <3>1. jobs[j].items \in Nat
      BY <1>t, <2>2 DEF McpType
    <3> QED
      BY <2>2, <3>1 DEF Replies
  <2>6. a.status = "completed" => jobs[j].status = "completed" /\ a.items = found[j]
    <3>1. JobOk(j) /\ jobs[j].items \in Nat
      BY <1>t, <2>2 DEF McpInv, McpType
    <3> QED
      BY <2>2, <2>5, <3>1 DEF JobOk
  <2>7. c \notin DOMAIN jobs /\ LineOk'
    BY <2>1, <2>4, ServedLine
  <2>8. McpType'
    BY <1>t, <2>1, <2>4, <2>5 DEF McpType
  <2>9. CallOk(c)'
    <3>1. stage'[c] = "answered" /\ reply'[c] = a
      BY <1>t, <2>4 DEF McpType
    <3> QED
      BY <1>t, <2>1, <2>2, <2>5, <2>6, <3>1 DEF CallOk
  <2>10. \A d \in Call \ {c} : stage'[d] = stage[d] /\ reply'[d] = reply[d]
    BY <1>t, <2>4 DEF McpType
  <2> QED
    BY <2>1, <2>7, <2>8, <2>9, <2>10, CallStep
<1> QED
  BY <1>1, <1>2

\* A step of one batch that was not completed leaves the other jobs alone.
LEMMA BatchStep ==
    ASSUME McpInv, McpType', UNCHANGED <<line, stage, asked, about, read, reply, live>>,
           NEW c \in DOMAIN jobs, DOMAIN jobs' = DOMAIN jobs, jobs[c].status # "completed",
           JobOk(c)',
           \A d \in Call \ {c} : /\ todo'[d] = todo[d] /\ collected'[d] = collected[d]
                                 /\ found'[d] = found[d],
           \A d \in DOMAIN jobs \ {c} : jobs'[d] = jobs[d]
    PROVE  McpInv'
<1>t. McpType /\ LineOk /\ (\A d \in DOMAIN jobs : JobOk(d)) /\ \A d \in Call : CallOk(d)
  BY DEF McpInv
<1>1. LineOk'
  BY <1>t DEF LineOk
<1>2. ASSUME NEW d \in DOMAIN jobs \ {c} PROVE JobOk(d)'
  <2>1. d \in Call \ {c} /\ JobOk(d)
    BY <1>t DEF McpType
  <2> QED
    BY <2>1 DEF JobOk
<1>3. ASSUME NEW d \in Call PROVE CallOk(d)'
  <2>1. CallOk(d)
    BY <1>t
  <2>2. d \notin DOMAIN jobs' => collected'[d] = 0 /\ found'[d] = 0
    BY <2>1 DEF CallOk
  <2>3. ASSUME about[d] \in DOMAIN jobs, jobs[about[d]].status = "completed"
        PROVE  jobs'[about[d]].status = "completed" /\ found'[about[d]] = found[about[d]]
    <3>1. about[d] \in DOMAIN jobs \ {c} /\ about[d] \in Call \ {c}
      BY <1>t, <2>3 DEF McpType
    <3> QED
      BY <2>3, <3>1
  <2>4. stage'[d] = "status" =>
           /\ about'[d] # NoAnswer /\ read'[d] # NoAnswer
           /\ read'[d].items = NoAnswer /\ read'[d].status \in JobStatus
           /\ read'[d].status = "completed" => jobs'[about'[d]].status = "completed"
    BY <2>1, <2>3 DEF CallOk
  <2>5. reply'[d] # NoAnswer =>
           /\ reply'[d].says = "started" => d \in DOMAIN jobs'
           /\ about'[d] # NoAnswer => reply'[d].says = "job"
           /\ reply'[d].status = "completed" =>
                 /\ about'[d] \in DOMAIN jobs' /\ jobs'[about'[d]].status = "completed"
                 /\ reply'[d].items = found'[about'[d]]
    BY <2>1, <2>3 DEF CallOk
  <2> QED
    BY <2>1, <2>2, <2>4, <2>5 DEF CallOk
<1> QED
  BY <1>1, <1>2, <1>3 DEF McpInv

LEMMA BatchActions ==
    ASSUME McpInv, NEW c \in Call
    PROVE  (CrawlUrl(c) => McpInv') /\ (AddItem(c) => McpInv') /\ (Completed(c) => McpInv')
<1>t. McpType /\ (c \in DOMAIN jobs => JobOk(c))
  BY DEF McpInv
<1>j. c \in DOMAIN jobs => jobs[c].items \in Nat /\ jobs[c].status \in JobStatus
  BY <1>t DEF McpType
<1>n. todo[c] \in Nat /\ collected[c] \in Nat /\ found[c] \in Nat
  BY <1>t DEF McpType
<1>1. ASSUME CrawlUrl(c) PROVE McpInv'
  <2>1. /\ c \in DOMAIN jobs /\ todo[c] > 0 /\ collected[c] = 0
        /\ todo' = [todo EXCEPT ![c] = @ - 1]
        /\ UNCHANGED <<jobs, line, stage, asked, about, read, reply, live>>
    BY <1>1 DEF CrawlUrl, Batch, Still
  <2>2. PICK n \in 0 .. PageItems : /\ collected' = [collected EXCEPT ![c] = n]
                                    /\ found' = [found EXCEPT ![c] = @ + n]
    BY <1>1 DEF CrawlUrl
  <2>3. n \in Nat
    OBVIOUS
  <2>4. McpType'
    <3>1. /\ todo' \in [Call -> Nat] /\ collected' \in [Call -> Nat]
          /\ found' \in [Call -> Nat]
      BY <1>t, <1>n, <2>1, <2>2, <2>3 DEF McpType
    <3> QED
      BY <1>t, <2>1, <3>1 DEF McpType
  <2>5. jobs[c].status # "completed"
    BY <1>t, <2>1 DEF JobOk
  <2>6. JobOk(c)'
    <3>1. collected'[c] = n /\ found'[c] = found[c] + n
      BY <1>t, <2>2 DEF McpType
    <3>2. stage[c] = "answered" /\ jobs[c].items + collected[c] = found[c]
      BY <1>t, <2>1 DEF JobOk
    <3>3. jobs[c].items + n = found[c] + n
      BY <1>j, <1>n, <2>1, <2>3, <3>2
    <3> QED
      BY <2>1, <2>5, <3>1, <3>2, <3>3 DEF JobOk
  <2>7. \A d \in Call \ {c} : /\ todo'[d] = todo[d] /\ collected'[d] = collected[d]
                              /\ found'[d] = found[d]
    BY <1>t, <2>1, <2>2 DEF McpType
  <2> QED
    BY <2>1, <2>4, <2>5, <2>6, <2>7, BatchStep
<1>2. ASSUME AddItem(c) PROVE McpInv'
  <2>1. /\ c \in DOMAIN jobs /\ collected[c] > 0
        /\ jobs' = [jobs EXCEPT ![c].items = @ + 1]
        /\ collected' = [collected EXCEPT ![c] = @ - 1]
        /\ UNCHANGED <<todo, found, line, stage, asked, about, read, reply, live>>
    BY <1>2 DEF AddItem, Batch, Still
  <2>2. /\ DOMAIN jobs' = DOMAIN jobs /\ \A d \in DOMAIN jobs \ {c} : jobs'[d] = jobs[d]
        /\ jobs'[c].items = jobs[c].items + 1 /\ jobs'[c].status = jobs[c].status
    BY <1>t, <2>1 DEF McpType
  <2>3. McpType'
    <3>1. jobs' \in [DOMAIN jobs -> [status : JobStatus, items : Nat]]
      BY <1>t, <2>1 DEF McpType
    <3>2. collected' \in [Call -> Nat]
      BY <1>t, <1>n, <2>1 DEF McpType
    <3> QED
      BY <1>t, <2>1, <2>2, <3>1, <3>2 DEF McpType
  <2>4. jobs[c].status # "completed"
    BY <1>t, <2>1 DEF JobOk
  <2>5. JobOk(c)'
    <3>1. collected'[c] = collected[c] - 1
      BY <1>t, <2>1 DEF McpType
    <3>2. stage[c] = "answered" /\ jobs[c].items + collected[c] = found[c]
      BY <1>t, <2>1 DEF JobOk
    <3>3. jobs'[c].items + collected'[c] = found[c]
      BY <1>j, <1>n, <2>1, <2>2, <3>1, <3>2
    <3> QED
      BY <2>1, <2>2, <2>4, <3>2, <3>3 DEF JobOk
  <2>6. \A d \in Call \ {c} : /\ todo'[d] = todo[d] /\ collected'[d] = collected[d]
                              /\ found'[d] = found[d]
    BY <1>t, <2>1 DEF McpType
  <2> QED
    BY <2>1, <2>2, <2>3, <2>4, <2>5, <2>6, BatchStep
<1>3. ASSUME Completed(c) PROVE McpInv'
  <2>1. /\ c \in DOMAIN jobs /\ todo[c] = 0 /\ collected[c] = 0 /\ jobs[c].status = "running"
        /\ jobs' = [jobs EXCEPT ![c].status = "completed"]
        /\ UNCHANGED <<todo, collected, found>>
        /\ UNCHANGED <<line, stage, asked, about, read, reply, live>>
    BY <1>3 DEF Completed, Batch, Still
  <2>2. /\ DOMAIN jobs' = DOMAIN jobs /\ \A d \in DOMAIN jobs \ {c} : jobs'[d] = jobs[d]
        /\ jobs'[c].items = jobs[c].items
    BY <1>t, <2>1 DEF McpType
  <2>3. McpType'
    <3>1. jobs' \in [DOMAIN jobs -> [status : JobStatus, items : Nat]]
      BY <1>t, <2>1 DEF McpType, JobStatus
    <3> QED
      BY <1>t, <2>1, <2>2, <3>1 DEF McpType
  <2>4. jobs[c].status # "completed"
    BY <2>1
  <2>5. JobOk(c)'
    <3>1. stage[c] = "answered" /\ jobs[c].items + collected[c] = found[c]
      BY <1>t, <2>1 DEF JobOk
    <3> QED
      BY <2>1, <2>2, <3>1 DEF JobOk
  <2> QED
    BY <2>1, <2>2, <2>3, <2>4, <2>5, BatchStep
<1> QED
  BY <1>1, <1>2, <1>3

\* The server's end leaves calls without an answer, and changes no answer.
LEMMA EndActions ==
    ASSUME McpInv
    PROVE  /\ Cancel => McpInv'
           /\ ReadAfterCancel => McpInv'
           /\ EndOfInput => McpInv'
           /\ Shutdown => McpInv'
<1>t. McpType /\ LineOk /\ (\A d \in DOMAIN jobs : JobOk(d)) /\ \A d \in Call : CallOk(d)
  BY DEF McpInv
<1>u. ASSUME UNCHANGED <<stage, asked, about, read, reply, jobs, todo, collected, found>>, LineOk'
      PROVE  McpInv'
  <2>1. McpType'
    BY <1>t, <1>u DEF McpType
  <2>2. \A d \in DOMAIN jobs' : JobOk(d)'
    BY <1>t, <1>u DEF JobOk
  <2>3. \A d \in Call : CallOk(d)'
    BY <1>t, <1>u DEF CallOk
  <2> QED
    BY <1>u, <2>1, <2>2, <2>3 DEF McpInv
<1>1. ASSUME Cancel PROVE McpInv'
  <2>1. UNCHANGED <<line, live, stage, asked, about, read, reply, jobs, todo, collected, found>>
    BY <1>1 DEF Cancel, Background
  <2>2. LineOk'
    BY <1>t, <2>1 DEF LineOk
  <2> QED
    BY <1>u, <2>1, <2>2
<1>2. ASSUME ReadAfterCancel PROVE McpInv'
  <2> PICK c : c = Head(line)
    OBVIOUS
  <2>1. /\ live /\ line # <<>> /\ stage' = [stage EXCEPT ![c] = "lost"]
        /\ line' = Tail(line) /\ live' = FALSE
        /\ UNCHANGED <<asked, about, read, reply, jobs, todo, collected, found>>
    BY <1>2 DEF ReadAfterCancel, Background
  <2>2. line \in Seq(Call) /\ line # <<>>
    BY <1>t, <2>1 DEF LineOk
  <2>3. c = line[1] /\ 1 \in DOMAIN line /\ c \in Call /\ line' \in Seq(Call)
    <3>1. c \in Call /\ line' \in Seq(Call)
      BY <2>1, <2>2, HeadTailProperties
    <3>2. 1 \in DOMAIN line
      BY <2>2, LenProperties, EmptySeq
    <3>3. c = line[1]
      BY <2>2
    <3> QED
      BY <3>1, <3>2, <3>3
  <2>4. stage[c] = "sent"
    BY <1>t, <2>1, <2>3 DEF LineOk
  <2>5. c \notin DOMAIN jobs
    BY <1>t, <2>4 DEF JobOk
  <2>6. LineOk'
    BY <2>1, <2>3 DEF LineOk
  <2> QED
    BY <2>1, <2>3, <2>5, <2>6, StageOk
<1>3. ASSUME EndOfInput PROVE McpInv'
  <2>1. /\ live' = FALSE /\ UNCHANGED line
        /\ UNCHANGED <<stage, asked, about, read, reply, jobs, todo, collected, found>>
    BY <1>3 DEF EndOfInput, Background
  <2>2. LineOk'
    BY <1>t, <2>1 DEF LineOk
  <2> QED
    BY <1>u, <2>1, <2>2
<1>4. ASSUME Shutdown PROVE McpInv'
  <2>1. /\ stage' = [c \in Call |-> IF stage[c] \in {"sent", "serving", "status"} THEN "lost"
                                    ELSE stage[c]]
        /\ line' = <<>> /\ live' = FALSE
        /\ UNCHANGED <<asked, about, read, reply, jobs, todo, collected, found>>
    BY <1>4 DEF Shutdown, Background
  <2>2. LineOk'
    BY <2>1 DEF LineOk
  <2>3. McpType'
    BY <1>t, <2>1 DEF McpType
  <2>4. ASSUME NEW d \in DOMAIN jobs' PROVE JobOk(d)'
    <3>1. d \in Call /\ d \in DOMAIN jobs /\ JobOk(d)
      BY <1>t, <2>1 DEF McpType
    <3>2. stage'[d] = stage[d]
      BY <2>1, <3>1 DEF JobOk
    <3> QED
      BY <2>1, <3>1, <3>2 DEF JobOk
  <2>5. ASSUME NEW d \in Call PROVE CallOk(d)'
    <3>1. CallOk(d) /\ stage'[d] \in {stage[d], "lost"}
      BY <1>t, <2>1
    <3>2. stage'[d] \in {"unsent", "serving", "status"} => stage'[d] = stage[d]
      BY <3>1
    <3> QED
      BY <2>1, <3>1, <3>2 DEF CallOk
  <2> QED
    BY <2>2, <2>3, <2>4, <2>5 DEF McpInv
<1> QED
  BY <1>1, <1>2, <1>3, <1>4

LEMMA McpStep == ASSUME McpInv, [NextMcp]_mcp PROVE McpInv'
<1>1. ASSUME NEW c \in Call
      PROVE  /\ \A k \in Asks[c] : Send(c, k) => McpInv'
             /\ Notification(c) \/ Immediate(c) \/ StartTool(c) \/ ToolEnds(c) \/ NoSuchJob(c)
                   \/ TooLate(c) => McpInv'
             /\ StartBatch(c) => McpInv'
             /\ ReadStatus(c) \/ GetItems(c) => McpInv'
             /\ CrawlUrl(c) \/ AddItem(c) \/ Completed(c) => McpInv'
  BY SendOk, CallActions, StartBatchOk, StatusCalls, BatchActions
<1>2. Cancel \/ ReadAfterCancel \/ EndOfInput \/ Shutdown => McpInv'
  BY EndActions
<1>3. CASE UNCHANGED mcp
  BY <1>3 DEF mcp, McpInv, McpType, LineOk, JobOk, CallOk
<1> QED
  BY <1>1, <1>2, <1>3 DEF NextMcp

-----------------------------------------------------------------------------
(* The theorems. *)

ServerInv == PlaceInv /\ TableInv /\ AnswerInv /\ ToldInv /\ GapInv /\ LimitInv

LEMMA ServerInvariant == Spec => []ServerInv
<1>1. Init => ServerInv
  BY PlaceInit, TableInit, AnswerInit, ToldInit, GapInit, LimitInit DEF ServerInv
<1>2. ServerInv /\ [Next]_vars => ServerInv'
  BY PlaceStep, TableStep, AnswerStep, ToldStep, GapStep, LimitStep DEF ServerInv
<1> QED
  BY <1>1, <1>2, PTL DEF Spec

\* The types of the server's job table, rate limit and event stream, with the
\* place of each goroutine and handler.
THEOREM ServerTypeCorrect == Spec => [](PlaceInv /\ TableInv)
<1>1. ServerInv => PlaceInv /\ TableInv
  BY DEF ServerInv
<1> QED
  BY <1>1, ServerInvariant, PTL

\* A completed job's item_count is its rows and the inserts that failed,
\* whatever failed, was cancelled or restarted in between (CompleteJob, and
\* the counting of executeCrawl and executeBatch).
THEOREM CountSound == Spec => []CountAccountsForRows
<1>1. ServerInv => CountAccountsForRows
  BY DEF ServerInv, TableInv, CountAccountsForRows, Written
<1> QED
  BY <1>1, ServerInvariant, PTL

\* A synchronous caller's answer is about a job no row is added to any more:
\* its count accounts for all the rows, and its items are the first page of
\* them, or none when the read of them failed (handleCrawl's poll).
THEOREM AnswersWhole == Spec => []AnswersAreWhole
<1>1. ServerInv => AnswersAreWhole
  <2> SUFFICES ASSUME ServerInv, NEW r \in Request, at[r] \in {"replied", "cut"},
                      answer[r] # None
               PROVE  /\ answer[r].status = "completed" =>
                             answer[r].itemCount = Len(rows[r]) + lost[r]
                      /\ answer[r].items =
                             IF answer[r].read THEN GetJobItems(r, 0, 0) ELSE <<>>
    BY DEF AnswersAreWhole
  <2>1. AnswerOk(r)
    BY DEF ServerInv, AnswerInv
  <2> QED
    BY <2>1 DEF AnswerOk, Written
<1> QED
  BY <1>1, ServerInvariant, PTL

\* What a WebSocket client was told is so in the job table and stays so: the
\* row of each item, or its failed insert, and the end of the job, unless it
\* was cancelled or the write failed (Store, executeCrawl, BroadcastJobEvent).
THEOREM StreamTrue == Spec => []StreamFollowsTable
<1>1. ServerInv => StreamFollowsTable
  <2> SUFFICES ASSUME ServerInv, NEW c \in Client, NEW i \in DOMAIN got[c],
                      NEW r, r = Watches[c], NEW e, e = got[c][i]
               PROVE  CASE e.event = "item" -> e.n <= Len(rows[r]) + lost[r]
                        [] e.event = "completed" ->
                               status[r] \in {"completed", "cancelled"} \/ r \in unsaved
                        [] OTHER -> status[r] # "pending" \/ r \in unsaved
    BY DEF StreamFollowsTable
  <2>1. Told(r, e)
    BY DEF ServerInv, ToldInv
  <2>2. e \in Events
    <3>1. got[c] \in Seq(Events)
      BY DEF ServerInv, ToldInv
    <3> QED
      BY <3>1, ElementOfSeq
  <2>3. e.event \in {"started", "item", "completed"}
    BY <2>2 DEF Events
  <2> QED
    BY <2>1, <2>3 DEF Told, Written
<1> QED
  BY <1>1, ServerInvariant, PTL

\* What a client got is a stretch of its job's events with nothing left out,
\* from the event after it connected or the one being sent just then
\* (BroadcastJobEvent, over the clients registered when it took the lock).
THEOREM StreamGapless == Spec => []StreamHasNoGap
<1>1. ServerInv => StreamHasNoGap
  <2> SUFFICES ASSUME ServerInv, NEW c \in Client, NEW es, es = events[Watches[c]],
                      NEW g, g = got[c], g # <<>>
               PROVE  \E from \in {since[c] - 1, since[c]} \ {0} :
                         /\ from + Len(g) - 1 <= Len(es)
                         /\ g = SubSeq(es, from, from + Len(g) - 1)
    BY DEF StreamHasNoGap
  <2>1. /\ Fits(c) /\ g \in Seq(Events) /\ es \in Seq(Events)
    BY ApiServerAssumption DEF ServerInv, GapInv, ToldInv
  <2>2. since[c] # 0
    BY <2>1 DEF Fits
  <2>3. PICK from \in Nat : Stretch(c, from)
    BY <2>1, <2>2 DEF Fits
  <2>4. /\ from > 0 /\ (from = since[c] - 1 \/ from = since[c])
        /\ from + Len(g) <= Len(es) + 1
        /\ \A i \in 1 .. Len(g) : g[i] = es[from + i - 1]
    BY <2>3 DEF Stretch
  <2> PICK m, n : m = Len(g) /\ n = Len(es)
    OBVIOUS
  <2>5. m \in Nat /\ n \in Nat
    BY <2>1, LenProperties
  <2>6. from + m - 1 <= n /\ from \in {since[c] - 1, since[c]} \ {0}
    BY <2>4, <2>5
  <2> PICK s : s = SubSeq(es, from, from + m - 1)
    OBVIOUS
  <2>7. m > 0
    BY <2>1, <2>5, EmptySeq, LenProperties
  <2>8. /\ s \in Seq(Events) /\ Len(s) = m
        /\ \A i \in 1 .. m : s[i] = es[from + i - 1]
    <3>1. from \in 1 .. n + 1 /\ from + m - 1 \in from - 1 .. n
      BY <2>4, <2>5, <2>6
    <3>2. from <= from + m - 1 + 1 /\ (from + m - 1) - from + 1 = m
      BY <2>5
    <3> QED
      BY <2>1, <2>4, <2>5, <3>1, <3>2, SubSeqProperties
  <2>9. g = s
    BY <2>1, <2>4, <2>8, SeqEqual
  <2> QED
    BY <2>6, <2>9
<1> QED
  BY <1>1, ServerInvariant, PTL

\* However many requests find no limiter at once, those let through under one
\* key at one instant are within the bursts of as many limiters as were made
\* side by side (getLimiter, whose second look is under another lock).
THEOREM AdmittedBounded == Spec => []AdmittedWithinBurst
<1>1. ServerInv => AdmittedWithinBurst
  <2> SUFFICES ASSUME ServerInv, NEW k \in Key PROVE admitted[k] <= Burst * Max({1, peak[k]})
    BY DEF AdmittedWithinBurst
  <2> PICK a, p, b : a = admitted[k] /\ p = peak[k] /\ b = Burst
    OBVIOUS
  <2>1. Within(k) /\ a \in Nat /\ p \in Nat /\ b \in Nat
    BY ApiServerAssumption DEF ServerInv, LimitInv
  <2> PICK q : q = Max({1, p})
    OBVIOUS
  <2>2. q \in Nat /\ p <= q
    BY <2>1, AtLeast
  <2>3. b * p \in Nat /\ b * q \in Nat /\ b * p <= b * q
    <3>1. b * p \in Nat /\ b * p <= b * q
      BY <2>1, <2>2, Multiples
    <3>2. b * q \in Nat
      BY <2>1, <2>2, Multiples
    <3> QED
      BY <3>1, <3>2
  <2>4. a <= b * p
    <3>1. CASE limiters[k] = None
      <4>1. a = 0
        BY <2>1, <3>1 DEF Within
      <4> QED
        BY <2>3, <4>1
    <3>2. CASE limiters[k] # None
      <4> PICK t, m, w : t = tokens[limiters[k]] /\ m = Cardinality(Missed(k)) /\ w = b * m
        OBVIOUS
      <4>1. a + t + w <= b * p /\ IsFiniteSet(Missed(k))
        BY <2>1, <3>2 DEF Within
      <4>2. m \in Nat
        BY <4>1, FS_CardinalityType
      <4>3. w \in Nat
        BY <2>1, <4>2, Multiples
      <4>4. limiters[k] \in Request /\ tokens \in [Request -> Nat]
        BY <3>2 DEF ServerInv, LimitInv
      <4>5. t \in Nat
        BY <4>4
      <4> QED
        BY <2>1, <2>3, <4>1, <4>3, <4>5
    <3> QED
      BY <3>1, <3>2
  <2> QED
    BY <2>1, <2>2, <2>3, <2>4
<1> QED
  BY <1>1, ServerInvariant, PTL

\* An MCP client that is told a batch is completed is given all items its
\* crawls found, wherever its call fell between the batch's last steps, and a
\* job whose id was given out is found (handleJobStatus, handleBatch).
THEOREM McpStatusWhole == InitMcp /\ [][NextMcp]_mcp => []StatusIsWhole
<1>1. McpInv => StatusIsWhole
  <2> SUFFICES ASSUME McpInv, NEW c \in Call, reply[c] # NoAnswer
               PROVE  /\ reply[c].status = "completed" =>
                             reply[c].items = found[about[c]] /\ todo[about[c]] = 0
                      /\ about[c] # NoAnswer => reply[c].says = "job"
    BY DEF StatusIsWhole
  <2>1. CallOk(c) /\ \A d \in DOMAIN jobs : JobOk(d)
    BY DEF McpInv
  <2> QED
    BY <2>1 DEF CallOk, JobOk
<1>2. McpInv /\ [NextMcp]_mcp => McpInv'
  BY McpStep
<1> QED
  BY <1>1, <1>2, McpInit, PTL

=============================================================================
