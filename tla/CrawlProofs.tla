----------------------------- MODULE CrawlProofs -----------------------------
(* Proofs about one crawl (Crawl) and about a crawl that is checkpointed,   *)
(* killed and resumed (CrawlCheckpoint), for any site, any number of        *)
(* workers, retries and restarts, and any idle streak.                      *)
EXTENDS CrawlCheckpoint, FiniteSetTheorems, TLAPS

(* What a crawl does between two starts: every step of Next, and of         *)
(* CheckpointNext but a restart, is one of these.                           *)
Step == Crawling \/ Wait \/ UNCHANGED vars

\* A worker holds a request from PopReady's claim to frontier.Done, and
\* answers for it until processRequest has settled it or passed it on.
Holding == {"putback", "send", "fetch", "page", "links", "done"}
Carrying == {"putback", "send", "fetch", "page"}

TypeInv ==
    /\ TypeOK
    /\ retries \in [Url -> Nat]
    /\ \A u \in waiting : retries[u] >= 1
    /\ monitor # "gone" => streak < IdleStreak
    /\ IsFiniteSet(waiting) /\ IsFiniteSet(pushed)
    /\ \A w \in Worker : cur[w] # None <=> pc[w] \in Holding
    /\ \A w \in Worker : link[w] # None => pc[w] = "links"

\* Only claimed URLs are in the crawl at all.
Claimed ==
    /\ queue \cup waiting \cup inFlight \subseteq seen
    /\ \A w \in Worker : cur[w] # None => cur[w] \in seen
    /\ \A w \in Worker : link[w] # None => link[w] \in seen
    /\ \A u \in Url : result[u] # "none" => u \in seen

\* No URL is in two places that will lead to a fetch of it.
OnePlace ==
    /\ queue \cap waiting = {}
    /\ \A w \in Worker : pc[w] \in Carrying => cur[w] \notin queue \cup waiting
    /\ \A w \in Worker : link[w] # None => link[w] \notin queue \cup waiting
    /\ \A v, w \in Worker : link[w] # None => cur[v] # link[w]
    /\ \A v, w \in Worker : link[w] # None /\ link[v] = link[w] => v = w
    /\ \A v, w \in Worker :
          pc[v] \in Carrying /\ pc[w] \in Carrying /\ cur[v] = cur[w] => v = w

\* What is still to be fetched, or emitted, has no result yet.
Unanswered ==
    /\ \A u \in queue \cup waiting : result[u] = "none"
    /\ \A w \in Worker : link[w] # None => result[link[w]] = "none"
    /\ \A w \in Worker : pc[w] \in Carrying => result[cur[w]] = "none"
    /\ \A w \in Worker : pc[w] = "links" => result[cur[w]] = "page"

PlaceInv == TypeInv /\ Claimed /\ OnePlace /\ Unanswered

\* With a backoff between a failure and its retry, one worker at a time has a
\* URL, and the frontier knows.
Exclusive ==
    /\ \A v, w \in Worker : cur[w] # None /\ cur[v] = cur[w] => v = w
    /\ \A w \in Worker : pc[w] = "done" => cur[w] \notin queue
    /\ \A w \in Worker : pc[w] \in Holding \ {"putback"} => cur[w] \in inFlight
    /\ \A u \in inFlight : \E w \in Worker : cur[w] = u /\ pc[w] # "putback"

\* The context is cancelled, and work is let go, only once the frontier is
\* closed or nobody is left to use it.
LetGo ==
    /\ state = "stopping" => closed
    /\ cancelled \/ state = "stopped" =>
          closed \/ (waiting = {} /\ \A w \in Worker : pc[w] = "left")
    /\ \A u \in Url : result[u] \in {"dropped", "cut"} => closed

\* Every URL claimed, but for those in E, is somewhere or has its result.
Accounted(E) ==
    \A u \in seen \ E :
        \/ result[u] # "none"
        \/ u \in queue \cup waiting
        \/ \E w \in Worker : link[w] = u \/ (pc[w] \in Carrying /\ cur[w] = u)

\* The links of a page are claimed, or still in its worker's hands.
LinksFollowed(E) ==
    \A u \in Url \ E :
        result[u] = "page" /\ depth[u] < MaxDepth =>
            \A l \in Links[u] :
                \/ l \in seen
                \/ \E w \in Worker : pc[w] = "links" /\ cur[w] = u /\ l \in todo[w]

\* A tick that nothing slips past is counted idle only once there is no work,
\* so all of a streak's ticks are blind while there is some. What a first read
\* of nothing leaves is in a backoff, until a retry is pushed.
StreakPaid ==
    /\ monitor # "second" => ~quiet /\ ~blink
    /\ closedBy = "idle" => monitor = "gone"
    /\ ~closed /\ Owed # {} => blind = streak
    /\ ~closed /\ quiet /\ ~blink => Owed \subseteq waiting

\* A sound idle close stays sound.
IdleEnd(E) ==
    closedBy = "idle" /\ blind < IdleStreak =>
        Owed = {} /\ \A u \in seen \ E : result[u] \in Settled

CrawlInv(E) == PlaceInv /\ LetGo /\ Accounted(E) /\ LinksFollowed(E)
TimedInv(E) == CrawlInv(E) /\ Exclusive /\ StreakPaid /\ IdleEnd(E)

CheckpointInv == CheckpointTypeOK /\ PlaceInv /\ snapshot \subseteq seen

(* A Save under way, and the file it will replace: what is claimed, and    *)
(* neither recorded as outstanding nor in a known gap, is over and done.   *)
Finished(u) ==
    /\ result[u] \in Settled
    /\ result[u] = "page" /\ depth[u] < MaxDepth => Links[u] \subseteq seen

SaveInv ==
    /\ saver \in {"saving", "lastSave"} =>
          \A u \in seen \ (snapshot \cup missed) : Finished(u)
    /\ LossOnlyInGaps
    /\ file # NoFile =>
          \A u \in file.seen \ (file.frontier \cup file.missed) :
              result[u] = "page" /\ file.depth[u] < MaxDepth
                  => Links[u] \subseteq file.seen

ResumeInv == TimedInv(excused) /\ SaveInv

-----------------------------------------------------------------------------
(* Types and places. *)

LEMMA TypeInit == Init => TypeInv
<1> SUFFICES ASSUME Init PROVE TypeInv
  OBVIOUS
<1> USE CrawlAssumption DEF Init, CrawlAssumption
<1>1. TypeOK
  <2>1. 0 \in 0 .. MaxDepth /\ 0 \in 0 .. IdleStreak /\ 0 \in 0 .. MaxPutBacks
    OBVIOUS
  <2>2. \A u \in Url : retries[u] \in 0 .. MaxRetries[u]
    OBVIOUS
  <2>3. depth \in [Url -> 0 .. MaxDepth] /\ result \in [Url -> {"none"}]
    BY <2>1
  <2>4. pc \in [Worker -> PC] /\ todo \in [Worker -> SUBSET Url]
    BY DEF PC
  <2> QED
    BY <2>1, <2>2, <2>3, <2>4 DEF TypeOK
<1>2. IsFiniteSet(waiting) /\ IsFiniteSet(pushed)
  BY FS_EmptySet
<1>3. retries \in [Url -> Nat] /\ streak < IdleStreak
  OBVIOUS
<1>4. \A w \in Worker : pc[w] = "pop" /\ cur[w] = None /\ link[w] = None
  OBVIOUS
<1> QED
  BY <1>1, <1>2, <1>3, <1>4 DEF TypeInv, Holding

LEMMA TypeStep == TypeInv /\ Step => TypeInv'
<1> SUFFICES ASSUME TypeInv, Step PROVE TypeInv'
  OBVIOUS
<1> USE CrawlAssumption DEF CrawlAssumption, TypeInv, TypeOK, PC, Holding, Settled,
        Goto, Settle, Push, work, stop, hands, retrying, watch
<1>1. ASSUME NEW w \in Worker, Take(w) \/ LoseClaim(w) PROVE TypeInv'
  BY <1>1 DEF Take, LoseClaim
<1>2. ASSUME NEW w \in Worker, PutBack(w) PROVE TypeInv'
  BY <1>2 DEF PutBack
<1>3. ASSUME NEW w \in Worker, Leave(w) \/ Stopped(w) PROVE TypeInv'
  BY <1>3 DEF Leave, Stopped
<1>4. ASSUME NEW w \in Worker, Skip(w) \/ Send(w) PROVE TypeInv'
  BY <1>4 DEF Skip, Send
<1>5. ASSUME NEW w \in Worker, Respond(w) \/ NotModified(w) \/ Fail(w)
      PROVE TypeInv'
  BY <1>5 DEF Respond, NotModified, Fail
<1>6. ASSUME NEW w \in Worker, Retry(w) PROVE TypeInv'
  BY <1>6, FS_AddElement DEF Retry
<1>7. ASSUME NEW w \in Worker, Emit(w) PROVE TypeInv'
  BY <1>7 DEF Emit
<1>8. ASSUME NEW w \in Worker, MarkLink(w) PROVE TypeInv'
  BY <1>8 DEF MarkLink
<1>9. ASSUME NEW w \in Worker, PushLink(w) PROVE TypeInv'
  BY <1>9 DEF PushLink
<1>10. ASSUME NEW w \in Worker, LinksAdded(w) \/ Done(w) PROVE TypeInv'
  BY <1>10 DEF LinksAdded, Done
<1>11. ASSUME NEW w \in Worker, CheckLimit(w) PROVE TypeInv'
  BY <1>11 DEF CheckLimit, BeginStop, closed
<1>12. ASSUME NEW u \in Url, RetryPush(u) PROVE TypeInv'
  <2>1. retries[u] \in 1 .. MaxRetries[u]
    BY <1>12 DEF RetryPush
  <2>2. \A p \in pushed' : p[1] \in Url /\ p[2] \in 1 .. MaxRetries[p[1]]
    BY <1>12, <2>1 DEF RetryPush
  <2>3. IsFiniteSet(waiting') /\ IsFiniteSet(pushed')
    BY <1>12, FS_AddElement, FS_RemoveElement DEF RetryPush
  <2> QED
    BY <1>12, <2>2, <2>3 DEF RetryPush
<1>13. ASSUME NEW u \in Url, RetryGiveUp(u) PROVE TypeInv'
  BY <1>13, FS_RemoveElement DEF RetryGiveUp
<1>14. ASSUME NEW p \in pushed, RetryUncount(p) PROVE TypeInv'
  BY <1>14, FS_RemoveElement DEF RetryUncount
<1>15. CASE ReadOutstanding
  BY <1>15 DEF ReadOutstanding
<1>16. CASE ReadPending
  <2>1. streak \in Nat /\ streak < IdleStreak
    BY <1>16 DEF ReadPending
  <2>2. streak' \in 0 .. IdleStreak /\ (monitor' # "gone" => streak' < IdleStreak)
    BY <1>16, <2>1 DEF ReadPending
  <2>3. blind' \in Nat
    BY <1>16 DEF ReadPending
  <2> QED
    BY <1>16, <2>2, <2>3 DEF ReadPending, closed
<1>17. CASE MonitorLeaves
  BY <1>17 DEF MonitorLeaves, closed
<1>18. CASE Stop
  BY <1>18 DEF Stop, BeginStop, closed
<1>19. CASE Cancel \/ JoinWorkers \/ Wait
  BY <1>19, ZenonT(30) DEF Cancel, JoinWorkers, Wait
<1>20. CASE UNCHANGED vars
  BY <1>20 DEF vars
<1> QED
  BY <1>1, <1>2, <1>3, <1>4, <1>5, <1>6, <1>7, <1>8, <1>9, <1>10, <1>11, <1>12,
     <1>13, <1>14, <1>15, <1>16, <1>17, <1>18, <1>19, <1>20
     DEF Step, Crawling, Work, Process, Retrier, Monitor

\* The monitor touches nothing but its own state and the frontier's closing.
LEMMA MonitorKeeps ==
    Monitor => UNCHANGED <<work, pc, hands, retrying, sent, result>>
<1>1. ReadOutstanding => UNCHANGED <<work, pc, hands, retrying, sent, result>>
  BY Zenon DEF ReadOutstanding
<1>2. ReadPending => UNCHANGED <<work, pc, hands, retrying, sent, result>>
  BY Zenon DEF ReadPending
<1>3. MonitorLeaves => UNCHANGED <<work, pc, hands, retrying, sent, result>>
  BY Zenon DEF MonitorLeaves
<1> QED
  BY <1>1, <1>2, <1>3 DEF Monitor

LEMMA PlaceInit == Init => PlaceInv
<1> SUFFICES ASSUME Init PROVE PlaceInv
  OBVIOUS
<1> USE CrawlAssumption DEF Init, CrawlAssumption
<1>1. \A w \in Worker : pc[w] = "pop" /\ cur[w] = None /\ link[w] = None
  OBVIOUS
<1>2. \A u \in Url : result[u] = "none"
  OBVIOUS
<1>3. Claimed /\ Unanswered
  BY <1>1, <1>2 DEF Claimed, Unanswered, Carrying
<1>4. OnePlace
  BY <1>1 DEF OnePlace, Carrying
<1> QED
  BY <1>3, <1>4, TypeInit DEF PlaceInv

LEMMA PlaceStep == PlaceInv /\ Step => PlaceInv'
<1> SUFFICES ASSUME PlaceInv, Step PROVE Claimed' /\ OnePlace' /\ Unanswered'
  BY TypeStep DEF PlaceInv
<1> TypeInv /\ TypeInv'
  BY TypeStep DEF PlaceInv
<1> DEFINE P == Claimed /\ OnePlace /\ Unanswered
<1> USE CrawlAssumption
    DEF CrawlAssumption, PlaceInv, Claimed, OnePlace, Unanswered, TypeInv, TypeOK, PC,
        Holding, Carrying, Goto, Settle, Push, work, stop, hands, retrying, watch
<1>1. ASSUME NEW w \in Worker, Take(w) \/ LoseClaim(w) PROVE P'
  BY <1>1, SMTT(30) DEF Take, LoseClaim
<1>2. ASSUME NEW w \in Worker, PutBack(w) PROVE P'
  BY <1>2 DEF PutBack
<1>3. ASSUME NEW w \in Worker, Leave(w) \/ Stopped(w) PROVE P'
  BY <1>3 DEF Leave, Stopped
<1>4. ASSUME NEW w \in Worker, Skip(w) \/ Send(w) PROVE P'
  <2>1. CASE Skip(w)
    BY <2>1 DEF Skip
  <2>2. CASE Send(w) /\ cancelled
    BY <2>2 DEF Send
  <2>3. CASE Send(w) /\ ~cancelled
    BY <2>3 DEF Send
  <2> QED
    BY <1>4, <2>1, <2>2, <2>3
<1>5. ASSUME NEW w \in Worker, Respond(w) \/ NotModified(w) \/ Fail(w) PROVE P'
  <2>1. CASE Respond(w)
    BY <2>1 DEF Respond
  <2>2. CASE NotModified(w)
    BY <2>2 DEF NotModified
  <2>3. CASE Fail(w)
    <3>1. /\ pc[w] = "fetch" /\ pc' = [pc EXCEPT ![w] = "done"]
          /\ \E r \in {"failed", "cut"} : result' = [result EXCEPT ![cur[w]] = r]
          /\ UNCHANGED <<work, hands, retrying>>
      BY <2>3 DEF Fail
    <3> QED
      BY <3>1
  <2> QED
    BY <1>5, <2>1, <2>2, <2>3
<1>6. ASSUME NEW w \in Worker, Retry(w) PROVE P'
  BY <1>6 DEF Retry
<1>7. ASSUME NEW w \in Worker, Emit(w) PROVE P'
  BY <1>7 DEF Emit
<1>8. ASSUME NEW w \in Worker, MarkLink(w) PROVE P'
  BY <1>8, SMTT(30) DEF MarkLink
<1>9. ASSUME NEW w \in Worker, PushLink(w) PROVE P'
  BY <1>9 DEF PushLink
<1>10. ASSUME NEW w \in Worker, LinksAdded(w) \/ Done(w) PROVE P'
  BY <1>10, SMTT(30) DEF LinksAdded, Done
<1>11. ASSUME NEW w \in Worker, CheckLimit(w) PROVE P'
  BY <1>11 DEF CheckLimit, BeginStop
<1>12. ASSUME NEW u \in Url, RetryPush(u) PROVE P'
  BY <1>12 DEF RetryPush
<1>13. ASSUME NEW u \in Url, RetryGiveUp(u) PROVE P'
  BY <1>13 DEF RetryGiveUp
<1>14. ASSUME NEW p \in pushed, RetryUncount(p) PROVE P'
  BY <1>14 DEF RetryUncount
<1>15. CASE Monitor
  BY <1>15, MonitorKeeps
<1>16. CASE Stop \/ Cancel \/ JoinWorkers \/ Wait \/ UNCHANGED vars
  BY <1>16 DEF Stop, BeginStop, Cancel, JoinWorkers, Wait, vars
<1> QED
  BY <1>1, <1>2, <1>3, <1>4, <1>5, <1>6, <1>7, <1>8, <1>9, <1>10, <1>11, <1>12,
     <1>13, <1>14, <1>15, <1>16 DEF Step, Crawling, Work, Process, Retrier, Monitor

LEMMA PlaceInvariant == Spec => []PlaceInv
<1>1. PlaceInv /\ [Next]_vars => PlaceInv'
  BY PlaceStep DEF Next, Over, Step
<1> QED
  BY PlaceInit, <1>1, PTL DEF Spec

(* Every variable keeps its type; in particular no request is retried more *)
(* often than its MaxRetries, and pendingRetries counts finitely many      *)
(* (scheduler.go:685, 739).                                                *)
THEOREM CrawlTypeCorrect == Spec => []TypeOK
  BY PlaceInvariant, PTL DEF PlaceInv, TypeInv

\* A step out of "page" is Emit's, or the end of the process.
LEMMA PageStep ==
    ASSUME PlaceInv
    PROVE  \A w \in Worker : pc[w] = "page" => result[cur[w]] = "none"
  BY DEF PlaceInv, Unanswered, Carrying

(* No page of a crawl is delivered twice, whichever workers find a link at *)
(* the same time, and whatever is retried, put back or drained             *)
(* (engine.go:354-360, scheduler.go:685-716).                              *)
THEOREM PageDeliveredOnce == Spec => PageOnce
<1>1. PlaceInv /\ [Next]_vars =>
        [\A w \in Worker : pc[w] = "page" /\ pc'[w] # "page"
              => result[cur[w]] = "none"]_vars
  BY PageStep
<1> QED
  BY PlaceInvariant, <1>1, PTL DEF Spec, PageOnce

-----------------------------------------------------------------------------
(* Nothing is lost while the frontier is open. *)

LEMMA CrawlInvInit == Init => CrawlInv({})
<1> SUFFICES ASSUME Init PROVE LetGo /\ Accounted({}) /\ LinksFollowed({})
  BY PlaceInit DEF CrawlInv
<1> QED
  BY CrawlAssumption DEF Init, CrawlAssumption, LetGo, Accounted, LinksFollowed, closed

LEMMA LetGoStep == PlaceInv /\ LetGo /\ Step => LetGo'
<1> SUFFICES ASSUME PlaceInv, LetGo, Step PROVE LetGo'
  OBVIOUS
<1> TypeInv /\ TypeInv'
  BY TypeStep DEF PlaceInv
<1> USE DEF LetGo, closed, TypeInv, TypeOK, PC, Settled, Holding, Goto, Settle, Push,
            work, stop, hands, retrying, watch
<1>1. ASSUME NEW w \in Worker, Take(w) \/ LoseClaim(w) PROVE LetGo'
  BY <1>1 DEF Take, LoseClaim
<1>2. ASSUME NEW w \in Worker, PutBack(w) PROVE LetGo'
  BY <1>2 DEF PutBack
<1>3. ASSUME NEW w \in Worker, Leave(w) \/ Stopped(w) PROVE LetGo'
  BY <1>3 DEF Leave, Stopped
<1>4. ASSUME NEW w \in Worker, Skip(w) \/ Send(w) PROVE LetGo'
  <2>1. CASE Skip(w)
    BY <2>1 DEF Skip
  <2>2. CASE Send(w) /\ cancelled
    BY <2>2 DEF Send
  <2>3. CASE Send(w) /\ ~cancelled
    BY <2>3 DEF Send
  <2> QED
    BY <1>4, <2>1, <2>2, <2>3
<1>5. ASSUME NEW w \in Worker, Respond(w) \/ NotModified(w) \/ Fail(w) PROVE LetGo'
  BY <1>5 DEF Respond, NotModified, Fail
<1>6. ASSUME NEW w \in Worker, Retry(w) PROVE LetGo'
  BY <1>6 DEF Retry
<1>7. ASSUME NEW w \in Worker, Emit(w) PROVE LetGo'
  BY <1>7 DEF Emit
<1>8. ASSUME NEW w \in Worker, MarkLink(w) \/ PushLink(w) PROVE LetGo'
  BY <1>8 DEF MarkLink, PushLink
<1>10. ASSUME NEW w \in Worker, LinksAdded(w) \/ Done(w) PROVE LetGo'
  BY <1>10 DEF LinksAdded, Done
<1>11. ASSUME NEW w \in Worker, CheckLimit(w) PROVE LetGo'
  BY <1>11 DEF CheckLimit, BeginStop
<1>12. ASSUME NEW u \in Url, RetryPush(u) \/ RetryGiveUp(u) PROVE LetGo'
  BY <1>12 DEF RetryPush, RetryGiveUp
<1>14. ASSUME NEW p \in pushed, RetryUncount(p) PROVE LetGo'
  BY <1>14 DEF RetryUncount
<1>15. CASE ReadOutstanding \/ ReadPending \/ MonitorLeaves
  BY <1>15 DEF ReadOutstanding, ReadPending, MonitorLeaves
<1>16. CASE Stop \/ Cancel \/ JoinWorkers \/ Wait \/ UNCHANGED vars
  BY <1>16 DEF Stop, BeginStop, Cancel, JoinWorkers, Wait, vars
<1> QED
  BY <1>1, <1>2, <1>3, <1>4, <1>5, <1>6, <1>7, <1>8, <1>10, <1>11, <1>12,
     <1>14, <1>15, <1>16 DEF Step, Crawling, Work, Process, Retrier, Monitor

LEMMA AccountedStep ==
    ASSUME NEW E, PlaceInv, Accounted(E), LinksFollowed(E), Step
    PROVE  Accounted(E)' /\ LinksFollowed(E)'
<1> DEFINE P == Accounted(E) /\ LinksFollowed(E)
<1> TypeInv /\ TypeInv'
  BY TypeStep DEF PlaceInv
<1> USE CrawlAssumption
    DEF CrawlAssumption, PlaceInv, Accounted, LinksFollowed, Claimed, OnePlace,
        Unanswered, TypeInv, TypeOK, PC, Settled, Holding, Carrying, Goto, Settle,
        Push, work, stop, hands, retrying, watch
<1>1. ASSUME NEW w \in Worker, Take(w) \/ LoseClaim(w) PROVE P'
  BY <1>1, SMTT(30) DEF Take, LoseClaim
<1>2. ASSUME NEW w \in Worker, PutBack(w) PROVE P'
  BY <1>2 DEF PutBack
<1>3. ASSUME NEW w \in Worker, Leave(w) \/ Stopped(w) PROVE P'
  BY <1>3 DEF Leave, Stopped
<1>4. ASSUME NEW w \in Worker, Skip(w) \/ Send(w) PROVE P'
  <2>1. CASE Skip(w)
    BY <2>1 DEF Skip
  <2>2. CASE Send(w) /\ cancelled
    BY <2>2, SMTT(30) DEF Send
  <2>3. CASE Send(w) /\ ~cancelled
    BY <2>3 DEF Send
  <2> QED
    BY <1>4, <2>1, <2>2, <2>3
<1>5. ASSUME NEW w \in Worker, Respond(w) \/ NotModified(w) \/ Fail(w) PROVE P'
  <2>1. CASE Respond(w)
    BY <2>1 DEF Respond
  <2>2. CASE NotModified(w)
    BY <2>2 DEF NotModified
  <2>3. CASE Fail(w)
    <3>1. /\ pc[w] = "fetch" /\ pc' = [pc EXCEPT ![w] = "done"]
          /\ \E r \in {"failed", "cut"} : result' = [result EXCEPT ![cur[w]] = r]
          /\ UNCHANGED <<work, hands, retrying>>
      BY <2>3 DEF Fail
    <3> QED
      BY <3>1
  <2> QED
    BY <1>5, <2>1, <2>2, <2>3
<1>6. ASSUME NEW w \in Worker, Retry(w) PROVE P'
  BY <1>6 DEF Retry
<1>7. ASSUME NEW w \in Worker, Emit(w) PROVE P'
  <2>1. Accounted(E)'
    BY <1>7 DEF Emit
  <2>2. /\ result[cur[w]] = "none" /\ pc[w] = "page" /\ cur[w] \in Url
        /\ UNCHANGED <<seen, depth, cur>>
    BY <1>7 DEF Emit
  <2>3. CASE result' = [result EXCEPT ![cur[w]] = "cut"]
    <3>1. pc' = [pc EXCEPT ![w] = "done"] /\ todo' = todo
      BY <1>7, <2>3, <2>2 DEF Emit
    <3> QED
      BY <2>1, <2>2, <2>3, <3>1
  <2>4. CASE /\ result' = [result EXCEPT ![cur[w]] = "page"]
             /\ pc' = [pc EXCEPT ![w] = "links"]
             /\ todo' = [todo EXCEPT ![w] = Links[cur[w]]]
    <3>1. \A v \in Worker : pc[v] = "links" => pc'[v] = "links" /\ todo'[v] = todo[v]
      BY <2>4, <2>2
    <3>2. pc'[w] = "links" /\ todo'[w] = Links[cur[w]]
      BY <2>4
    <3>3. LinksFollowed(E)'
      BY <3>1, <3>2, <2>2, <2>4
    <3> QED
      BY <2>1, <3>3
  <2> QED
    BY <1>7, <2>3, <2>4 DEF Emit
<1>8. ASSUME NEW w \in Worker, MarkLink(w) PROVE P'
  BY <1>8, SMTT(30) DEF MarkLink
<1>9. ASSUME NEW w \in Worker, PushLink(w) PROVE P'
  BY <1>9 DEF PushLink
<1>10. ASSUME NEW w \in Worker, LinksAdded(w) \/ Done(w) PROVE P'
  BY <1>10, SMTT(30) DEF LinksAdded, Done
<1>11. ASSUME NEW w \in Worker, CheckLimit(w) PROVE P'
  BY <1>11 DEF CheckLimit, BeginStop
<1>12. ASSUME NEW u \in Url, RetryPush(u) PROVE P'
  BY <1>12 DEF RetryPush
<1>13. ASSUME NEW u \in Url, RetryGiveUp(u) PROVE P'
  BY <1>13 DEF RetryGiveUp
<1>14. ASSUME NEW p \in pushed, RetryUncount(p) PROVE P'
  BY <1>14 DEF RetryUncount
<1>15. CASE Monitor
  BY <1>15, MonitorKeeps
<1>16. CASE Stop \/ Cancel \/ JoinWorkers \/ Wait \/ UNCHANGED vars
  BY <1>16 DEF Stop, BeginStop, Cancel, JoinWorkers, Wait, vars
<1> QED
  BY <1>1, <1>2, <1>3, <1>4, <1>5, <1>6, <1>7, <1>8, <1>9, <1>10, <1>11, <1>12,
     <1>13, <1>14, <1>15, <1>16 DEF Step, Crawling, Work, Process, Retrier, Monitor

LEMMA CrawlInvStep ==
    ASSUME NEW E, CrawlInv(E), Step
    PROVE  CrawlInv(E)'
  BY PlaceStep, LetGoStep, AccountedStep DEF CrawlInv

-----------------------------------------------------------------------------
(* A crawl uses the frontier as the pool of WorkPool. *)

Fetched == {"send", "fetch", "page"}

\* The refinement mapping, read off the places of an unanswered request.
Placed ==
    /\ \A u \in queue : StatusOf(u) = "queued"
    /\ \A u \in waiting : StatusOf(u) = "arriving"
    /\ \A w \in Worker : link[w] # None => StatusOf(link[w]) = "arriving"
    /\ \A w \in Worker : pc[w] = "putback" => StatusOf(cur[w]) = "queued"
    /\ \A w \in Worker : pc[w] \in Fetched => StatusOf(cur[w]) = "held"

LEMMA PlacedNow == PlaceInv => Placed
<1> SUFFICES ASSUME PlaceInv PROVE Placed
  OBVIOUS
<1> USE DEF PlaceInv, OnePlace, Unanswered, Carrying, StatusOf, Fetched
<1>1. \A u \in queue : StatusOf(u) = "queued"
  OBVIOUS
<1>2. \A u \in waiting : StatusOf(u) = "arriving"
  OBVIOUS
<1>3. \A w \in Worker : link[w] # None => StatusOf(link[w]) = "arriving"
  OBVIOUS
<1>4. \A w \in Worker : pc[w] = "putback" => StatusOf(cur[w]) = "queued"
  OBVIOUS
<1>5. \A w \in Worker : pc[w] \in Fetched => StatusOf(cur[w]) = "held"
  OBVIOUS
<1> QED
  BY <1>1, <1>2, <1>3, <1>4, <1>5 DEF Placed

LEMMA PlacedNext == PlaceInv' => Placed'
<1>1. PlaceInv => Placed
  BY PlacedNow
<1> QED
  BY <1>1, PTL

\* A step about one URL leaves the status of the others alone.
LEMMA OthersKeep ==
    ASSUME NEW u \in Url,
           queue' \ {u} = queue \ {u},
           \A q \in Url \ {u} : result'[q] = result[q],
           \A v \in Worker : \/ pc'[v] = pc[v] /\ cur'[v] = cur[v]
                             \/ cur[v] \in {u, None} /\ cur'[v] \in {u, None}
    PROVE  \A q \in Url \ {u} : StatusOf(q)' = StatusOf(q)
<1> SUFFICES ASSUME NEW q \in Url, q # u PROVE StatusOf(q)' = StatusOf(q)
  OBVIOUS
<1>1. q # None
  BY CrawlAssumption DEF CrawlAssumption
<1>2. q \in queue' <=> q \in queue
  OBVIOUS
<1>3. \A v \in Worker : cur'[v] = q <=> cur[v] = q
  BY <1>1
<1>4. \A v \in Worker : cur[v] = q => pc'[v] = pc[v]
  BY <1>1
<1> QED
  BY <1>2, <1>3, <1>4 DEF StatusOf

\* So does one that moves workers about without a request changing hands.
LEMMA AllKeep ==
    ASSUME UNCHANGED <<queue, result>>,
           \A v \in Worker :
              \/ pc'[v] = pc[v] /\ cur'[v] = cur[v]
              \/ pc[v] \in Fetched /\ pc'[v] \in Fetched /\ cur'[v] = cur[v]
              \/ pc[v] \notin Carrying /\ pc'[v] \notin Carrying
    PROVE  \A q \in Url : StatusOf(q)' = StatusOf(q)
<1> SUFFICES ASSUME NEW q \in Url PROVE StatusOf(q)' = StatusOf(q)
  OBVIOUS
<1> USE DEF Fetched, Carrying
<1>1. \A v \in Worker :
        pc'[v] = "putback" /\ cur'[v] = q <=> pc[v] = "putback" /\ cur[v] = q
  OBVIOUS
<1>2. \A v \in Worker :
        pc'[v] \in Fetched /\ cur'[v] = q <=> pc[v] \in Fetched /\ cur[v] = q
  OBVIOUS
<1> QED
  BY <1>1, <1>2 DEF StatusOf

LEMMA UsesPoolStep ==
    ASSUME PlaceInv, LetGo, Step
    PROVE  \/ UNCHANGED Pool!poolVars
           \/ Pool!PoolNext
           \/ ZeroBackoff /\ \E u \in Url : AtOnce(u)
<1> DEFINE Still == UNCHANGED Pool!poolVars
<1> TypeInv /\ PlaceInv' /\ Placed /\ Placed'
  BY PlaceStep, PlacedNow, PlacedNext DEF PlaceInv
<1> USE CrawlAssumption
    DEF CrawlAssumption, TypeInv, TypeOK, PC, Holding, Goto, Settle, Push,
        work, stop, hands, retrying, watch
\* A step that changes no status stutters; one that changes a single status
\* is the pool's Move.
<1>1. ASSUME \A q \in Url : StatusOf(q)' = StatusOf(q), closed' = closed
      PROVE  Still
  BY <1>1 DEF Pool!poolVars
<1>2. ASSUME NEW u \in Url, NEW to, closed' = closed, StatusOf(u)' = to,
             \A q \in Url \ {u} : StatusOf(q)' = StatusOf(q)
      PROVE  Pool!Move(u, StatusOf(u), to)
  BY <1>2 DEF Pool!Move
<1>3. ASSUME NEW w \in Worker, Take(w) PROVE \E u \in Url : Pool!HandOut(u)
  <2>1. PICK u \in queue : queue' = queue \ {u} /\ cur' = [cur EXCEPT ![w] = u]
    BY <1>3 DEF Take
  <2>2. /\ u \in Url /\ pc[w] = "pop" /\ pc' = [pc EXCEPT ![w] = "send"]
        /\ cur[w] = None /\ UNCHANGED <<result, closedBy>>
    BY <1>3 DEF Take
  <2>3. \A q \in Url \ {u} : StatusOf(q)' = StatusOf(q)
    BY <2>1, <2>2, OthersKeep
  <2>4. StatusOf(u) = "queued" /\ StatusOf(u)' = "held"
    BY <2>1, <2>2 DEF Placed, Fetched
  <2> QED
    BY <2>2, <2>3, <2>4, <1>2 DEF closed, Pool!HandOut
<1>4. ASSUME NEW w \in Worker, LoseClaim(w) PROVE Still
  <2>1. PICK u \in queue : queue' = queue \ {u} /\ cur' = [cur EXCEPT ![w] = u]
    BY <1>4 DEF LoseClaim
  <2>2. /\ u \in Url /\ pc[w] = "pop" /\ pc' = [pc EXCEPT ![w] = "putback"]
        /\ cur[w] = None /\ UNCHANGED <<result, closedBy>>
    BY <1>4 DEF LoseClaim
  <2>3. \A q \in Url \ {u} : StatusOf(q)' = StatusOf(q)
    BY <2>1, <2>2, OthersKeep
  <2>4. StatusOf(u) = "queued" /\ StatusOf(u)' = "queued"
    BY <2>1, <2>2 DEF Placed
  <2> QED
    BY <2>2, <2>3, <2>4, <1>1 DEF closed
<1>5. ASSUME NEW w \in Worker, PutBack(w)
      PROVE  Still \/ \E u \in Url : Pool!Refuse(u)
  <2>1. PICK u \in Url : u = cur[w]
    BY <1>5 DEF PutBack
  <2>2. /\ pc[w] = "putback" /\ cur' = [cur EXCEPT ![w] = None]
        /\ pc' = [pc EXCEPT ![w] = "pop"] /\ UNCHANGED closedBy /\ Push(u)
    BY <1>5, <2>1 DEF PutBack
  <2>3. \A q \in Url \ {u} : StatusOf(q)' = StatusOf(q)
    BY <2>1, <2>2, OthersKeep
  <2>4. StatusOf(u) = "queued"
    BY <2>1, <2>2 DEF Placed
  <2>5. CASE closed
    <3>1. StatusOf(u)' = "dropped"
      BY <2>2, <2>5 DEF StatusOf
    <3> QED
      BY <2>2, <2>3, <2>4, <2>5, <3>1, <1>2 DEF closed, Pool!Refuse
  <2>6. CASE ~closed
    <3>1. StatusOf(u)' = "queued"
      BY <2>2, <2>6 DEF Placed
    <3> QED
      BY <2>2, <2>3, <2>4, <3>1, <1>1 DEF closed
  <2> QED
    BY <2>5, <2>6
<1>6. ASSUME NEW w \in Worker,
             Leave(w) \/ Stopped(w) \/ Respond(w) \/ MarkLink(w) \/ LinksAdded(w) \/ Done(w)
      PROVE  Still
  <2>1. UNCHANGED <<queue, result, closedBy>>
    BY <1>6 DEF Leave, Stopped, Respond, MarkLink, LinksAdded, Done
  <2>2. \A v \in Worker : v # w => pc'[v] = pc[v] /\ cur'[v] = cur[v]
    BY <1>6 DEF Leave, Stopped, Respond, MarkLink, LinksAdded, Done
  <2>3. CASE Respond(w)
    BY <2>1, <2>2, <2>3, <1>1, AllKeep DEF Respond, Fetched, closed
  <2>4. CASE ~Respond(w)
    <3>1. pc[w] \notin Carrying /\ pc'[w] \notin Carrying
      BY <1>6, <2>4 DEF Leave, Stopped, MarkLink, LinksAdded, Done, Carrying
    <3> QED
      BY <2>1, <2>2, <3>1, <1>1, AllKeep DEF closed
  <2> QED
    BY <2>3, <2>4
<1>7. ASSUME NEW w \in Worker, Skip(w) \/ Send(w) \/ NotModified(w) \/ Fail(w) \/ Emit(w)
      PROVE  Still \/ \E u \in Url : Pool!Finish(u)
  <2>1. PICK u \in Url : u = cur[w] /\ pc[w] \in Fetched
    BY <1>7 DEF Skip, Send, NotModified, Fail, Emit, Fetched
  <2>2. /\ UNCHANGED <<queue, cur, closedBy>>
        /\ \A v \in Worker : v # w => pc'[v] = pc[v]
    BY <1>7 DEF Skip, Send, NotModified, Fail, Emit
  <2>3. CASE Send(w) /\ ~cancelled
    BY <2>1, <2>2, <2>3, <1>1, AllKeep DEF Send, Fetched, closed
  <2>4. CASE ~(Send(w) /\ ~cancelled)
    <3>1. \E r \in Settled \cup {"cut"} : result' = [result EXCEPT ![u] = r]
      BY <1>7, <2>1, <2>4 DEF Skip, Send, NotModified, Fail, Emit, Settled
    <3>2. \A q \in Url \ {u} : StatusOf(q)' = StatusOf(q)
      BY <2>1, <2>2, <3>1, OthersKeep
    <3>3. StatusOf(u) = "held" /\ StatusOf(u)' = "finished"
      BY <2>1, <3>1 DEF Placed, StatusOf, Settled
    <3> QED
      BY <2>2, <3>2, <3>3, <1>2 DEF closed, Pool!Finish
  <2> QED
    BY <2>3, <2>4
<1>8. ASSUME NEW w \in Worker, Retry(w)
      PROVE  \E u \in Url : Pool!Again(u) \/ (ZeroBackoff /\ AtOnce(u))
  <2>1. PICK u \in Url : u = cur[w] /\ pc[w] \in Fetched
    BY <1>8 DEF Retry, Fetched
  <2>2. /\ UNCHANGED <<cur, closedBy>>
        /\ \A v \in Worker : v # w => pc'[v] = pc[v]
        /\ IF ZeroBackoff THEN Push(u)
           ELSE waiting' = waiting \cup {u} /\ UNCHANGED <<queue, result>>
    BY <1>8, <2>1 DEF Retry
  <2>3. \A q \in Url \ {u} : StatusOf(q)' = StatusOf(q)
    BY <2>1, <2>2, OthersKeep
  <2>4. StatusOf(u) = "held"
    BY <2>1 DEF Placed
  <2>5. CASE ~ZeroBackoff
    <3>1. StatusOf(u)' = "arriving"
      BY <2>2, <2>5 DEF Placed
    <3> QED
      BY <2>2, <2>3, <2>4, <3>1, <1>2 DEF closed, Pool!Again
  <2>6. CASE ZeroBackoff
    <3>1. StatusOf(u)' = IF closed THEN "dropped" ELSE "queued"
      BY <2>2, <2>6 DEF Placed, StatusOf
    <3> QED
      BY <2>2, <2>3, <2>4, <2>6, <3>1, <1>2 DEF closed, AtOnce
  <2> QED
    BY <2>5, <2>6
\* A link found, or a retry whose timer has fired or been given up.
<1>9. ASSUME NEW u \in Url, UNCHANGED <<pc, cur, closedBy>>, StatusOf(u) = "arriving",
             Push(u) \/ (closed /\ Settle(u, "dropped") /\ UNCHANGED queue)
      PROVE  Pool!Accept(u) \/ Pool!Refuse(u)
  <2>1. \A q \in Url \ {u} : StatusOf(q)' = StatusOf(q)
    BY <1>9, OthersKeep
  <2>2. CASE closed
    <3>1. StatusOf(u)' = "dropped"
      BY <1>9, <2>2 DEF StatusOf
    <3> QED
      BY <1>9, <2>1, <2>2, <3>1, <1>2 DEF closed, Pool!Refuse
  <2>3. CASE ~closed
    <3>1. StatusOf(u)' = "queued"
      BY <1>9, <2>3 DEF Placed
    <3> QED
      BY <1>9, <2>1, <2>3, <3>1, <1>2 DEF closed, Pool!Accept
  <2> QED
    BY <2>2, <2>3
<1>10. ASSUME NEW w \in Worker, PushLink(w)
       PROVE  \E u \in Url : Pool!Accept(u) \/ Pool!Refuse(u)
  <2>1. PICK u \in Url : u = link[w]
    BY <1>10 DEF PushLink
  <2>2. UNCHANGED <<pc, cur, closedBy>> /\ Push(u) /\ StatusOf(u) = "arriving"
    BY <1>10, <2>1 DEF PushLink, Placed
  <2> QED
    BY <2>2, <1>9
<1>11. ASSUME NEW u \in Url, RetryPush(u) \/ RetryGiveUp(u)
       PROVE  Pool!Accept(u) \/ Pool!Refuse(u)
  <2>1. UNCHANGED <<pc, cur, closedBy>> /\ StatusOf(u) = "arriving"
    BY <1>11 DEF RetryPush, RetryGiveUp, Placed
  <2>2. Push(u) \/ (closed /\ Settle(u, "dropped") /\ UNCHANGED queue)
    BY <1>11 DEF RetryPush, RetryGiveUp, LetGo
  <2> QED
    BY <2>1, <2>2, <1>9
<1>12. ASSUME \A q \in Url : StatusOf(q)' = StatusOf(q), closed => closed'
       PROVE  Still \/ Pool!Shut
  <2>1. CASE closed <=> closed'
    BY <1>12, <2>1, <1>1 DEF closed
  <2>2. CASE ~closed /\ closed'
    BY <1>12, <2>2 DEF Pool!Shut
  <2> QED
    BY <1>12, <2>1, <2>2
<1>13. ASSUME NEW w \in Worker, CheckLimit(w) PROVE Still \/ Pool!Shut
  <2>1. /\ UNCHANGED <<queue, result, cur>> /\ (closed => closed')
        /\ \A v \in Worker : v # w => pc'[v] = pc[v]
        /\ pc[w] \notin Carrying /\ pc'[w] \notin Carrying
    BY <1>13 DEF CheckLimit, BeginStop, closed, Carrying
  <2>2. \A q \in Url : StatusOf(q)' = StatusOf(q)
    BY <2>1, AllKeep
  <2> QED
    BY <2>1, <2>2, <1>12
<1>14. ASSUME \/ ReadOutstanding \/ ReadPending \/ MonitorLeaves \/ Stop \/ Cancel
              \/ JoinWorkers \/ Wait \/ (\E p \in pushed : RetryUncount(p))
              \/ UNCHANGED vars
       PROVE  Still \/ Pool!Shut
  <2>1. UNCHANGED <<queue, result, pc, cur>> /\ (closed => closed')
    BY <1>14 DEF ReadOutstanding, ReadPending, MonitorLeaves, Stop, BeginStop, Cancel,
       JoinWorkers, Wait, RetryUncount, vars, closed
  <2>2. \A q \in Url : StatusOf(q)' = StatusOf(q)
    BY <2>1, AllKeep
  <2> QED
    BY <2>1, <2>2, <1>12
<1> HIDE DEF Still
<1> QED
  <2>1. CASE \E w \in Worker : Work(w) \/ LoseClaim(w)
    BY <2>1, <1>3, <1>4, <1>5, <1>6, <1>7, <1>8, <1>10, <1>13
    DEF Work, Process, Pool!PoolNext, Still
  <2>2. CASE ~\E w \in Worker : Work(w) \/ LoseClaim(w)
    BY <2>2, <1>11, <1>14 DEF Step, Crawling, Retrier, Monitor, Pool!PoolNext, Still
  <2> QED
    BY <2>1, <2>2

(* Workers, retries, the idle monitor and Stop use the frontier only as    *)
(* the pool FrontierImplementsPool shows it to be: a request is fetched by *)
(* the one worker it was handed to and is let go only by a closed frontier *)
(* (frontier.go:74-237, scheduler.go:170-217, 677-755).                    *)
THEOREM CrawlUsesPool == Spec => UsesPool
<1>1. PlaceInv /\ LetGo /\ [Next]_vars =>
        [Pool!PoolNext \/ (ZeroBackoff /\ \E u \in Url : AtOnce(u))]_(Pool!poolVars)
  BY UsesPoolStep DEF Next, Over, Step
<1>2. PlaceInv /\ LetGo /\ [Next]_vars => (PlaceInv /\ LetGo)'
  BY PlaceStep, LetGoStep DEF Next, Over, Step
<1>3. Init => PlaceInv /\ LetGo
  BY CrawlInvInit DEF CrawlInv
<1> QED
  BY <1>1, <1>2, <1>3, PTL DEF Spec, UsesPool

-----------------------------------------------------------------------------
(* The end of a crawl. *)

LEMMA ExclusiveInit == Init => Exclusive
  BY DEF Init, Exclusive, Holding

LEMMA ExclusiveStep ==
    ASSUME ~ZeroBackoff, PlaceInv, Exclusive, Step
    PROVE  Exclusive'
<1> TypeInv /\ TypeInv'
  BY TypeStep DEF PlaceInv
<1> USE CrawlAssumption
    DEF CrawlAssumption, PlaceInv, Exclusive, Claimed, OnePlace, Unanswered, TypeInv,
        TypeOK, PC, Holding, Carrying, Goto, Settle, Push, work, stop, hands,
        retrying, watch
<1>1. ASSUME NEW w \in Worker, Take(w) \/ LoseClaim(w) PROVE Exclusive'
  <2>1. PICK u \in queue : /\ queue' = queue \ {u}
                           /\ cur' = [cur EXCEPT ![w] = u]
                           /\ inFlight' = inFlight \cup (IF Take(w) THEN {u} ELSE {})
                           /\ pc' = [pc EXCEPT ![w] = IF Take(w) THEN "send" ELSE "putback"]
    BY <1>1 DEF Take, LoseClaim
  <2>2. \A v \in Worker : cur[v] # u
    OBVIOUS
  <2>3. pc[w] = "pop" /\ cur[w] = None /\ u \in Url
    BY <1>1 DEF Take, LoseClaim
  <2>4. \A v \in Worker : v # w => cur'[v] = cur[v] /\ pc'[v] = pc[v]
    BY <2>1
  <2>5. cur'[w] = u /\ pc'[w] = IF Take(w) THEN "send" ELSE "putback"
    BY <2>1
  <2>6. \A x \in inFlight' : \E v \in Worker : cur'[v] = x /\ pc'[v] # "putback"
    BY <2>1, <2>3, <2>4, <2>5
  <2> QED
    BY <2>1, <2>2, <2>3, <2>4, <2>5, <2>6
<1>2. ASSUME NEW w \in Worker, PutBack(w) PROVE Exclusive'
  BY <1>2 DEF PutBack
<1>3. ASSUME NEW w \in Worker, Leave(w) \/ Stopped(w) PROVE Exclusive'
  BY <1>3 DEF Leave, Stopped
<1>4. ASSUME NEW w \in Worker, Skip(w) \/ Send(w) PROVE Exclusive'
  BY <1>4 DEF Skip, Send
<1>5. ASSUME NEW w \in Worker, Respond(w) \/ NotModified(w) \/ Fail(w)
      PROVE  Exclusive'
  BY <1>5 DEF Respond, NotModified, Fail
<1>6. ASSUME NEW w \in Worker, Retry(w) PROVE Exclusive'
  BY <1>6 DEF Retry
<1>7. ASSUME NEW w \in Worker, Emit(w) PROVE Exclusive'
  BY <1>7 DEF Emit
<1>8. ASSUME NEW w \in Worker, MarkLink(w) PROVE Exclusive'
  BY <1>8 DEF MarkLink
<1>9. ASSUME NEW w \in Worker, PushLink(w) PROVE Exclusive'
  BY <1>9 DEF PushLink
<1>10. ASSUME NEW w \in Worker, LinksAdded(w) \/ Done(w) PROVE Exclusive'
  BY <1>10, SMTT(30) DEF LinksAdded, Done
<1>11. ASSUME NEW w \in Worker, CheckLimit(w) PROVE Exclusive'
  BY <1>11 DEF CheckLimit, BeginStop
<1>12. ASSUME NEW u \in Url, RetryPush(u) \/ RetryGiveUp(u) PROVE Exclusive'
  BY <1>12 DEF RetryPush, RetryGiveUp
<1>14. ASSUME NEW p \in pushed, RetryUncount(p) PROVE Exclusive'
  BY <1>14 DEF RetryUncount
<1>15. CASE Monitor
  BY <1>15, MonitorKeeps
<1>16. CASE Stop \/ Cancel \/ JoinWorkers \/ Wait \/ UNCHANGED vars
  BY <1>16 DEF Stop, BeginStop, Cancel, JoinWorkers, Wait, vars
<1> QED
  BY <1>1, <1>2, <1>3, <1>4, <1>5, <1>6, <1>7, <1>8, <1>9, <1>10, <1>11, <1>12,
     <1>14, <1>15, <1>16 DEF Step, Crawling, Work, Process, Retrier, Monitor

\* Where the work a crawl still owes can be.
LEMMA OwedMember ==
    ASSUME TypeInv
    PROVE  /\ queue \cup waiting \subseteq Owed /\ Owed \subseteq Url
           /\ \A w \in Worker : cur[w] # None => cur[w] \in Owed
           /\ \A w \in Worker : link[w] # None => link[w] \in Owed
           /\ \A u \in Owed : \/ u \in queue \cup waiting
                            \/ \E w \in Worker : cur[w] = u \/ link[w] = u
<1>1. \A u : u \in Owed <=> \/ u \in queue \cup waiting
                            \/ u # None /\ \E w \in Worker : cur[w] = u \/ link[w] = u
  BY DEF Owed, Held, InHand
<1> QED
  BY <1>1, CrawlAssumption DEF TypeInv, TypeOK, CrawlAssumption

\* Work comes only from work.
LEMMA NoWorkFromNothing ==
    ASSUME PlaceInv, Step, Owed = {}
    PROVE  Owed' = {} /\ UNCHANGED <<seen, result>>
<1> TypeInv /\ TypeInv'
  BY TypeStep DEF PlaceInv
<1>1. /\ queue = {} /\ waiting = {}
      /\ \A w \in Worker : cur[w] = None /\ link[w] = None /\ pc[w] \notin Holding
  BY OwedMember DEF TypeInv
<1> DEFINE Same == UNCHANGED <<seen, queue, waiting, cur, link, result>>
<1> USE DEF work, stop, hands, retrying, watch, Holding
<1>2. ASSUME NEW w \in Worker, Take(w) \/ LoseClaim(w) \/ PutBack(w) \/ Leave(w) PROVE Same
  BY <1>1, <1>2 DEF Take, LoseClaim, PutBack, Leave
<1>3. ASSUME NEW w \in Worker, Process(w) PROVE Same
  BY <1>1, <1>3 DEF Process, Skip, Send, Respond, NotModified, Fail, Retry, Emit, MarkLink,
                    PushLink, LinksAdded, Done
<1>4. ASSUME NEW w \in Worker, CheckLimit(w) \/ Stopped(w) PROVE Same
  BY <1>1, <1>4 DEF CheckLimit, Stopped
<1>5. ASSUME Retrier PROVE Same
  BY <1>1, <1>5 DEF Retrier, RetryPush, RetryGiveUp, RetryUncount
<1>6. ASSUME Monitor PROVE Same
  BY <1>6 DEF Monitor, ReadOutstanding, ReadPending, MonitorLeaves
<1>7. ASSUME Stop \/ Cancel \/ JoinWorkers \/ Wait \/ UNCHANGED vars PROVE Same
  BY <1>7 DEF Stop, Cancel, JoinWorkers, Wait, vars
<1>8. Same
  BY <1>2, <1>3, <1>4, <1>5, <1>6, <1>7 DEF Step, Crawling, Work
<1> QED
  BY <1>8 DEF Owed, Held, InHand

\* Work that is all in a backoff stays there until a retry is pushed.
LEMMA BackoffStays ==
    ASSUME ~ZeroBackoff, PlaceInv, LetGo, ~closed, Step,
           \A u \in Url : ~RetryPush(u), Owed \subseteq waiting
    PROVE  Owed' \subseteq waiting'
<1> TypeInv /\ TypeInv'
  BY TypeStep DEF PlaceInv
<1>1. /\ queue = {}
      /\ \A w \in Worker : /\ link[w] = None
                           /\ cur[w] # None => pc[w] = "done" /\ cur[w] \in waiting
                           /\ pc[w] \notin Holding \ {"done"}
  <2>1. queue = {}
    BY DEF Owed, PlaceInv, OnePlace
  <2>2. \A w \in Worker : link[w] = None
    BY CrawlAssumption DEF CrawlAssumption, Owed, InHand, PlaceInv, OnePlace, TypeInv, TypeOK
  <2>3. \A w \in Worker : cur[w] # None => cur[w] \in waiting
    BY CrawlAssumption DEF CrawlAssumption, Owed, Held, TypeInv, TypeOK
  <2> QED
    BY <2>1, <2>2, <2>3
       DEF PlaceInv, OnePlace, Unanswered, TypeInv, TypeOK, Holding, Carrying
<1> USE DEF TypeInv, TypeOK, PC, Holding, Goto, Settle, Push
<1>2. ASSUME NEW w \in Worker, Done(w) PROVE Owed' \subseteq waiting'
  BY <1>1, <1>2 DEF Done, Owed, Held, InHand, retrying
<1>3. ASSUME NEW u \in Url, RetryGiveUp(u) PROVE FALSE
  BY <1>3 DEF RetryGiveUp, LetGo
<1> DEFINE Same == UNCHANGED <<queue, waiting, cur, link>>
<1> USE DEF work, stop, hands, retrying, watch
<1>4. ASSUME NEW w \in Worker, Take(w) \/ LoseClaim(w) \/ PutBack(w) \/ Leave(w) PROVE Same
  BY <1>1, <1>4 DEF Take, LoseClaim, PutBack, Leave
<1>5. ASSUME NEW w \in Worker, Process(w), ~Done(w) PROVE Same
  BY <1>1, <1>5 DEF Process, Skip, Send, Respond, NotModified, Fail, Retry, Emit, MarkLink,
                    PushLink, LinksAdded
<1>6. ASSUME NEW w \in Worker, CheckLimit(w) \/ Stopped(w) PROVE Same
  BY <1>6 DEF CheckLimit, Stopped
<1>7. ASSUME NEW p \in pushed, RetryUncount(p) PROVE Same
  BY <1>7 DEF RetryUncount
<1>8. ASSUME Monitor PROVE Same
  BY <1>8 DEF Monitor, ReadOutstanding, ReadPending, MonitorLeaves
<1>9. ASSUME Stop \/ Cancel \/ JoinWorkers \/ Wait \/ UNCHANGED vars PROVE Same
  BY <1>9 DEF Stop, Cancel, JoinWorkers, Wait, vars
<1>10. Same => Owed' \subseteq waiting'
  BY DEF Owed, Held, InHand
<1> QED
  BY <1>2, <1>3, <1>4, <1>5, <1>6, <1>7, <1>8, <1>9, <1>10
     DEF Step, Crawling, Work, Retrier

LEMMA StreakInit == Init => StreakPaid
  BY DEF Init, StreakPaid, closed

\* Between the monitor's reads and the retries' pushes nothing it knows changes.
LEMMA WatchStays ==
    ASSUME Step, \A u \in Url : ~RetryPush(u), ~Monitor
    PROVE  UNCHANGED watch
<1> USE DEF watch
<1>1. ASSUME NEW w \in Worker, Work(w) \/ LoseClaim(w) PROVE UNCHANGED watch
  BY <1>1 DEF Work, Process, Take, LoseClaim, PutBack, Leave, Skip, Send, Respond,
    NotModified, Fail, Retry, Emit, MarkLink, PushLink, LinksAdded, Done,
    CheckLimit, Stopped
<1>2. ASSUME Retrier PROVE UNCHANGED watch
  BY <1>2 DEF Retrier, RetryUncount, RetryGiveUp
<1>3. ASSUME Stop \/ Cancel \/ JoinWorkers \/ Wait \/ UNCHANGED vars PROVE UNCHANGED watch
  BY <1>3 DEF Stop, Cancel, JoinWorkers, Wait, vars
<1> QED
  BY <1>1, <1>2, <1>3 DEF Step, Crawling

\* Only the monitor's second read closes the frontier for idleness.
LEMMA IdleCloser ==
    ASSUME Step, closedBy' = "idle"
    PROVE  closedBy = "idle" \/ (~closed /\ ReadPending)
<1> DEFINE Q == closedBy' = "idle" => closedBy = "idle"
<1> USE DEF stop, closed
<1>1. ASSUME NEW w \in Worker, Work(w) \/ LoseClaim(w) PROVE Q
  BY <1>1 DEF Work, Process, Take, LoseClaim, PutBack, Leave, Skip, Send, Respond,
    NotModified, Fail, Retry, Emit, MarkLink, PushLink, LinksAdded, Done,
    CheckLimit, BeginStop, Stopped
<1>2. ASSUME Retrier \/ ReadOutstanding \/ MonitorLeaves PROVE Q
  BY <1>2 DEF Retrier, RetryPush, RetryUncount, RetryGiveUp, ReadOutstanding,
    MonitorLeaves
<1>3. ASSUME Stop \/ Cancel \/ JoinWorkers \/ Wait \/ UNCHANGED vars PROVE Q
  BY <1>3 DEF Stop, BeginStop, Cancel, JoinWorkers, Wait, vars
<1>4. ASSUME ReadPending, closed PROVE Q
  BY <1>4 DEF ReadPending
<1> QED
  BY <1>1, <1>2, <1>3, <1>4 DEF Step, Crawling, Monitor

\* A tick counted idle with work left was blind.
LEMMA IdleTick ==
    ASSUME PlaceInv, StreakPaid, ~closed, quiet, pendingRetries = 0, Owed # {}
    PROVE  blink
<1>1. waiting = {}
  <2>1. /\ Cardinality(waiting) \in Nat /\ Cardinality(pushed) \in Nat
        /\ Cardinality(waiting) = 0 <=> waiting = {}
    BY FS_CardinalityType, FS_EmptySet DEF PlaceInv, TypeInv
  <2> QED
    BY <2>1 DEF pendingRetries
<1> QED
  BY <1>1 DEF StreakPaid

\* And so a streak that would end the crawl with work left is all blind.
LEMMA IdleRead ==
    ASSUME PlaceInv, StreakPaid, ~closed, ReadPending, Owed # {}
    PROVE  blind' = streak'
<1>1. blind = streak
  BY DEF StreakPaid
<1>2. CASE quiet /\ pendingRetries = 0
  <2>1. blink
    BY <1>2, IdleTick
  <2> QED
    BY <1>1, <1>2, <2>1 DEF ReadPending
<1>3. CASE ~(quiet /\ pendingRetries = 0)
  BY <1>3 DEF ReadPending
<1> QED
  BY <1>2, <1>3

LEMMA StreakStep ==
    ASSUME ~ZeroBackoff, PlaceInv, LetGo, Exclusive, StreakPaid, Step
    PROVE  StreakPaid'
<1> TypeInv /\ TypeInv'
  BY TypeStep DEF PlaceInv
<1>1. ~closed' => ~closed
  BY DEF Step, Crawling, Work, Process, Retrier, Monitor, closed, Take,
      LoseClaim, PutBack, Leave, Skip, Send, Respond, NotModified, Fail, Retry, Emit,
      MarkLink, PushLink, LinksAdded, Done, CheckLimit, Stopped, Stop, Cancel,
      JoinWorkers, Wait, RetryPush, RetryUncount, RetryGiveUp, ReadOutstanding,
      ReadPending, MonitorLeaves, BeginStop, vars, stop
<1>2. Owed' # {} => Owed # {}
  BY NoWorkFromNothing
<1>3. ASSUME NEW u \in Url, RetryPush(u) PROVE StreakPaid'
  <2>1. /\ UNCHANGED <<streak, monitor, quiet, blind, closedBy>>
        /\ blink' = (blink \/ monitor = "second")
    BY <1>3 DEF RetryPush, stop
  <2> QED
    BY <1>1, <1>2, <2>1 DEF StreakPaid
<1>4. ASSUME ReadOutstanding PROVE StreakPaid'
  <2>1. /\ UNCHANGED <<streak, blind, closedBy, queue, waiting, inFlight, cur, link, pc>>
        /\ monitor' = "second" /\ monitor = "tick"
    BY <1>4 DEF ReadOutstanding, work, stop, hands, retrying
  <2>2. Owed' = Owed
    BY <2>1 DEF Owed, Held, InHand
  <2>3. ASSUME quiet', ~blink', ~(Owed \subseteq waiting) PROVE FALSE
    <3>1. /\ queue = {} /\ inFlight = {}
          /\ \A w \in Worker : pc[w] # "putback"
      BY <1>4, <2>3 DEF ReadOutstanding
    <3>2. PICK u \in Owed : u \notin waiting
      BY <2>3
    <3>3. PICK w \in Worker : cur[w] = u \/ link[w] = u
      BY <3>1, <3>2, OwedMember
    <3>4. u # None
      BY OwedMember, CrawlAssumption DEF CrawlAssumption
    <3>5. pc[w] \in Holding
      BY <3>3, <3>4 DEF TypeInv, TypeOK, Holding
    <3> QED
      BY <3>1, <3>5 DEF Exclusive
  <2> QED
    BY <1>1, <2>1, <2>2, <2>3 DEF StreakPaid, closed
<1>5. ASSUME ReadPending PROVE StreakPaid'
  <2>1. UNCHANGED <<queue, waiting, cur, link>> /\ ~quiet' /\ ~blink'
    BY <1>5 DEF ReadPending, work, hands, retrying
  <2>2. Owed' = Owed
    BY <2>1 DEF Owed, Held, InHand
  <2>3. ~closed /\ Owed # {} => blind' = streak'
    BY <1>5, IdleRead
  <2>4. closedBy' = "idle" => monitor' = "gone"
    BY <1>5 DEF ReadPending, StreakPaid
  <2> QED
    BY <1>1, <2>1, <2>2, <2>3, <2>4 DEF StreakPaid
<1>6. ASSUME MonitorLeaves PROVE StreakPaid'
  <2>1. UNCHANGED <<streak, blind, quiet, blink>> /\ closed' /\ ~quiet /\ ~blink
        /\ monitor' = "gone"
    BY <1>6 DEF MonitorLeaves, StreakPaid, closed
  <2> QED
    BY <2>1 DEF StreakPaid
<1>7. ASSUME \A u \in Url : ~RetryPush(u), ~Monitor PROVE StreakPaid'
  <2>1. UNCHANGED <<streak, quiet, blink, blind, monitor>>
    BY <1>7, WatchStays DEF watch
  <2>2. closedBy' = "idle" => closedBy = "idle"
    BY <1>7, IdleCloser DEF Monitor
  <2>3. ~closed /\ Owed \subseteq waiting => Owed' \subseteq waiting'
    BY <1>7, BackoffStays
  <2> QED
    BY <1>1, <1>2, <2>1, <2>2, <2>3 DEF StreakPaid
<1> QED
  BY <1>3, <1>4, <1>5, <1>6, <1>7 DEF Monitor

LEMMA IdleEndStep ==
    ASSUME NEW E, ~ZeroBackoff, CrawlInv(E), StreakPaid, IdleEnd(E), Step
    PROVE  IdleEnd(E)'
<1> PlaceInv /\ TypeInv /\ TypeInv' /\ LetGo
  BY TypeStep DEF CrawlInv, PlaceInv
<1>1. CASE closedBy = "idle"
  <2>1. UNCHANGED blind
    <3>1. ~Monitor
      BY <1>1 DEF StreakPaid, Monitor, ReadOutstanding, ReadPending, MonitorLeaves
    <3>2. ASSUME NEW u \in Url, RetryPush(u) PROVE UNCHANGED blind
      BY <3>2 DEF RetryPush
    <3> QED
      BY <3>1, <3>2, WatchStays DEF watch
  <2>2. blind < IdleStreak =>
            Owed = {} /\ \A u \in seen \ E : result[u] \in Settled
    BY <1>1 DEF IdleEnd
  <2> QED
    BY <2>1, <2>2, NoWorkFromNothing DEF IdleEnd
<1>2. CASE ~closed /\ ReadPending
  <2> SUFFICES ASSUME closedBy' = "idle", blind' < IdleStreak
               PROVE  Owed' = {} /\ (\A u \in seen' \ E : result'[u] \in Settled)
    BY DEF IdleEnd
  <2>1. /\ UNCHANGED <<seen, result>>
        /\ streak' >= IdleStreak
    BY <1>2 DEF ReadPending, work, closed
  <2>2. blind' # streak'
    BY <2>1, CrawlAssumption DEF CrawlAssumption, TypeInv, TypeOK
  <2>3. Owed = {}
    BY <1>2, <2>2, IdleRead
  <2>4. Owed' = {}
    BY <2>3, NoWorkFromNothing
  <2>5. \A u \in seen \ E : result[u] \in Settled
    <3>1. queue = {} /\ waiting = {} /\ \A w \in Worker : cur[w] = None /\ link[w] = None
      BY <2>3, OwedMember
    <3>2. \A u \in seen : u \in Url /\ u # None
      BY CrawlAssumption DEF CrawlAssumption, TypeInv, TypeOK
    <3>3. \A u \in seen \ E : result[u] # "none"
      BY <3>1, <3>2 DEF CrawlInv, Accounted
    <3> QED
      BY <1>2, <3>2, <3>3 DEF LetGo, TypeInv, TypeOK, Settled
  <2> QED
    BY <2>1, <2>4, <2>5
<1>3. CASE closedBy' # "idle"
  BY <1>3 DEF IdleEnd
<1> QED
  BY <1>1, <1>2, <1>3, IdleCloser

LEMMA TimedStep ==
    ASSUME NEW E, ~ZeroBackoff, TimedInv(E), Step
    PROVE  TimedInv(E)'
<1>1. CrawlInv(E)'
  BY CrawlInvStep DEF TimedInv
<1>2. Exclusive' /\ StreakPaid'
  BY ExclusiveStep, StreakStep DEF TimedInv, CrawlInv
<1>3. IdleEnd(E)'
  BY IdleEndStep DEF TimedInv
<1> QED
  BY <1>1, <1>2, <1>3 DEF TimedInv

LEMMA TimedInvariant ==
    ASSUME ~ZeroBackoff
    PROVE  Spec => []TimedInv({})
<1>1. Init => TimedInv({})
  <2>1. Init => IdleEnd({})
    BY DEF Init, IdleEnd
  <2> QED
    BY <2>1, CrawlInvInit, ExclusiveInit, StreakInit DEF TimedInv
<1>2. TimedInv({}) /\ [Next]_vars => TimedInv({})'
  BY TimedStep DEF Next, Over, Step
<1> QED
  BY <1>1, <1>2, PTL DEF Spec

\* What is settled and owes nothing has claimed its links.
LEMMA FollowedAtEnd ==
    ASSUME NEW E, PlaceInv, LinksFollowed(E), Owed = {}
    PROVE  \A u \in Url \ E : result[u] = "page" /\ depth[u] < MaxDepth
                                  => Links[u] \subseteq seen
<1>1. \A w \in Worker : pc[w] # "links"
  BY OwedMember DEF PlaceInv, TypeInv, Holding
<1> QED
  BY <1>1 DEF LinksFollowed

(* "idleMonitor closes the frontier once there is provably no work left"   *)
(* (scheduler.go:122), whatever the length of its streak and however many  *)
(* retries and put-backs came before, unless one of them fell under every  *)
(* single tick of the streak it closes on. A retry comes after its         *)
(* worker's Done: pushed before, as without a backoff or with a jitter     *)
(* close to zero (backoff.go:51-53), that Done also releases the request   *)
(* another worker already has again (scheduler.go:712-716).                *)
THEOREM IdleCloseSound ==
    ASSUME ~ZeroBackoff
    PROVE  Spec => []IdleCloseIsSound
<1>1. TimedInv({}) => IdleCloseIsSound
  BY DEF TimedInv, IdleEnd, IdleCloseIsSound
<1> QED
  BY TimedInvariant, <1>1, PTL

(* A crawl that its idle monitor ended has answered every URL it claimed,  *)
(* and claimed every link of every page it read (engine.go:334-371,        *)
(* scheduler.go:204-207).                                                  *)
THEOREM CrawlComplete ==
    ASSUME ~ZeroBackoff
    PROVE  Spec => []CompleteAtEnd
<1>1. TimedInv({}) => CompleteAtEnd
  <2> SUFFICES ASSUME TimedInv({}), closedBy = "idle", blind < IdleStreak,
                      NEW u \in seen
               PROVE  /\ result[u] \in Settled
                      /\ result[u] = "page" /\ depth[u] < MaxDepth => Links[u] \subseteq seen
    BY DEF CompleteAtEnd
  <2>1. Owed = {} /\ result[u] \in Settled
    BY DEF TimedInv, IdleEnd
  <2>2. u \in Url
    BY DEF TimedInv, CrawlInv, PlaceInv, TypeInv, TypeOK
  <2> QED
    BY <2>1, <2>2, FollowedAtEnd DEF TimedInv, CrawlInv
<1> QED
  BY TimedInvariant, <1>1, PTL

-----------------------------------------------------------------------------
(* Checkpoints, crashes and resumption. *)

LEMMA CheckpointSteps ==
    CheckpointNext =>
        \/ Step /\ CrawlStep
        \/ Step /\ UNCHANGED <<saving>>
        \/ UNCHANGED vars /\ (TickSave \/ LastSave \/ FinishSave \/ FailSave)
        \/ Restart
  BY DEF CheckpointNext, CrawlStep, Finish, Over, Step, saving, TickSave, LastSave,
         BeginSave, FinishSave, FailSave

\* What Load gives a new process.
LEMMA RecoveredType ==
    ASSUME CheckpointTypeOK
    PROVE  /\ Recovered.frontier \subseteq Recovered.seen /\ Recovered.seen \subseteq Url
           /\ Recovered.missed \subseteq Url
           /\ Recovered.sent \in Nat /\ Recovered.depth \in [Url -> 0 .. MaxDepth]
<1>1. CASE file = NoFile
  <2>1. 0 \in 0 .. MaxDepth
    BY CrawlAssumption DEF CrawlAssumption
  <2> QED
    BY <1>1, <2>1 DEF Recovered
<1>2. CASE file # NoFile
  BY <1>2 DEF Recovered, CheckpointTypeOK
<1> QED
  BY <1>1, <1>2

LEMMA RestartState ==
    ASSUME CheckpointTypeOK, Restart
    PROVE  /\ TypeOK'
           /\ seen' = Recovered.seen \cup Seeds
           /\ queue' = Recovered.frontier \cup (Seeds \ Recovered.seen)
           /\ depth' = Recovered.depth
           /\ inFlight' = {} /\ waiting' = {} /\ pushed' = {}
           /\ closedBy' = "nobody" /\ ~cancelled' /\ state' = "running"
           /\ monitor' = "tick" /\ ~quiet' /\ streak' = 0
           /\ ~blink' /\ blind' = 0 /\ putBacks' = 0
           /\ retries' = [u \in Url |-> 0]
           /\ \A w \in Worker : pc'[w] = "pop" /\ cur'[w] = None /\ link'[w] = None
           /\ \A u \in Url : result'[u] = IF u \in Recovered.seen \ Recovered.frontier
                                                /\ result[u] \in Settled
                                          THEN result[u] ELSE "none"
<1> USE CrawlAssumption DEF CrawlAssumption, Restart, Rerun, FreshProcess
<1>1. seen' = Recovered.seen \cup Seeds
  BY RecoveredType
<1>2. TypeOK'
  <2>1. seen' \subseteq Url /\ queue' \subseteq Url
        /\ depth' \in [Url -> 0 .. MaxDepth] /\ sent' \in Nat
    BY <1>1, RecoveredType
  <2>2. result' \in [Url -> Settled \cup {"none"}]
    OBVIOUS
  <2>3. \A u \in Url : retries'[u] \in 0 .. MaxRetries[u]
    OBVIOUS
  <2>4. pc' \in [Worker -> PC] /\ streak' \in 0 .. IdleStreak /\ putBacks' \in 0 .. MaxPutBacks
    BY DEF PC
  <2> QED
    BY <2>1, <2>2, <2>3, <2>4 DEF TypeOK
<1> QED
  BY <1>1, <1>2

LEMMA RestartPlace ==
    ASSUME CheckpointTypeOK, Restart
    PROVE  PlaceInv'
<1>1. TypeInv'
  <2>1. retries' \in [Url -> Nat] /\ streak' < IdleStreak
    BY RestartState, CrawlAssumption DEF CrawlAssumption
  <2>2. IsFiniteSet(waiting') /\ IsFiniteSet(pushed') /\ waiting' = {}
    BY RestartState, FS_EmptySet
  <2>3. \A w \in Worker : pc'[w] = "pop" /\ cur'[w] = None /\ link'[w] = None
    BY RestartState
  <2> QED
    BY <2>1, <2>2, <2>3, RestartState DEF TypeInv, Holding
<1>2. Claimed'
  BY RestartState, RecoveredType DEF Claimed
<1>3. OnePlace'
  BY RestartState DEF OnePlace, Carrying
<1>4. Unanswered'
  <2>1. \A u \in queue' : u \in Url /\ result'[u] = "none"
    BY RestartState, RecoveredType, CrawlAssumption DEF CrawlAssumption
  <2> QED
    BY <2>1, RestartState DEF Unanswered, Carrying
<1> QED
  BY <1>1, <1>2, <1>3, <1>4 DEF PlaceInv

LEMMA CheckpointInvInit == CheckpointInit => CheckpointInv
<1> SUFFICES ASSUME CheckpointInit PROVE CheckpointInv
  OBVIOUS
<1>1. PlaceInv
  BY PlaceInit DEF CheckpointInit
<1> QED
  BY <1>1, CheckpointAssumption
     DEF CheckpointInit, CheckpointInv, CheckpointTypeOK, CheckpointAssumption,
         PlaceInv, TypeInv

\* What is claimed stays claimed, at the depth it was found.
LEMMA SeenStays ==
    ASSUME PlaceInv, Step
    PROVE  seen \subseteq seen' /\ \A u \in seen : depth'[u] = depth[u]
<1>1. ASSUME NEW w \in Worker, MarkLink(w)
      PROVE  seen \subseteq seen' /\ \A u \in seen : depth'[u] = depth[u]
  BY <1>1 DEF MarkLink, PlaceInv, TypeInv, TypeOK
<1>2. ASSUME \A w \in Worker : ~MarkLink(w) PROVE UNCHANGED <<seen, depth>>
  BY <1>2 DEF Step, Crawling, Work, Process, Retrier, Monitor, Take, LoseClaim,
      PutBack, Leave, Skip, Send, Respond, NotModified, Fail, Retry, Emit,
      PushLink, LinksAdded, Done, CheckLimit, Stopped, Stop, Cancel,
      JoinWorkers, Wait, RetryPush, RetryUncount, RetryGiveUp, ReadOutstanding,
      ReadPending, MonitorLeaves, BeginStop, vars, work
<1> QED
  BY <1>1, <1>2

LEMMA CheckpointInvStep ==
    ASSUME CheckpointInv, [CheckpointNext]_allVars
    PROVE  CheckpointInv'
<1> PlaceInv /\ CheckpointTypeOK /\ snapshot \subseteq seen
  BY DEF CheckpointInv
<1> USE CheckpointAssumption DEF CheckpointAssumption, CheckpointTypeOK, CheckpointInv
<1>1. ASSUME Step, CrawlStep PROVE CheckpointInv'
  <2>1. PlaceInv' /\ TypeOK'
    BY <1>1, PlaceStep DEF PlaceInv, TypeInv
  <2>2. missed' \subseteq Url
    BY <1>1, <2>1 DEF CrawlStep, TypeOK
  <2> QED
    BY <1>1, <2>1, <2>2, SeenStays DEF CrawlStep
<1>2. ASSUME Step, UNCHANGED saving PROVE CheckpointInv'
  BY <1>2, PlaceStep, SeenStays DEF PlaceInv, TypeInv, saving
<1>3. ASSUME UNCHANGED vars, TickSave \/ LastSave \/ FinishSave \/ FailSave
      PROVE  CheckpointInv'
  <2>1. PlaceInv' /\ TypeOK'
    BY <1>3, PlaceStep DEF Step, PlaceInv, TypeInv
  <2>2. UNCHANGED <<seen, depth, sent>>
    BY <1>3 DEF vars, work
  <2>3. ASSUME TickSave \/ LastSave PROVE CheckpointInv'
    <3>1. FrontierSnapshot \subseteq seen /\ Unrecorded \subseteq Url
      BY CrawlAssumption
         DEF FrontierSnapshot, Unrecorded, InHand, PlaceInv, Claimed, TypeInv, TypeOK,
             Holding, CrawlAssumption
    <3>a. FrontierSnapshot \subseteq Url
      BY <3>1 DEF PlaceInv, TypeInv, TypeOK
    <3>2. /\ saver' \in {"saving", "lastSave"}
          /\ snapshot' = FrontierSnapshot /\ missed' = Unrecorded
          /\ UNCHANGED <<file, restarts, excused>>
      BY <2>3 DEF TickSave, LastSave, BeginSave
    <3> QED
      BY <2>1, <2>2, <3>1, <3>a, <3>2
  <2>4. ASSUME FinishSave PROVE CheckpointInv'
    BY <2>1, <2>2, <2>4 DEF FinishSave, AfterSave, TypeOK
  <2>5. ASSUME FailSave PROVE CheckpointInv'
    BY <2>1, <2>5 DEF FailSave, AfterSave
  <2> QED
    BY <1>3, <2>1, <2>3, <2>4, <2>5
<1>4. ASSUME Restart PROVE CheckpointInv'
  <2>1. PlaceInv' /\ TypeOK'
    BY <1>4, RestartPlace, RestartState
  <2> QED
    BY <1>4, <2>1, RecoveredType DEF Restart, Rerun, FreshProcess
<1>5. ASSUME UNCHANGED allVars PROVE CheckpointInv'
  BY <1>5, <1>2 DEF allVars, Step
<1> QED
  BY <1>1, <1>2, <1>3, <1>4, <1>5, CheckpointSteps

LEMMA CheckpointInvariant == CheckpointSpec => []CheckpointInv
  BY CheckpointInvInit, CheckpointInvStep, PTL DEF CheckpointSpec

(* The checkpoint's variables keep their types, and the file's parts stand *)
(* in the relation Load relies on: what it holds as outstanding it also    *)
(* holds as seen (checkpoint.go:61-101, frontier.go:324-355).              *)
THEOREM CheckpointTypeCorrect == CheckpointSpec => []CheckpointTypeOK
  BY CheckpointInvariant, PTL DEF CheckpointInv

(* However often the process is killed and resumed, no run delivers a page *)
(* that this run has already delivered, nor one an earlier run delivered   *)
(* and the file resumed from records as finished (engine.go:651-655).      *)
THEOREM ResumedPageOnce == CheckpointSpec => PageOnce
<1>1. CheckpointInv /\ [CheckpointNext]_allVars =>
        [\A w \in Worker : pc[w] = "page" /\ pc'[w] # "page"
              => result[cur[w]] = "none"]_vars
  BY PageStep DEF CheckpointInv
<1> QED
  BY CheckpointInvariant, <1>1, PTL DEF CheckpointSpec, PageOnce

\* A result, once there is one, stays.
LEMMA ResultStays ==
    ASSUME PlaceInv, Step
    PROVE  \A u \in Url : result[u] # "none" => result'[u] = result[u]
<1> USE DEF PlaceInv, Unanswered, TypeInv, TypeOK, Carrying, Holding, Settle, Push
<1> DEFINE Q == \A u \in Url : result[u] # "none" => result'[u] = result[u]
<1>1. ASSUME NEW w \in Worker, PutBack(w) \/ PushLink(w) PROVE Q
  BY <1>1 DEF PutBack, PushLink
<1>2. ASSUME NEW w \in Worker, Skip(w) \/ Send(w) \/ NotModified(w) \/ Fail(w) PROVE Q
  BY <1>2 DEF Skip, Send, NotModified, Fail
<1>3. ASSUME NEW w \in Worker, Retry(w) \/ Emit(w) PROVE Q
  BY <1>3 DEF Retry, Emit
<1>4. ASSUME NEW u \in Url, RetryPush(u) \/ RetryGiveUp(u) PROVE Q
  BY <1>4 DEF RetryPush, RetryGiveUp
<1>5. ASSUME NEW w \in Worker, Take(w) \/ LoseClaim(w) \/ Leave(w) \/ Respond(w)
                 \/ MarkLink(w) \/ LinksAdded(w) \/ Done(w) \/ CheckLimit(w) \/ Stopped(w)
      PROVE  result' = result
  BY <1>5 DEF Take, LoseClaim, Leave, Respond, MarkLink, LinksAdded, Done, CheckLimit,
              Stopped
<1>6. ASSUME Monitor \/ (\E p \in pushed : RetryUncount(p)) PROVE result' = result
  BY <1>6 DEF Monitor, ReadOutstanding, ReadPending, MonitorLeaves, RetryUncount
<1>7. ASSUME Stop \/ Cancel \/ JoinWorkers \/ Wait \/ UNCHANGED vars PROVE result' = result
  BY <1>7 DEF Stop, Cancel, JoinWorkers, Wait, vars
<1> QED
  BY <1>1, <1>2, <1>3, <1>4, <1>5, <1>6, <1>7
     DEF Step, Crawling, Work, Process, Retrier

LEMMA FinishedStays ==
    ASSUME PlaceInv, Step, NEW u \in seen, Finished(u)
    PROVE  Finished(u)'
<1>1. u \in Url /\ result[u] # "none"
  BY DEF PlaceInv, TypeInv, TypeOK, Finished, Settled
<1> QED
  BY <1>1, ResultStays, SeenStays DEF Finished

LEMMA ResumeInit == CheckpointInit => ResumeInv
<1> SUFFICES ASSUME CheckpointInit PROVE ResumeInv
  OBVIOUS
<1>1. Init /\ excused = {} /\ saver = "idle" /\ file = NoFile
  BY DEF CheckpointInit
<1>2. IdleEnd(excused)
  BY <1>1 DEF Init, IdleEnd
<1>3. CrawlInv(excused)
  BY <1>1, CrawlInvInit DEF CrawlInv, Accounted, LinksFollowed
<1>4. SaveInv
  BY <1>1 DEF SaveInv, LossOnlyInGaps
<1> QED
  BY <1>1, <1>2, <1>3, <1>4, ExclusiveInit, StreakInit DEF ResumeInv, TimedInv

\* Steps of the crawl, while the checkpoint goroutine is wherever it is.
LEMMA CrawlKeepsResume ==
    ASSUME ~ZeroBackoff, CheckpointInv, ResumeInv, Step,
           CrawlStep \/ (Wait /\ UNCHANGED saving) \/ UNCHANGED allVars
    PROVE  ResumeInv'
<1> PlaceInv /\ TimedInv(excused) /\ SaveInv
  BY DEF CheckpointInv, ResumeInv
<1>1. /\ UNCHANGED <<saver, snapshot, file, excused>>
      /\ saver \in {"saving", "lastSave"} => missed \subseteq missed' /\ seen' \ seen \subseteq missed'
  <2>1. CASE CrawlStep
    BY <2>1 DEF CrawlStep
  <2>2. CASE Wait /\ UNCHANGED saving
    BY <2>2 DEF Wait, saving, work
  <2>3. CASE UNCHANGED allVars
    BY <2>3 DEF allVars, vars, saving, work
  <2> QED
    BY <2>1, <2>2, <2>3
<1>2. TimedInv(excused)'
  <2>1. PICK E : E = excused
    OBVIOUS
  <2>2. TimedInv(E)'
    BY <2>1, TimedStep
  <2> QED
    BY <1>1, <2>1, <2>2
<1>3. SaveInv'
  <2>1. ASSUME saver' \in {"saving", "lastSave"},
               NEW u \in seen', u \notin snapshot' \cup missed'
        PROVE  Finished(u)'
    <3>1. u \in seen \ (snapshot \cup missed)
      BY <1>1, <2>1
    <3>2. Finished(u)
      BY <1>1, <2>1, <3>1 DEF SaveInv
    <3> QED
      BY <3>1, <3>2, FinishedStays
  <2>2. ASSUME file # NoFile,
               NEW u \in file.seen \ file.frontier
        PROVE  \/ u \in file.missed
               \/ result[u] \in Settled /\ result'[u] = result[u]
    <3>1. u \in Url /\ (result[u] \in Settled \/ u \in file.missed)
      BY <2>2 DEF SaveInv, LossOnlyInGaps, CheckpointInv, CheckpointTypeOK
    <3> QED
      BY <3>1, ResultStays DEF Settled
  <2>3. LossOnlyInGaps'
    BY <1>1, <2>2 DEF LossOnlyInGaps
  <2>4. file' # NoFile => \A u \in file'.seen \ (file'.frontier \cup file'.missed) :
              result'[u] = "page" /\ file'.depth[u] < MaxDepth
                  => Links[u] \subseteq file'.seen
    BY <1>1, <2>2 DEF SaveInv
  <2> QED
    BY <2>1, <2>3, <2>4 DEF SaveInv
<1> QED
  BY <1>2, <1>3 DEF ResumeInv

\* Steps of a Save, while the crawl stands still.
LEMMA SaveKeepsResume ==
    ASSUME ~ZeroBackoff, CheckpointInv, ResumeInv, UNCHANGED vars,
           TickSave \/ LastSave \/ FinishSave \/ FailSave
    PROVE  ResumeInv'
<1> PlaceInv /\ TypeInv /\ TypeOK /\ TimedInv(excused) /\ SaveInv
  BY DEF CheckpointInv, ResumeInv, PlaceInv, TypeInv
<1>1. excused' = excused
  BY DEF TickSave, LastSave, BeginSave, FinishSave, FailSave
<1>2. TimedInv(excused)'
  <2>1. PICK E : E = excused
    OBVIOUS
  <2>2. TimedInv(E)'
    BY <2>1, TimedStep DEF Step
  <2> QED
    BY <1>1, <2>1, <2>2
<1>3. ASSUME TickSave \/ LastSave PROVE SaveInv'
  <2>1. /\ UNCHANGED <<seen, result, depth, file>>
        /\ snapshot' = FrontierSnapshot /\ missed' = Unrecorded
    BY <1>3 DEF TickSave, LastSave, BeginSave, vars, work
  <2>2. ASSUME NEW u \in seen, u \notin FrontierSnapshot, u \notin Unrecorded
        PROVE  Finished(u)
    <3>1. /\ u \in Url /\ u # None /\ u \notin queue \cup inFlight \cup waiting \cup excused
          /\ result[u] \notin {"dropped", "cut"}
      BY <2>2, CrawlAssumption DEF FrontierSnapshot, Unrecorded, TypeOK, CrawlAssumption
    <3>2. \A w \in Worker : link[w] # u
      BY <2>2, <3>1 DEF Unrecorded, InHand
    <3>3. \A w \in Worker : cur[w] = u => pc[w] # "putback"
      BY <2>2 DEF Unrecorded
    <3>4. \A w \in Worker : cur[w] # u
      BY <3>1, <3>3 DEF TimedInv, Exclusive, TypeInv
    <3>5. result[u] # "none"
      BY <3>1, <3>2, <3>4 DEF TimedInv, CrawlInv, Accounted
    <3>6. result[u] \in Settled
      BY <3>1, <3>5 DEF TypeOK, Settled
    <3>7. result[u] = "page" /\ depth[u] < MaxDepth => Links[u] \subseteq seen
      BY <3>1, <3>4, CrawlAssumption
         DEF TimedInv, CrawlInv, LinksFollowed, CrawlAssumption
    <3> QED
      BY <3>6, <3>7 DEF Finished
  <2> QED
    BY <2>1, <2>2 DEF SaveInv, LossOnlyInGaps, Finished
<1>4. ASSUME FinishSave PROVE SaveInv'
  <2>1. /\ UNCHANGED <<seen, result, depth>>
        /\ saver' \notin {"saving", "lastSave"}
        /\ file' = [frontier |-> snapshot, seen |-> seen, sent |-> sent,
                    depth |-> depth, missed |-> missed]
        /\ \A u \in seen \ (snapshot \cup missed) : Finished(u)
    BY <1>4 DEF FinishSave, AfterSave, vars, work, SaveInv
  <2> QED
    BY <2>1 DEF SaveInv, LossOnlyInGaps, Finished
<1>5. ASSUME FailSave PROVE SaveInv'
  BY <1>5 DEF FailSave, AfterSave, vars, work, SaveInv, LossOnlyInGaps
<1> QED
  BY <1>2, <1>3, <1>4, <1>5 DEF ResumeInv

\* A new process, from a file whose only losses are its gaps.
LEMMA RestartKeepsResume ==
    ASSUME CheckpointInv, ResumeInv, Restart
    PROVE  ResumeInv'
<1> CheckpointTypeOK /\ SaveInv
  BY DEF CheckpointInv, ResumeInv
<1> DEFINE R == Recovered
<1>1. excused' = R.missed /\ saver' = "idle" /\ file' = file
  BY DEF Restart, Rerun, FreshProcess
<1>2. \A u \in R.seen \ R.frontier : result[u] \in Settled \/ u \in R.missed
  BY DEF Recovered, SaveInv, LossOnlyInGaps
<1>3. \A u \in R.seen \ (R.frontier \cup R.missed) :
         result[u] = "page" /\ R.depth[u] < MaxDepth => Links[u] \subseteq R.seen
  BY DEF Recovered, SaveInv
<1> HIDE DEF R
<1>4. R.frontier \subseteq R.seen /\ R.seen \subseteq Url
  BY RecoveredType DEF R
<1>5. /\ seen' = R.seen \cup Seeds
      /\ queue' = R.frontier \cup (Seeds \ R.seen)
      /\ depth' = R.depth
      /\ \A u \in Url : result'[u] = IF u \in R.seen \ R.frontier /\ result[u] \in Settled
                                     THEN result[u] ELSE "none"
  BY RestartState DEF R
<1>6. CrawlInv(excused)'
  <2>1. PlaceInv'
    BY RestartPlace
  <2>2. LetGo'
    BY RestartState DEF LetGo, Settled
  <2>3. Accounted(excused)'
    BY <1>1, <1>2, <1>4, <1>5, CrawlAssumption DEF Accounted, Settled, CrawlAssumption
  <2>4. LinksFollowed(excused)'
    BY <1>1, <1>3, <1>4, <1>5 DEF LinksFollowed
  <2> QED
    BY <2>1, <2>2, <2>3, <2>4 DEF CrawlInv
<1>7. Exclusive'
  BY RestartState DEF Exclusive, Holding
<1>8. StreakPaid'
  BY RestartState DEF StreakPaid
<1>9. IdleEnd(excused)'
  BY RestartState DEF IdleEnd
<1>10. SaveInv'
  <2>1. \A u \in Url : result'[u] = "page" => result[u] = "page"
    BY <1>5
  <2>2. file # NoFile => R = file
    BY DEF R, Recovered
  <2> QED
    BY <1>1, <1>2, <1>4, <1>5, <2>1, <2>2 DEF SaveInv, LossOnlyInGaps
<1> QED
  BY <1>6, <1>7, <1>8, <1>9, <1>10 DEF ResumeInv, TimedInv

LEMMA ResumeInvariant ==
    ASSUME ~ZeroBackoff
    PROVE  CheckpointSpec => []ResumeInv
<1>1. CheckpointInv /\ ResumeInv /\ [CheckpointNext]_allVars => ResumeInv'
  <2> SUFFICES ASSUME CheckpointInv, ResumeInv, [CheckpointNext]_allVars
               PROVE  ResumeInv'
    OBVIOUS
  <2>1. CASE CrawlStep
    BY <2>1, CrawlKeepsResume DEF CrawlStep, Step
  <2>2. CASE Finish
    BY <2>2, CrawlKeepsResume DEF Finish, Step
  <2>3. CASE UNCHANGED allVars
    BY <2>3, CrawlKeepsResume DEF allVars, Step
  <2>4. CASE TickSave \/ LastSave \/ FinishSave \/ FailSave
    <3>1. UNCHANGED vars
      BY <2>4 DEF TickSave, LastSave, BeginSave, FinishSave, FailSave
    <3> QED
      BY <2>4, <3>1, SaveKeepsResume
  <2>5. CASE Restart
    BY <2>5, RestartKeepsResume
  <2> QED
    BY <2>1, <2>2, <2>3, <2>4, <2>5 DEF CheckpointNext, Over, allVars
<1> QED
  BY ResumeInit, CheckpointInvariant, <1>1, PTL DEF CheckpointSpec

(* A checkpoint loses a page only through a known gap, though Save reads   *)
(* the frontier and the deduper at two moments with the crawl going on     *)
(* between them, and whichever file a run was itself resumed from          *)
(* (checkpoint.go:61-101, frontier.go:324-355).                            *)
THEOREM CheckpointLosesOnlyGaps ==
    ASSUME ~ZeroBackoff
    PROVE  CheckpointSpec => []LossOnlyInGaps
<1>1. ResumeInv => LossOnlyInGaps
  BY DEF ResumeInv, SaveInv
<1> QED
  BY ResumeInvariant, <1>1, PTL

(* What a resumed crawl owes it does, however often it was killed and      *)
(* whatever stage each Save had reached: when its idle monitor ends it,    *)
(* every claimed URL outside the gaps has an answer, from this run or an   *)
(* earlier one, and so have the links of every page among them.            *)
THEOREM ResumedCrawlCompletes ==
    ASSUME ~ZeroBackoff
    PROVE  CheckpointSpec => []ResumeCompletes
<1>1. ResumeInv => ResumeCompletes
  <2> SUFFICES ASSUME ResumeInv, closedBy = "idle", blind < IdleStreak,
                      NEW u \in seen \ excused
               PROVE  /\ result[u] \in Settled
                      /\ result[u] = "page" /\ depth[u] < MaxDepth => Links[u] \subseteq seen
    BY DEF ResumeCompletes
  <2>1. Owed = {} /\ result[u] \in Settled
    BY DEF ResumeInv, TimedInv, IdleEnd
  <2>2. u \in Url \ excused
    BY DEF ResumeInv, TimedInv, CrawlInv, PlaceInv, TypeInv, TypeOK
  <2>3. PICK E : E = excused
    OBVIOUS
  <2> QED
    BY <2>1, <2>2, <2>3, FollowedAtEnd DEF ResumeInv, TimedInv, CrawlInv
<1> QED
  BY ResumeInvariant, <1>1, PTL


=============================================================================
