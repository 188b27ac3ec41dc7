------------------------------- MODULE Delivery -------------------------------
(***************************************************************************)
(* The way of an item from the worker that scraped it to the storage and   *)
(* to the subscribers: emitItem (scheduler.go), itemChan, processItems     *)
(* with the pipeline, resultChan, storeResults with its batches, fanOut,   *)
(* and the channels' closing in Wait (engine.go).                          *)
(*                                                                         *)
(* A channel is the sequence of what it holds, at most Capacity long. The  *)
(* pipeline is its verdict on each item:                                   *)
(*   keep   the item, or another made from it                              *)
(*   error  a middleware failed                                            *)
(*   nil    a middleware returned nil, and no error                        *)
(*                                                                         *)
(* processItems (proc):                                                    *)
(*   loop      sends to the subscribers in fan; then waits for an item     *)
(*   forward   about to send to resultChan                                 *)
(*   snapshot  about to read the subscribers                               *)
(*   closing   has closed resultChan                                       *)
(* storeResults (store): collect, flush, last (the flush after the close). *)
(***************************************************************************)
EXTENDS Naturals, SequencesExt

CONSTANTS
    Worker, Item, Subscriber,
    Early,       \* the subscribers that registered before Start, in order
    Pages,       \* the pages of each worker, each the sequence of its items
    Verdict,     \* the pipeline's verdict on each item
    Capacity,    \* of itemChan, resultChan and the subscribers' channels
    BatchSize,
    Nil          \* a nil item

ASSUME DeliveryAssumption ==
    /\ Pages \in [Worker -> Seq(Seq(Item))]
    /\ Verdict \in [Item -> {"keep", "error", "nil"}]
    /\ Early \in Seq(Subscriber) /\ IsInjective(Early)
    /\ Capacity \in Nat \ {0} /\ BatchSize \in Nat
    /\ Nil \notin Item /\ Nil \notin Nat

VARIABLES
    pc, todo, page,            \* workers: pages to scrape, items to emit
    stopped,
    items, itemsClosed,
    proc, hand, fan,
    results, resultsClosed,
    store, batch,
    subscribers,               \* Engine.subscribers
    inbox, inboxClosed,        \* the subscribers' channels
    reading,                   \* whether a subscriber still reads
    \* history: items sent on itemChan, items given to Store, items past the
    \* reading of the subscribers, and what each subscriber got, and since when
    sent, given, passed, got, joined

workers == <<pc, todo, page>>
upstream == <<workers, stopped, sent>>
itemChan == <<items, itemsClosed>>
resultChan == <<results, resultsClosed>>
processing == <<proc, hand, fan, passed>>
storing == <<store, batch, given>>
subs == <<subscribers, inbox, inboxClosed, reading, got, joined>>
crawl == <<upstream, itemChan, processing, resultChan, storing>>
vars == <<crawl, subs>>

TypeOK ==
    /\ pc \in [Worker -> {"idle", "emit", "left"}]
    /\ todo \in [Worker -> Seq(Seq(Item))] /\ page \in [Worker -> Seq(Item)]
    /\ stopped \in BOOLEAN /\ itemsClosed \in BOOLEAN /\ resultsClosed \in BOOLEAN
    /\ items \in Seq(Item) /\ Len(items) <= Capacity
    /\ results \in Seq(Item \cup {Nil}) /\ Len(results) <= Capacity
    /\ proc \in {"loop", "forward", "snapshot", "closing", "gone"}
    /\ hand \in Item \cup {Nil} /\ fan \in Seq(Subscriber)
    /\ store \in {"collect", "flush", "last", "gone"}
    /\ batch \in Seq(Item \cup {Nil})
    /\ Len(batch) <= BatchSize \/ Len(batch) = 1
    /\ subscribers \in Seq(Subscriber) /\ inboxClosed \subseteq Subscriber
    /\ inbox \in [Subscriber -> Seq(Item \cup {Nil})]
    /\ \A s \in Subscriber : Len(inbox[s]) <= Capacity
    /\ reading \in [Subscriber -> BOOLEAN]
    /\ sent \in Seq(Item)
    /\ given \in Seq(Item) /\ passed \in Seq(Item \cup {Nil})
    /\ got \in [Subscriber -> Seq(Item \cup {Nil})]
    /\ joined \in [Subscriber -> Nat \cup {Nil}]

Init ==
    /\ pc = [w \in Worker |-> "idle"]
    /\ todo = Pages /\ page = [w \in Worker |-> <<>>]
    /\ stopped = FALSE
    /\ items = <<>> /\ itemsClosed = FALSE
    /\ proc = "loop" /\ hand = Nil /\ fan = <<>> /\ passed = <<>>
    /\ results = <<>> /\ resultsClosed = FALSE
    /\ store = "collect" /\ batch = <<>> /\ given = <<>>
    /\ subscribers = Early /\ inboxClosed = {}
    /\ inbox = [s \in Subscriber |-> <<>>]
    /\ reading = [s \in Subscriber |-> TRUE]
    /\ got = [s \in Subscriber |-> <<>>]
    /\ joined = [s \in Subscriber |-> IF s \in ToSet(Early) THEN 0 ELSE Nil]
    /\ sent = <<>>

cancelled == stopped \/ itemsClosed
Goto(w, l) == pc' = [pc EXCEPT ![w] = l]
Over == proc = "gone" /\ store = "gone"

-----------------------------------------------------------------------------
(* Workers. *)

Scrape(w) ==
    /\ pc[w] = "idle" /\ todo[w] # <<>>
    /\ page' = [page EXCEPT ![w] = Head(todo[w])]
    /\ todo' = [todo EXCEPT ![w] = Tail(@)]
    /\ Goto(w, "emit")
    /\ UNCHANGED <<stopped, sent, itemChan, processing, resultChan, storing, subs>>

\* emitItem: the send.
Emit(w) ==
    /\ pc[w] = "emit" /\ page[w] # <<>>
    /\ Len(items) < Capacity
    /\ items' = Append(items, Head(page[w]))
    /\ sent' = Append(sent, Head(page[w]))
    /\ page' = [page EXCEPT ![w] = Tail(@)]
    /\ UNCHANGED <<pc, todo, stopped, itemsClosed, processing, resultChan, storing, subs>>

\* Mutant: the context is tested first, and a full channel is then waited for.
AbandonOrBlock(w) ==
    /\ pc[w] = "emit" /\ page[w] # <<>>
    /\ cancelled /\ Len(items) < Capacity
    /\ page' = [page EXCEPT ![w] = <<>>]
    /\ UNCHANGED <<pc, todo, stopped, sent, itemChan, processing, resultChan, storing, subs>>

\* emitItem: ctx.Done; when both arms are ready either is taken. The rest of
\* the page is given up.
Abandon(w) ==
    /\ pc[w] = "emit" /\ page[w] # <<>>
    /\ cancelled
    /\ page' = [page EXCEPT ![w] = <<>>]
    /\ UNCHANGED <<pc, todo, stopped, sent, itemChan, processing, resultChan, storing, subs>>

PageDone(w) ==
    /\ pc[w] = "emit" /\ page[w] = <<>>
    /\ Goto(w, "idle")
    /\ UNCHANGED <<todo, page, stopped, sent, itemChan, processing, resultChan, storing, subs>>

Leave(w) ==
    /\ pc[w] = "idle"
    /\ todo[w] = <<>> \/ cancelled
    /\ Goto(w, "left")
    /\ UNCHANGED <<todo, page, stopped, sent, itemChan, processing, resultChan, storing, subs>>

-----------------------------------------------------------------------------
(* Stop and Wait. *)

Stop ==
    /\ ~cancelled
    /\ stopped' = TRUE
    /\ UNCHANGED <<workers, sent, itemChan, processing, resultChan, storing, subs>>

\* Mutant: the item channel is closed as soon as Stop has been called.
WaitAtStop ==
    /\ ~itemsClosed
    /\ stopped \/ \A w \in Worker : pc[w] = "left"
    /\ itemsClosed' = TRUE
    /\ UNCHANGED <<upstream, items, processing, resultChan, storing, subs>>

\* scheduler.Wait returns; cancel and close(itemChan).
Wait ==
    /\ ~itemsClosed
    /\ \A w \in Worker : pc[w] = "left"
    /\ itemsClosed' = TRUE
    /\ UNCHANGED <<upstream, items, processing, resultChan, storing, subs>>

-----------------------------------------------------------------------------
(* processItems. *)

Receive ==
    /\ proc = "loop" /\ fan = <<>> /\ items # <<>>
    /\ items' = Tail(items)
    /\ \/ /\ Verdict[Head(items)] = "error"
          /\ UNCHANGED <<proc, hand>>
       \/ /\ Verdict[Head(items)] # "error"
          /\ hand' = IF Verdict[Head(items)] = "nil" THEN Nil ELSE Head(items)
          /\ proc' = "forward"
    /\ UNCHANGED <<upstream, itemsClosed, fan, passed, resultChan, storing, subs>>

\* Mutant: overwrites what storeResults has not taken yet.
ForwardAnyway ==
    /\ proc = "forward"
    /\ results' = IF Len(results) < Capacity THEN Append(results, hand)
                                             ELSE Append(Front(results), hand)
    /\ proc' = "snapshot"
    /\ UNCHANGED <<upstream, itemChan, hand, fan, passed, resultsClosed, storing, subs>>

Forward ==
    /\ proc = "forward"
    /\ Len(results) < Capacity
    /\ results' = Append(results, hand)
    /\ proc' = "snapshot"
    /\ UNCHANGED <<upstream, itemChan, hand, fan, passed, resultsClosed, storing, subs>>

\* fanOut, under subMu.
Snapshot ==
    /\ proc = "snapshot"
    /\ fan' = subscribers
    /\ passed' = Append(passed, hand)
    /\ proc' = "loop"
    /\ UNCHANGED <<upstream, itemChan, hand, resultChan, storing, subs>>

\* Mutant: a subscriber whose channel is full is passed over.
FanOutOrSkip ==
    /\ proc = "loop" /\ fan # <<>>
    /\ inbox' = [inbox EXCEPT ![Head(fan)] =
                   IF Len(@) < Capacity THEN Append(@, hand) ELSE @]
    /\ fan' = Tail(fan)
    /\ UNCHANGED <<upstream, itemChan, proc, hand, passed, resultChan, storing,
                   subscribers, inboxClosed, reading, got, joined>>

FanOut ==
    /\ proc = "loop" /\ fan # <<>>
    /\ Len(inbox[Head(fan)]) < Capacity
    /\ inbox' = [inbox EXCEPT ![Head(fan)] = Append(@, hand)]
    /\ fan' = Tail(fan)
    /\ UNCHANGED <<upstream, itemChan, proc, hand, passed, resultChan, storing,
                   subscribers, inboxClosed, reading, got, joined>>

\* Mutant: resultChan is left open.
DrainedOnly ==
    /\ proc = "loop" /\ fan = <<>> /\ items = <<>> /\ itemsClosed
    /\ proc' = "closing"
    /\ UNCHANGED <<upstream, itemChan, hand, fan, passed, resultChan, storing, subs>>

\* The range ends, and the deferred close of resultChan runs.
Drained ==
    /\ proc = "loop" /\ fan = <<>> /\ items = <<>> /\ itemsClosed
    /\ resultsClosed' = TRUE
    /\ proc' = "closing"
    /\ UNCHANGED <<upstream, itemChan, hand, fan, passed, results, storing, subs>>

CloseSubscribers ==
    /\ proc = "closing"
    /\ inboxClosed' = inboxClosed \cup ToSet(subscribers)
    /\ subscribers' = <<>>
    /\ proc' = "gone"
    /\ UNCHANGED <<upstream, itemChan, hand, fan, passed, resultChan, storing, inbox,
                   reading, got, joined>>

-----------------------------------------------------------------------------
(* storeResults. *)

Collect ==
    /\ store = "collect" /\ results # <<>>
    /\ batch' = Append(batch, Head(results))
    /\ results' = Tail(results)
    /\ store' = IF Len(batch') >= BatchSize THEN "flush" ELSE "collect"
    /\ UNCHANGED <<upstream, itemChan, processing, resultsClosed, given, subs>>

ResultsEnd ==
    /\ store = "collect" /\ results = <<>> /\ resultsClosed
    /\ store' = "last"
    /\ UNCHANGED <<upstream, itemChan, processing, resultChan, batch, given, subs>>

\* flush: the batch is over, stored or not (an error is logged). A nil item
\* makes Store panic and the process end: storeResults goes no further.
Flush ==
    /\ store \in {"flush", "last"}
    /\ Nil \notin ToSet(batch)
    /\ given' = given \o batch
    /\ batch' = <<>>
    /\ store' = IF store = "last" THEN "gone" ELSE "collect"
    /\ UNCHANGED <<upstream, itemChan, processing, resultChan, subs>>

-----------------------------------------------------------------------------
(* Subscribers: programs that call ResultsChan. *)

Subscribe(s) ==
    /\ joined[s] = Nil
    /\ subscribers' = Append(subscribers, s)
    /\ joined' = [joined EXCEPT ![s] = Len(passed)]
    /\ UNCHANGED <<crawl, inbox, inboxClosed, reading, got>>

Read(s) ==
    /\ reading[s] /\ inbox[s] # <<>>
    /\ got' = [got EXCEPT ![s] = Append(@, Head(inbox[s]))]
    /\ inbox' = [inbox EXCEPT ![s] = Tail(@)]
    /\ UNCHANGED <<crawl, subscribers, inboxClosed, reading, joined>>

\* The subscriber gives up reading.
Quit(s) ==
    /\ joined[s] # Nil /\ reading[s]
    /\ reading' = [reading EXCEPT ![s] = FALSE]
    /\ UNCHANGED <<crawl, subscribers, inbox, inboxClosed, got, joined>>

-----------------------------------------------------------------------------
Work(w) == Scrape(w) \/ Emit(w) \/ Abandon(w) \/ PageDone(w) \/ Leave(w)
Process == Receive \/ Forward \/ Snapshot \/ FanOut \/ Drained \/ CloseSubscribers
Store == Collect \/ ResultsEnd \/ Flush

Next ==
    \/ \E w \in Worker : Work(w)
    \/ Stop \/ Wait \/ Process \/ Store
    \/ \E s \in Subscriber : Subscribe(s) \/ Read(s) \/ Quit(s)

Spec == Init /\ [][Next]_vars

\* The engine's goroutines run, and a subscriber that has not given up reads.
\* Nobody need stop the crawl, subscribe or quit.
Fairness ==
    /\ \A w \in Worker : WF_vars(Work(w))
    /\ WF_vars(Wait)
    /\ WF_vars(Process)
    /\ WF_vars(Store)
    /\ \A s \in Subscriber : WF_vars(Read(s))

FairSpec == Spec /\ Fairness

-----------------------------------------------------------------------------
(* Properties. *)

\* What the pipeline makes of one item, and of each item up to the n-th.
Outcome(i) == CASE Verdict[i] = "error" -> <<>>
                [] Verdict[i] = "nil" -> <<Nil>>
                [] Verdict[i] = "keep" -> <<i>>
Piping(s) ==
    LET piped[n \in 0 .. Len(s)] ==
            IF n = 0 THEN <<>> ELSE piped[n - 1] \o Outcome(s[n])
    IN piped
Piped(s) == Piping(s)[Len(s)]
InHand == IF proc = "forward" THEN <<hand>> ELSE <<>>

(* Every item a worker got rid of reaches Store, once, in the order of the  *)
(* sends, unless the pipeline drops it: at any moment it is in one place    *)
(* on its way, and nothing is on its way when Wait returns ("abandoning it  *)
(* on cancellation would throw away items", engine.go:573-576).             *)
StoredInOrder ==
    /\ given \o batch \o results \o InHand \o Piped(items) = Piped(sent)
    /\ Over => items = <<>> /\ results = <<>> /\ batch = <<>>

(* "multiple consumers each see the full stream" (engine.go:498-510): what  *)
(* a subscriber has received and has in its channel is everything that      *)
(* passed since it registered, in order, slow or not; only the item being   *)
(* handed round may still be missing. The engine lets go of a subscriber    *)
(* only by closing its channel.                                             *)
SubscriberSeesAll ==
    \A s \in Subscriber : joined[s] # Nil =>
        LET stream == got[s] \o inbox[s]
            due == IF s \in ToSet(fan) THEN <<hand>> ELSE <<>>
        IN  /\ stream \o due = SubSeq(passed, joined[s] + 1, Len(passed))
            /\ s \in ToSet(subscribers) \/ s \in inboxClosed

(* "itemChan can only be closed once every worker has returned ... or a     *)
(* worker still mid-send panics on a closed channel" (engine.go:445-449):   *)
(* each channel is closed only when its sender is past its last send.       *)
SendsWhileOpen ==
    /\ itemsClosed => \A w \in Worker : pc[w] = "left"
    /\ resultsClosed => proc \in {"closing", "gone"}
    /\ \A s \in inboxClosed : s \notin ToSet(fan)

(* Stop frees every worker, even one that waits to send behind a subscriber *)
(* that gave up reading (scheduler.go:661-674).                             *)
StopFreesWorkers ==
    \A w \in Worker : stopped ~> pc[w] = "left"

(* While its subscribers read, the crawl ends: processItems and             *)
(* storeResults return, and so does Wait (engine.go:413-441, 551-616).      *)
EndsWhileRead == (\A s \in Subscriber : []reading[s]) => <>Over
=============================================================================
