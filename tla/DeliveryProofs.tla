---------------------------- MODULE DeliveryProofs ----------------------------
(* Proofs of what becomes of a scraped page: of Delivery's types, of its    *)
(* closing protocol, of what reaches the storage and the subscribers, for   *)
(* any number of workers, items and subscribers, any pages and any          *)
(* capacity; then of the corpus that the crawl keeps beside its items, for  *)
(* any site, any links and any number of commands; and last of the file     *)
(* its items are written to, for any rules, pages, items and batches.       *)
EXTENDS Delivery, Corpus, Output, SequenceTheorems, FiniteSetTheorems, NaturalsInduction,
        WellFoundedInduction, TLAPS

(* TypeOK in parts, one for each group of variables; besides, a batch that  *)
(* is still being collected is short of full.                               *)
UpstreamOK ==
    /\ pc \in [Worker -> {"idle", "emit", "left"}]
    /\ todo \in [Worker -> Seq(Seq(Item))] /\ page \in [Worker -> Seq(Item)]
    /\ stopped \in BOOLEAN /\ sent \in Seq(Item)

ItemsOK == items \in Seq(Item) /\ Len(items) <= Capacity /\ itemsClosed \in BOOLEAN

ProcessingOK ==
    /\ proc \in {"loop", "forward", "snapshot", "closing", "gone"}
    /\ hand \in Item \cup {Nil} /\ fan \in Seq(Subscriber)
    /\ passed \in Seq(Item \cup {Nil})

ResultsOK ==
    /\ results \in Seq(Item \cup {Nil}) /\ Len(results) <= Capacity
    /\ resultsClosed \in BOOLEAN

StoringOK ==
    /\ store \in {"collect", "flush", "last", "gone"}
    /\ batch \in Seq(Item \cup {Nil}) /\ given \in Seq(Item)
    /\ Len(batch) <= BatchSize \/ Len(batch) = 1
    /\ store = "collect" => Len(batch) < BatchSize \/ batch = <<>>

SubsOK ==
    /\ subscribers \in Seq(Subscriber) /\ inboxClosed \subseteq Subscriber
    /\ inbox \in [Subscriber -> Seq(Item \cup {Nil})]
    /\ \A s \in Subscriber : Len(inbox[s]) <= Capacity
    /\ reading \in [Subscriber -> BOOLEAN]
    /\ got \in [Subscriber -> Seq(Item \cup {Nil})]
    /\ joined \in [Subscriber -> Nat \cup {Nil}]

TypeInv == UpstreamOK /\ ItemsOK /\ ProcessingOK /\ ResultsOK /\ StoringOK /\ SubsOK

(* No channel exceeds its capacity, no batch its size, and nothing is       *)
(* handed to Store that is not an item (engine.go:551-616).                 *)
THEOREM TypeCorrect == Spec => []TypeOK
<1>0. /\ Capacity \in Nat \ {0} /\ BatchSize \in Nat
      /\ Pages \in [Worker -> Seq(Seq(Item))] /\ Early \in Seq(Subscriber)
      /\ Verdict \in [Item -> {"keep", "error", "nil"}]
  BY DeliveryAssumption DEF DeliveryAssumption
<1>1. Init => TypeInv
  <2> SUFFICES ASSUME Init PROVE TypeInv
    OBVIOUS
  <2>1. UpstreamOK
    <3>1. pc \in [Worker -> {"idle", "emit", "left"}] /\ stopped = FALSE
      BY DEF Init
    <3>2. todo \in [Worker -> Seq(Seq(Item))] /\ sent = <<>>
      BY <1>0 DEF Init
    <3>3. page = [w \in Worker |-> <<>>] /\ <<>> \in Seq(Item)
      BY EmptySeq DEF Init
    <3>4. page \in [Worker -> Seq(Item)] /\ sent \in Seq(Item)
      BY <3>2, <3>3
    <3> QED
      BY <3>1, <3>2, <3>4 DEF UpstreamOK
  <2>2. ItemsOK /\ ResultsOK
    <3>1. /\ items = <<>> /\ results = <<>>
          /\ itemsClosed = FALSE /\ resultsClosed = FALSE
      BY DEF Init
    <3>2. /\ <<>> \in Seq(Item) /\ <<>> \in Seq(Item \cup {Nil})
          /\ Len(<<>>) = 0 /\ 0 <= Capacity
      BY <1>0, EmptySeq
    <3> QED
      BY <3>1, <3>2 DEF ItemsOK, ResultsOK
  <2>3. ProcessingOK /\ StoringOK
    BY <1>0 DEF Init, ProcessingOK, StoringOK
  <2>4. SubsOK
    BY <1>0 DEF Init, SubsOK
  <2> QED
    BY <2>1, <2>2, <2>3, <2>4 DEF TypeInv
<1>2. TypeInv /\ [Next]_vars => TypeInv'
  <2> SUFFICES ASSUME TypeInv, [Next]_vars PROVE TypeInv'
    OBVIOUS
  <2>a. UpstreamOK /\ (UNCHANGED upstream => UpstreamOK')
    BY DEF TypeInv, UpstreamOK, upstream, workers
  <2>b. ItemsOK /\ (UNCHANGED itemChan => ItemsOK')
    BY DEF TypeInv, ItemsOK, itemChan
  <2>c. ProcessingOK /\ (UNCHANGED processing => ProcessingOK')
    BY DEF TypeInv, ProcessingOK, processing
  <2>d. ResultsOK /\ (UNCHANGED resultChan => ResultsOK')
    BY DEF TypeInv, ResultsOK, resultChan
  <2>e. StoringOK /\ (UNCHANGED storing => StoringOK')
    BY DEF TypeInv, StoringOK, storing
  <2>f. SubsOK /\ (UNCHANGED subs => SubsOK')
    BY DEF TypeInv, SubsOK, subs
  <2>1. ASSUME NEW w \in Worker, Scrape(w) PROVE TypeInv'
    <3>1. todo[w] \in Seq(Seq(Item)) /\ todo[w] # <<>>
      BY <2>1, <2>a DEF Scrape, UpstreamOK
    <3>2. Head(todo[w]) \in Seq(Item) /\ Tail(todo[w]) \in Seq(Seq(Item))
      BY <3>1
    <3>3. UpstreamOK'
      BY <2>1, <2>a, <3>2 DEF Scrape, UpstreamOK, Goto
    <3> QED
      BY <2>1, <2>b, <2>c, <2>d, <2>e, <2>f, <3>3 DEF Scrape, TypeInv
  <2>2. ASSUME NEW w \in Worker, Emit(w) PROVE TypeInv'
    <3>1. page[w] \in Seq(Item) /\ page[w] # <<>>
      BY <2>2, <2>a DEF Emit, UpstreamOK
    <3>2. Head(page[w]) \in Item /\ Tail(page[w]) \in Seq(Item)
      BY <3>1
    <3>3. UpstreamOK'
      BY <2>2, <2>a, <3>2 DEF Emit, UpstreamOK
    <3>4. ItemsOK'
      BY <1>0, <2>2, <2>b, <3>2 DEF Emit, ItemsOK
    <3> QED
      BY <2>2, <2>c, <2>d, <2>e, <2>f, <3>3, <3>4 DEF Emit, TypeInv
  <2>3. ASSUME NEW w \in Worker, Abandon(w) PROVE TypeInv'
    <3>1. UpstreamOK'
      BY <2>3, <2>a DEF Abandon, UpstreamOK
    <3> QED
      BY <2>3, <2>b, <2>c, <2>d, <2>e, <2>f, <3>1 DEF Abandon, TypeInv
  <2>4. ASSUME NEW w \in Worker, PageDone(w) \/ Leave(w) PROVE TypeInv'
    <3>1. UpstreamOK'
      BY <2>4, <2>a DEF PageDone, Leave, UpstreamOK, Goto
    <3> QED
      BY <2>4, <2>b, <2>c, <2>d, <2>e, <2>f, <3>1 DEF PageDone, Leave, TypeInv
  <2>5. CASE Stop
    <3>1. UpstreamOK'
      BY <2>5, <2>a DEF Stop, UpstreamOK, workers
    <3> QED
      BY <2>5, <2>b, <2>c, <2>d, <2>e, <2>f, <3>1 DEF Stop, TypeInv
  <2>6. CASE Wait
    <3>1. ItemsOK'
      BY <2>6, <2>b DEF Wait, ItemsOK
    <3> QED
      BY <2>6, <2>a, <2>c, <2>d, <2>e, <2>f, <3>1 DEF Wait, TypeInv
  <2>7. CASE Receive
    <3>1. Head(items) \in Item /\ ItemsOK'
      BY <1>0, <2>7, <2>b DEF Receive, ItemsOK
    <3>2. ProcessingOK'
      BY <2>7, <2>c, <3>1 DEF Receive, ProcessingOK
    <3> QED
      BY <2>7, <2>a, <2>d, <2>e, <2>f, <3>1, <3>2 DEF Receive, TypeInv
  <2>8. CASE Forward
    <3>1. ResultsOK'
      BY <1>0, <2>8, <2>c, <2>d DEF Forward, ResultsOK, ProcessingOK
    <3>2. ProcessingOK'
      BY <2>8, <2>c DEF Forward, ProcessingOK
    <3> QED
      BY <2>8, <2>a, <2>b, <2>e, <2>f, <3>1, <3>2 DEF Forward, TypeInv
  <2>9. CASE Snapshot
    <3>1. ProcessingOK'
      BY <2>9, <2>c, <2>f DEF Snapshot, ProcessingOK, SubsOK
    <3> QED
      BY <2>9, <2>a, <2>b, <2>d, <2>e, <2>f, <3>1 DEF Snapshot, TypeInv
  <2>10. CASE FanOut
    <3> DEFINE s == Head(fan)
    <3>1. s \in Subscriber /\ ProcessingOK'
      BY <2>10, <2>c DEF FanOut, ProcessingOK
    <3>2. inbox' = [inbox EXCEPT ![s] = Append(inbox[s], hand)]
      BY <2>10 DEF FanOut
    <3>3. /\ Append(inbox[s], hand) \in Seq(Item \cup {Nil})
          /\ Len(Append(inbox[s], hand)) <= Capacity
      <4>1. inbox[s] \in Seq(Item \cup {Nil}) /\ hand \in Item \cup {Nil}
        BY <2>c, <2>f, <3>1 DEF SubsOK, ProcessingOK
      <4>2. Len(inbox[s]) < Capacity /\ Len(inbox[s]) \in Nat
        BY <2>10, <4>1 DEF FanOut
      <4> QED
        BY <1>0, <4>1, <4>2, AppendProperties
    <3> HIDE DEF s
    <3>4. SubsOK'
      BY <2>10, <2>f, <3>1, <3>2, <3>3 DEF FanOut, SubsOK
    <3> QED
      BY <2>10, <2>a, <2>b, <2>d, <2>e, <3>1, <3>4 DEF FanOut, TypeInv
  <2>11. CASE Drained
    <3>1. ProcessingOK' /\ ResultsOK'
      BY <2>11, <2>c, <2>d DEF Drained, ProcessingOK, ResultsOK
    <3> QED
      BY <2>11, <2>a, <2>b, <2>e, <2>f, <3>1 DEF Drained, TypeInv
  <2>12. CASE CloseSubscribers
    <3>1. ProcessingOK'
      BY <2>12, <2>c DEF CloseSubscribers, ProcessingOK
    <3>2. inboxClosed' \subseteq Subscriber
      BY <2>12, <2>f DEF CloseSubscribers, SubsOK, ToSet
    <3>3. SubsOK'
      BY <2>12, <2>f, <3>2 DEF CloseSubscribers, SubsOK
    <3> QED
      BY <2>12, <2>a, <2>b, <2>d, <2>e, <3>1, <3>3 DEF CloseSubscribers, TypeInv
  <2>13. CASE Collect
    <3>1. Head(results) \in Item \cup {Nil} /\ ResultsOK'
      BY <1>0, <2>13, <2>d DEF Collect, ResultsOK
    <3>2. batch' \in Seq(Item \cup {Nil}) /\ Len(batch') = Len(batch) + 1
      BY <2>13, <2>e, <3>1 DEF Collect, StoringOK
    <3>3. Len(batch') <= BatchSize \/ Len(batch') = 1
      <4>1. CASE batch = <<>>
        BY <4>1, <3>2
      <4>2. CASE Len(batch) < BatchSize
        BY <1>0, <2>e, <4>2, <3>2 DEF StoringOK
      <4> QED
        BY <2>13, <2>e, <4>1, <4>2 DEF Collect, StoringOK
    <3>4. store' = "collect" => Len(batch') < BatchSize
      BY <1>0, <2>13, <3>2 DEF Collect
    <3>5. StoringOK'
      BY <2>13, <2>e, <3>2, <3>3, <3>4 DEF Collect, StoringOK
    <3> QED
      BY <2>13, <2>a, <2>b, <2>c, <2>f, <3>1, <3>5 DEF Collect, TypeInv
  <2>14. CASE ResultsEnd
    <3>1. StoringOK'
      BY <2>14, <2>e DEF ResultsEnd, StoringOK
    <3> QED
      BY <2>14, <2>a, <2>b, <2>c, <2>d, <2>f, <3>1 DEF ResultsEnd, TypeInv
  <2>15. CASE Flush
    <3>1. batch \in Seq(Item)
      <4>1. Len(batch) \in Nat /\ batch \in [1 .. Len(batch) -> Item \cup {Nil}]
        BY <2>e, LenProperties DEF StoringOK
      <4>2. \A n \in 1 .. Len(batch) : batch[n] \in Item
        BY <2>15, <4>1 DEF Flush, ToSet
      <4>3. batch \in [1 .. Len(batch) -> Item]
        BY <4>1, <4>2
      <4>4. batch \in UNION {[1 .. n -> Item] : n \in Nat}
        BY <4>1, <4>3
      <4> QED
        BY <4>4, SeqDef, Zenon
    <3>2. given' \in Seq(Item) /\ batch' = <<>>
      BY <2>15, <2>e, <3>1 DEF Flush, StoringOK
    <3>3. StoringOK'
      BY <1>0, <2>15, <3>2 DEF Flush, StoringOK
    <3> QED
      BY <2>15, <2>a, <2>b, <2>c, <2>d, <2>f, <3>3 DEF Flush, TypeInv
  <2>16. ASSUME NEW s \in Subscriber, Subscribe(s) PROVE TypeInv'
    <3>1. subscribers' \in Seq(Subscriber)
      BY <2>16, <2>f DEF Subscribe, SubsOK
    <3>2. joined' \in [Subscriber -> Nat \cup {Nil}]
      BY <2>16, <2>c, <2>f DEF Subscribe, SubsOK, ProcessingOK
    <3>3. SubsOK'
      BY <2>16, <2>f, <3>1, <3>2 DEF Subscribe, SubsOK
    <3> QED
      BY <2>16, <2>a, <2>b, <2>c, <2>d, <2>e, <3>3 DEF Subscribe, TypeInv, crawl
  <2>17. ASSUME NEW s \in Subscriber, Read(s) PROVE TypeInv'
    <3>1. inbox[s] \in Seq(Item \cup {Nil}) /\ inbox[s] # <<>>
      BY <2>17, <2>f DEF Read, SubsOK
    <3>2. /\ Head(inbox[s]) \in Item \cup {Nil}
          /\ Tail(inbox[s]) \in Seq(Item \cup {Nil})
          /\ Len(Tail(inbox[s])) <= Capacity
      BY <1>0, <2>f, <3>1 DEF SubsOK
    <3>3. Append(got[s], Head(inbox[s])) \in Seq(Item \cup {Nil})
      BY <2>f, <3>2 DEF SubsOK
    <3>4. SubsOK'
      BY <2>17, <2>f, <3>2, <3>3 DEF Read, SubsOK
    <3> QED
      BY <2>17, <2>a, <2>b, <2>c, <2>d, <2>e, <3>4 DEF Read, TypeInv, crawl
  <2>18. ASSUME NEW s \in Subscriber, Quit(s) PROVE TypeInv'
    <3>1. SubsOK'
      BY <2>18, <2>f DEF Quit, SubsOK
    <3> QED
      BY <2>18, <2>a, <2>b, <2>c, <2>d, <2>e, <3>1 DEF Quit, TypeInv, crawl
  <2>19. CASE UNCHANGED vars
    BY <2>19, <2>a, <2>b, <2>c, <2>d, <2>e, <2>f DEF vars, crawl, TypeInv
  <2> QED
    BY <2>1, <2>2, <2>3, <2>4, <2>5, <2>6, <2>7, <2>8, <2>9, <2>10,
       <2>11, <2>12, <2>13, <2>14, <2>15, <2>16, <2>17, <2>18, <2>19
       DEF Next, Work, Process, Store
<1>3. TypeInv => TypeOK
  BY DEF TypeInv, TypeOK, UpstreamOK, ItemsOK, ProcessingOK, ResultsOK, StoringOK, SubsOK
<1> QED
  BY <1>1, <1>2, <1>3, PTL DEF Spec

-----------------------------------------------------------------------------
(* What SendsWhileOpen needs: processItems is past its sends when it closes *)
(* resultChan, and holds no subscriber it has closed; a subscriber that is  *)
(* held or closed has registered, which happens once.                       *)
OpenInv ==
    /\ SendsWhileOpen
    /\ proc \in {"closing", "gone"} => fan = <<>>
    /\ \A s \in ToSet(subscribers) : joined[s] # Nil /\ s \notin inboxClosed
    /\ \A s \in inboxClosed : joined[s] # Nil

(* What happens to the set of a sequence's elements when it grows or        *)
(* shrinks by one.                                                          *)
LEMMA ElementsOfAppend ==
    ASSUME NEW S, NEW q \in Seq(S), NEW e \in S
    PROVE  ToSet(Append(q, e)) = ToSet(q) \cup {e}
<1> DEFINE r == Append(q, e)
<1>1. /\ Len(q) \in Nat /\ DOMAIN q = 1 .. Len(q)
      /\ DOMAIN r = 1 .. Len(q) + 1
  BY AppendProperties, LenProperties
<1>2. r[Len(q) + 1] = e /\ \A i \in 1 .. Len(q) : r[i] = q[i]
  BY AppendProperties
<1> HIDE DEF r
<1>3. ToSet(r) = {r[i] : i \in 1 .. Len(q) + 1}
  BY <1>1 DEF ToSet
<1>4. ToSet(q) = {q[i] : i \in 1 .. Len(q)}
  BY <1>1 DEF ToSet
<1>5. 1 .. Len(q) + 1 = (1 .. Len(q)) \cup {Len(q) + 1}
  BY <1>1
<1>6. ToSet(r) = ToSet(q) \cup {e}
  BY <1>2, <1>3, <1>4, <1>5
<1> QED
  BY <1>6 DEF r

LEMMA ElementsOfTail ==
    ASSUME NEW S, NEW q \in Seq(S), q # <<>>
    PROVE  ToSet(Tail(q)) \subseteq ToSet(q)
  BY DEF ToSet

LEMMA OpenAlways == Spec => []OpenInv
<1>1. Init => OpenInv
  BY DeliveryAssumption
     DEF DeliveryAssumption, Init, OpenInv, SendsWhileOpen, ToSet
<1>2. TypeOK /\ OpenInv /\ [Next]_vars => OpenInv'
  <2> SUFFICES ASSUME TypeOK, OpenInv, [Next]_vars PROVE OpenInv'
    OBVIOUS
  <2> USE DEF OpenInv, SendsWhileOpen, Goto, upstream, workers, itemChan,
              resultChan, processing, storing, subs, crawl
  <2>1. ASSUME NEW w \in Worker, Work(w) PROVE OpenInv'
    <3>1. pc[w] # "left" /\ UNCHANGED <<itemsClosed, resultChan, processing, subs>>
      BY <2>1 DEF Work, Scrape, Emit, Abandon, PageDone, Leave
    <3>2. ~itemsClosed
      BY <3>1
    <3> QED
      BY <3>1, <3>2
  <2>2. CASE Stop
    BY <2>2 DEF Stop
  <2>3. CASE Wait
    BY <2>3 DEF Wait
  <2>4. CASE Receive
    BY <2>4 DEF Receive
  <2>5. CASE Forward
    BY <2>5 DEF Forward
  <2>6. CASE Snapshot
    BY <2>6 DEF Snapshot
  <2>7. CASE FanOut
    <3>1. ToSet(fan') \subseteq ToSet(fan)
      BY <2>7, ElementsOfTail DEF FanOut, TypeOK
    <3> QED
      BY <2>7, <3>1 DEF FanOut
  <2>8. CASE Drained
    BY <2>8 DEF Drained
  <2>9. CASE CloseSubscribers
    <3>1. ToSet(subscribers') = {} /\ ToSet(fan') = {}
      BY <2>9 DEF CloseSubscribers, ToSet
    <3> QED
      BY <2>9, <3>1 DEF CloseSubscribers
  <2>10. CASE Store
    BY <2>10 DEF Store, Collect, ResultsEnd, Flush
  <2>11. ASSUME NEW s \in Subscriber, Subscribe(s) PROVE OpenInv'
    <3>1. joined[s] = Nil /\ joined'[s] # Nil
      BY <2>11, DeliveryAssumption DEF DeliveryAssumption, Subscribe, TypeOK
    <3>2. \A t \in Subscriber \ {s} : joined'[t] = joined[t]
      BY <2>11 DEF Subscribe, TypeOK
    <3>3. ToSet(subscribers') = ToSet(subscribers) \cup {s}
      <4>1. subscribers \in Seq(Subscriber) /\ subscribers' = Append(subscribers, s)
        BY <2>11 DEF Subscribe, TypeOK
      <4> QED
        BY <4>1, ElementsOfAppend
    <3>4. ToSet(subscribers) \subseteq Subscriber /\ inboxClosed \subseteq Subscriber
      <4>1. subscribers \in Seq(Subscriber) /\ inboxClosed \subseteq Subscriber
        BY DEF TypeOK
      <4> QED
        BY <4>1 DEF ToSet
    <3>5. UNCHANGED <<inboxClosed, pc, itemsClosed, resultsClosed, proc, fan>>
      BY <2>11 DEF Subscribe
    <3> QED
      BY <3>1, <3>2, <3>3, <3>4, <3>5
  <2>12. ASSUME NEW s \in Subscriber, Read(s) \/ Quit(s) PROVE OpenInv'
    BY <2>12 DEF Read, Quit
  <2>13. CASE UNCHANGED vars
    BY <2>13 DEF vars
  <2> QED
    BY <2>1, <2>2, <2>3, <2>4, <2>5, <2>6, <2>7, <2>8, <2>9, <2>10, <2>11, <2>12,
       <2>13 DEF Next, Process
<1> QED
  BY <1>1, <1>2, TypeCorrect, PTL DEF Spec

(* No channel is closed under a sender (engine.go:413-424, 445-449,         *)
(* 551-558).                                                                *)
THEOREM ClosedAfterLastSend == Spec => []SendsWhileOpen
  BY OpenAlways, PTL DEF OpenInv

-----------------------------------------------------------------------------
(* What SubscriberSeesAll needs: a subscriber stands in a list at most      *)
(* once, is not in one before it registers, and is closed only when         *)
(* processItems is gone; while an item is on its way to resultChan there is *)
(* nobody left to send the last one to.                                     *)
Stream(s) == got[s] \o inbox[s]
Due(s) == IF s \in ToSet(fan) THEN <<hand>> ELSE <<>>
Distinct(q) == \A i, j \in 1 .. Len(q) : q[i] = q[j] => i = j

SeesInv ==
    /\ OpenInv
    /\ SubscriberSeesAll
    /\ Distinct(fan) /\ Distinct(subscribers)
    /\ proc # "loop" => fan = <<>>
    /\ proc # "gone" => inboxClosed = {}
    /\ \A s \in Subscriber :
        /\ joined[s] # Nil => joined[s] <= Len(passed)
        /\ joined[s] = Nil => got[s] = <<>> /\ inbox[s] = <<>> /\ s \notin ToSet(fan)

(* A suffix grows with its sequence.                                        *)
LEMMA SuffixOfAppend ==
    ASSUME NEW S, NEW q \in Seq(S), NEW e \in S, NEW n \in 0 .. Len(q)
    PROVE  SubSeq(Append(q, e), n + 1, Len(Append(q, e)))
             = SubSeq(q, n + 1, Len(q)) \o <<e>>
<1> DEFINE r == Append(q, e)
<1>1. /\ r \in Seq(S) /\ Len(r) = Len(q) + 1 /\ Len(q) \in Nat
      /\ r[Len(r)] = e /\ \A i \in 1 .. Len(q) : r[i] = q[i]
  BY AppendProperties, LenProperties
<1> HIDE DEF r
<1>2. SubSeq(r, n + 1, Len(r)) = SubSeq(r, n + 1, Len(r) - 1) \o <<r[Len(r)]>>
  <2>1. n + 1 \in 1 .. Len(r) /\ Len(r) \in n + 1 .. Len(r)
    BY <1>1
  <2> QED
    BY <1>1, <2>1, SubSeqRecursiveSecond
<1>3. SubSeq(r, n + 1, Len(r) - 1) = SubSeq(q, n + 1, Len(q))
  <2>1. Len(r) - 1 = Len(q)
    BY <1>1
  <2>2. \A i \in n + 1 .. Len(q) : r[i] \in S /\ q[i] \in S /\ r[i] = q[i]
    BY <1>1, ElementOfSeq
  <2> DEFINE x == SubSeq(r, n + 1, Len(q))
             y == SubSeq(q, n + 1, Len(q))
  <2> DEFINE k == Len(q) - (n + 1) + 1
  <2>3. /\ n + 1 \in 1 .. Len(q) + 1 /\ n + 1 \in Int /\ Len(q) \in Int
        /\ \A i \in n + 1 .. Len(q) : r[i] \in S
        /\ \A i \in n + 1 .. Len(q) : q[i] \in S
    BY <1>1, <2>2
  <2>4. /\ x \in Seq(S) /\ y \in Seq(S) /\ Len(x) = Len(y)
        /\ \A i \in 1 .. Len(x) : x[i] = y[i]
    <3>1. /\ x \in Seq(S) /\ Len(x) = IF n + 1 <= Len(q) THEN k ELSE 0
          /\ \A i \in 1 .. k : x[i] = r[n + 1 + i - 1]
      BY <2>3, SubSeqProperties
    <3>2. /\ y \in Seq(S) /\ Len(y) = IF n + 1 <= Len(q) THEN k ELSE 0
          /\ \A i \in 1 .. k : y[i] = q[n + 1 + i - 1]
      BY <2>3, SubSeqProperties
    <3> HIDE DEF x, y
    <3>3. ASSUME NEW i \in 1 .. Len(x) PROVE x[i] = y[i]
      <4>1. i \in 1 .. k /\ n + 1 + i - 1 \in n + 1 .. Len(q)
        BY <2>3, <3>1, <3>3
      <4> QED
        BY <2>2, <3>1, <3>2, <4>1
    <3> QED
      BY <3>1, <3>2, <3>3
  <2> HIDE DEF x, y
  <2>5. x = y
    BY <2>4, SeqEqual
  <2> QED
    BY <2>1, <2>5 DEF x, y
<1> QED
  BY <1>1, <1>2, <1>3 DEF r

(* Moving the head of one half to the end of the other changes nothing.     *)
LEMMA MoveHead ==
    ASSUME NEW S, NEW p \in Seq(S), NEW q \in Seq(S), q # <<>>
    PROVE  Append(p, Head(q)) \o Tail(q) = p \o q
  OBVIOUS

LEMMA AppendPasses ==
    ASSUME NEW S, NEW p \in Seq(S), NEW q \in Seq(S), NEW e \in S
    PROVE  p \o Append(q, e) = Append(p \o q, e)
  OBVIOUS

LEMMA AppendMoves ==
    ASSUME NEW S, NEW p \in Seq(S), NEW q \in Seq(S), NEW e \in S
    PROVE  (p \o Append(q, e)) \o <<>> = (p \o q) \o <<e>>
<1>1. Append(q, e) \in Seq(S) /\ p \o Append(q, e) \in Seq(S)
  BY AppendProperties, ConcatProperties
<1>2. (p \o Append(q, e)) \o <<>> = p \o Append(q, e)
  BY <1>1, ConcatEmptySeq
<1>3. p \o Append(q, e) = Append(p \o q, e)
  BY AppendPasses
<1>4. Append(p \o q, e) = (p \o q) \o <<e>>
  BY AppendIsConcat, ConcatProperties
<1> QED
  BY <1>2, <1>3, <1>4, Zenon

(* The head of a list without repetitions is not in its tail; the others    *)
(* stay.                                                                    *)
LEMMA TailOfDistinct ==
    ASSUME NEW S, NEW q \in Seq(S), q # <<>>, Distinct(q)
    PROVE  /\ Distinct(Tail(q))
           /\ ToSet(Tail(q)) = ToSet(q) \ {Head(q)}
<1> DEFINE r == Tail(q)
<1>1. /\ Len(q) \in Nat \ {0} /\ Len(r) = Len(q) - 1 /\ Head(q) = q[1]
      /\ DOMAIN q = 1 .. Len(q) /\ DOMAIN r = 1 .. Len(q) - 1
      /\ \A i \in 1 .. Len(q) - 1 : r[i] = q[i + 1]
  OBVIOUS
<1> HIDE DEF r
<1>2. Distinct(r)
  BY <1>1 DEF Distinct
<1>3. ToSet(r) = {r[i] : i \in 1 .. Len(q) - 1} /\ ToSet(q) = {q[i] : i \in 1 .. Len(q)}
  BY <1>1 DEF ToSet
<1>4. \A i \in 2 .. Len(q) : q[i] # q[1]
  BY <1>1 DEF Distinct
<1>5. ToSet(r) \subseteq ToSet(q) \ {q[1]}
  BY <1>1, <1>3, <1>4
<1>6. ASSUME NEW i \in 1 .. Len(q), q[i] # q[1] PROVE q[i] \in ToSet(r)
  <2>1. i - 1 \in 1 .. Len(q) - 1 /\ r[i - 1] = q[i]
    BY <1>1, <1>6
  <2> QED
    BY <1>3, <2>1
<1>7. ToSet(r) = ToSet(q) \ {q[1]}
  BY <1>3, <1>5, <1>6
<1> QED
  BY <1>1, <1>2, <1>7 DEF r

(* Every subscriber sees, in order and without a gap, what passes from its  *)
(* registration on, and is let go of only by a close (engine.go:498-549).   *)
THEOREM FullStream == Spec => []SubscriberSeesAll
<1>1. Init => SeesInv
  <2> SUFFICES ASSUME Init PROVE SeesInv
    OBVIOUS
  <2>1. /\ \A s \in Subscriber : got[s] = <<>> /\ inbox[s] = <<>> /\ s \notin ToSet(fan)
        /\ passed = <<>> /\ fan = <<>> /\ subscribers = Early /\ proc = "loop"
        /\ inboxClosed = {}
    BY DEF Init, ToSet
  <2>2. \A s \in Subscriber : joined[s] = IF s \in ToSet(Early) THEN 0 ELSE Nil
    BY DEF Init
  <2>3. SubscriberSeesAll
    <3>1. SubSeq(passed, 1, Len(passed)) = <<>>
      BY <2>1
    <3>2. <<>> \o <<>> \o <<>> = <<>>
      OBVIOUS
    <3>3. \A s \in Subscriber : joined[s] # Nil =>
            joined[s] + 1 = 1 /\ s \in ToSet(subscribers)
      BY <2>1, <2>2
    <3> QED
      BY <2>1, <3>1, <3>2, <3>3, Zenon DEF SubscriberSeesAll
  <2>4. Distinct(subscribers) /\ Distinct(fan)
    BY <2>1, DeliveryAssumption DEF DeliveryAssumption, Distinct, IsInjective
  <2>5. OpenInv
    BY DeliveryAssumption
       DEF DeliveryAssumption, Init, OpenInv, SendsWhileOpen, ToSet
  <2>6. \A s \in Subscriber : joined[s] # Nil => joined[s] <= Len(passed)
    BY <2>1, <2>2
  <2> QED
    BY <2>1, <2>3, <2>4, <2>5, <2>6 DEF SeesInv
<1>2. TypeOK /\ SeesInv /\ OpenInv' /\ [Next]_vars => SeesInv'
  <2> SUFFICES ASSUME TypeOK, SeesInv, OpenInv', [Next]_vars PROVE SeesInv'
    OBVIOUS
  <2> USE DEF Goto, upstream, workers, itemChan, resultChan, storing, processing, subs,
              crawl
  <2>0. ASSUME UNCHANGED <<subs, passed, fan, proc>>, hand' = hand \/ fan = <<>>
        PROVE  SeesInv'
    <3>1. \A s \in ToSet(fan) : hand' = hand
      BY <2>0 DEF ToSet
    <3>2. SubscriberSeesAll'
      BY <2>0, <3>1 DEF SeesInv, SubscriberSeesAll
    <3> QED
      BY <2>0, <3>2 DEF SeesInv, Distinct
  <2>1. ASSUME NEW w \in Worker, Work(w) PROVE SeesInv'
    BY <2>0, <2>1 DEF Work, Scrape, Emit, Abandon, PageDone, Leave
  <2>2. CASE Stop \/ Wait
    BY <2>0, <2>2 DEF Stop, Wait
  <2>3. CASE Store
    BY <2>0, <2>3 DEF Store, Collect, ResultsEnd, Flush
  <2>4. CASE Receive
    <3>1. UNCHANGED <<subs, passed, fan>> /\ fan = <<>> /\ proc = "loop"
      BY <2>4 DEF Receive
    <3>2. proc' \in {"loop", "forward"}
      BY <2>4 DEF Receive
    <3>3. ToSet(fan) = {}
      BY <3>1 DEF ToSet
    <3>4. SubscriberSeesAll'
      BY <3>1, <3>3 DEF SeesInv, SubscriberSeesAll
    <3> QED
      BY <3>1, <3>2, <3>4 DEF SeesInv, Distinct
  <2>5. CASE Forward
    <3>1. UNCHANGED <<subs, passed, fan, hand>> /\ proc = "forward" /\ proc' = "snapshot"
      BY <2>5 DEF Forward
    <3>2. fan' = <<>>
      BY <3>1 DEF SeesInv
    <3>3. SubscriberSeesAll'
      BY <3>1 DEF SeesInv, SubscriberSeesAll
    <3> QED
      BY <3>1, <3>2, <3>3 DEF SeesInv, Distinct
  <2>6. CASE Snapshot
    <3>1. /\ UNCHANGED <<subs, hand>> /\ proc = "snapshot" /\ proc' = "loop"
          /\ fan' = subscribers /\ passed' = Append(passed, hand)
      BY <2>6 DEF Snapshot
    <3>2. fan = <<>> /\ ToSet(fan) = {} /\ inboxClosed = {}
      BY <3>1 DEF SeesInv, ToSet
    <3>3. Len(passed') = Len(passed) + 1 /\ Len(passed) \in Nat
      BY <3>1, AppendProperties, LenProperties DEF TypeOK
    <3>4. ASSUME NEW s \in Subscriber, joined[s] # Nil
          PROVE  /\ s \in ToSet(subscribers)
                 /\ Stream(s) \o <<hand>> = SubSeq(passed', joined[s] + 1, Len(passed'))
      <4>1. s \in ToSet(subscribers)
        BY <3>2, <3>4 DEF SeesInv, SubscriberSeesAll
      <4>2. Stream(s) = SubSeq(passed, joined[s] + 1, Len(passed))
        <5>1. Stream(s) \o <<>> = Stream(s)
          BY DEF TypeOK, Stream
        <5> QED
          BY <3>2, <3>4, <5>1 DEF SeesInv, SubscriberSeesAll, Stream
      <4>3. joined[s] \in 0 .. Len(passed)
        BY <3>3, <3>4 DEF SeesInv, TypeOK
      <4> QED
        <5>1. passed \in Seq(Item \cup {Nil}) /\ hand \in Item \cup {Nil}
          BY DEF TypeOK
        <5>2. SubSeq(Append(passed, hand), joined[s] + 1, Len(Append(passed, hand)))
                = SubSeq(passed, joined[s] + 1, Len(passed)) \o <<hand>>
          BY <4>3, <5>1, SuffixOfAppend
        <5> QED
          BY <3>1, <4>1, <4>2, <5>2, Zenon
    <3>5. SubscriberSeesAll'
      BY <3>1, <3>4 DEF SubscriberSeesAll, Stream
    <3>6. \A s \in Subscriber : joined[s] = Nil => s \notin ToSet(subscribers)
      BY DEF SeesInv, OpenInv
    <3> QED
      BY <3>1, <3>2, <3>3, <3>5, <3>6 DEF SeesInv, Distinct, TypeOK
  <2>7. CASE FanOut
    <3> DEFINE r == Head(fan)
    <3>1. /\ UNCHANGED <<subscribers, inboxClosed, got, joined, passed, hand, proc>>
          /\ fan' = Tail(fan) /\ fan # <<>> /\ proc = "loop"
      BY <2>7 DEF FanOut
    <3>2. Distinct(fan') /\ ToSet(fan') = ToSet(fan) \ {r}
      BY <3>1, TailOfDistinct DEF SeesInv, TypeOK
    <3>3. r \in Subscriber /\ r \in ToSet(fan)
      BY <3>1 DEF TypeOK, ToSet
    <3>4. inbox'[r] = Append(inbox[r], hand)
      BY <2>7, <3>3 DEF FanOut, TypeOK
    <3>5. \A t \in Subscriber \ {r} : inbox'[t] = inbox[t]
      BY <2>7 DEF FanOut, TypeOK
    <3> HIDE DEF r
    <3>6. got[r] \o inbox'[r] \o <<>> = got[r] \o inbox[r] \o <<hand>>
      <4>1. /\ got[r] \in Seq(Item \cup {Nil}) /\ inbox[r] \in Seq(Item \cup {Nil})
            /\ hand \in Item \cup {Nil}
        BY <3>3 DEF TypeOK
      <4> DEFINE p == got[r]
                 q == inbox[r]
      <4>2. p \in Seq(Item \cup {Nil}) /\ q \in Seq(Item \cup {Nil})
        BY <4>1
      <4> HIDE DEF p, q
      <4>3. (p \o Append(q, hand)) \o <<>> = (p \o q) \o <<hand>>
        BY <4>1, <4>2, AppendMoves
      <4> QED
        BY <3>4, <4>3 DEF p, q
    <3>7. joined[r] # Nil
      BY <3>3 DEF SeesInv
    <3>8. SubscriberSeesAll'
      BY <3>1, <3>2, <3>3, <3>5, <3>6 DEF SeesInv, SubscriberSeesAll
    <3> QED
      BY <3>1, <3>2, <3>3, <3>5, <3>7, <3>8 DEF SeesInv, Distinct
  <2>8. CASE Drained
    <3>1. UNCHANGED <<subs, passed, fan, hand>> /\ fan = <<>> /\ proc' = "closing"
          /\ proc = "loop"
      BY <2>8 DEF Drained
    <3>2. SubscriberSeesAll'
      BY <3>1 DEF SeesInv, SubscriberSeesAll
    <3> QED
      BY <3>1, <3>2 DEF SeesInv, Distinct
  <2>9. CASE CloseSubscribers
    <3>1. /\ UNCHANGED <<inbox, got, joined, passed, fan, hand>> /\ proc' = "gone"
          /\ subscribers' = <<>> /\ proc = "closing"
          /\ inboxClosed' = inboxClosed \cup ToSet(subscribers)
      BY <2>9 DEF CloseSubscribers
    <3>2. SubscriberSeesAll'
      BY <3>1 DEF SeesInv, SubscriberSeesAll
    <3>3. Distinct(subscribers')
      BY <3>1 DEF Distinct
    <3> QED
      BY <3>1, <3>2, <3>3 DEF SeesInv, Distinct
  <2>10. ASSUME NEW s \in Subscriber, Subscribe(s) PROVE SeesInv'
    <3>1. /\ UNCHANGED <<crawl, inbox, inboxClosed, got>> /\ joined[s] = Nil
          /\ subscribers' = Append(subscribers, s)
          /\ joined' = [joined EXCEPT ![s] = Len(passed)]
      BY <2>10 DEF Subscribe
    <3>2. joined'[s] = Len(passed) /\ \A t \in Subscriber \ {s} : joined'[t] = joined[t]
      BY <3>1 DEF TypeOK
    <3>3. ToSet(subscribers') = ToSet(subscribers) \cup {s} /\ s \notin ToSet(subscribers)
      BY <3>1, ElementsOfAppend DEF TypeOK, SeesInv, OpenInv
    <3>4. Distinct(subscribers')
      <4>1. /\ Len(subscribers') = Len(subscribers) + 1 /\ Len(subscribers) \in Nat
            /\ subscribers'[Len(subscribers) + 1] = s
            /\ \A i \in 1 .. Len(subscribers) :
                  subscribers'[i] = subscribers[i] /\ subscribers[i] # s
        <5>1. subscribers \in Seq(Subscriber) /\ DOMAIN subscribers = 1 .. Len(subscribers)
          BY DEF TypeOK
        <5>2. \A i \in 1 .. Len(subscribers) : subscribers[i] # s
          BY <3>3, <5>1 DEF ToSet
        <5> QED
          BY <3>1, <5>1, <5>2, AppendProperties
      <4>2. \A i, j \in 1 .. Len(subscribers) : subscribers[i] = subscribers[j] => i = j
        BY DEF SeesInv, Distinct
      <4>3. 1 .. Len(subscribers') = (1 .. Len(subscribers)) \cup {Len(subscribers) + 1}
        BY <4>1
      <4> QED
        BY <4>1, <4>2, <4>3, Zenon DEF Distinct
    <3>5. /\ got[s] \o inbox[s] \o <<>> = <<>> /\ s \notin ToSet(fan)
          /\ Len(passed) \in Nat
      BY <3>1 DEF SeesInv, TypeOK
    <3>6. SubSeq(passed, Len(passed) + 1, Len(passed)) = <<>>
      BY <3>5, SubSeqEmpty
    <3>7. SubscriberSeesAll'
      BY <3>1, <3>2, <3>3, <3>5, <3>6 DEF SeesInv, SubscriberSeesAll
    <3> QED
      BY <3>1, <3>2, <3>4, <3>5, <3>7, SMTT(30) DEF SeesInv, Distinct
  <2>11. ASSUME NEW s \in Subscriber, Read(s) PROVE SeesInv'
    <3>1. /\ UNCHANGED <<crawl, subscribers, inboxClosed, joined>> /\ inbox[s] # <<>>
          /\ got' = [got EXCEPT ![s] = Append(@, Head(inbox[s]))]
          /\ inbox' = [inbox EXCEPT ![s] = Tail(@)]
      BY <2>11 DEF Read
    <3>2. got'[s] = Append(got[s], Head(inbox[s])) /\ inbox'[s] = Tail(inbox[s])
      BY <3>1 DEF TypeOK
    <3>3. \A t \in Subscriber \ {s} : got'[t] = got[t] /\ inbox'[t] = inbox[t]
      BY <3>1 DEF TypeOK
    <3>4. got'[s] \o inbox'[s] = got[s] \o inbox[s]
      <4>1. got[s] \in Seq(Item \cup {Nil}) /\ inbox[s] \in Seq(Item \cup {Nil})
        BY DEF TypeOK
      <4> QED
        BY <3>1, <3>2, <4>1, MoveHead
    <3>5. joined[s] # Nil
      BY <3>1 DEF SeesInv
    <3>6. SubscriberSeesAll'
      BY <3>1, <3>3, <3>4 DEF SeesInv, SubscriberSeesAll
    <3> QED
      BY <3>1, <3>3, <3>5, <3>6 DEF SeesInv, Distinct
  <2>12. ASSUME NEW s \in Subscriber, Quit(s) PROVE SeesInv'
    <3>1. UNCHANGED <<crawl, subscribers, inbox, inboxClosed, got, joined>>
      BY <2>12 DEF Quit
    <3>2. SubscriberSeesAll'
      BY <3>1 DEF SeesInv, SubscriberSeesAll
    <3> QED
      BY <3>1, <3>2 DEF SeesInv, Distinct
  <2>13. CASE UNCHANGED vars
    BY <2>0, <2>13 DEF vars
  <2> QED
    BY <2>1, <2>2, <2>3, <2>4, <2>5, <2>6, <2>7, <2>8, <2>9, <2>10, <2>11, <2>12,
       <2>13 DEF Next, Process
<1> QED
  BY <1>1, <1>2, TypeCorrect, OpenAlways, PTL DEF Spec, SeesInv

-----------------------------------------------------------------------------
(* Induction over a sequence, by the least position that is a               *)
(* counterexample.                                                          *)
LEMMA Least ==
    ASSUME NEW T, T \subseteq Nat, T # {}
    PROVE  \E n \in T : \A m \in T : n <= m
<1>1. IsWellFoundedOn({ss \in Nat \X Nat : ss[1] < ss[2]}, Nat)
  BY NatLessThanWellFounded DEF OpToRel
<1>2. PICK n \in T : \A m \in T : ~ (<<m, n>> \in {ss \in Nat \X Nat : ss[1] < ss[2]})
  BY <1>1, WFMin
<1>3. ASSUME NEW m \in T PROVE n <= m
  <2>1. m \in Nat /\ n \in Nat
    OBVIOUS
  <2>2. <<m, n>> \in Nat \X Nat /\ <<m, n>>[1] = m /\ <<m, n>>[2] = n
    BY <2>1
  <2>3. m < n => <<m, n>> \in {ss \in Nat \X Nat : ss[1] < ss[2]}
    BY <2>2
  <2>4. ~ (m < n)
    BY <1>2, <2>3, Zenon
  <2> QED
    BY <2>1, <2>4
<1> QED
  BY <1>3

LEMMA FromBelow ==
    ASSUME NEW n \in Nat, NEW T,
           \A i \in 0 .. n : (\A j \in 0 .. n : j < i => j \in T) => i \in T
    PROVE  \A i \in 0 .. n : i \in T
<1> DEFINE F == {i \in 0 .. n : i \notin T}
<1>1. CASE F = {}
  BY <1>1
<1>2. CASE F # {}
  <2>1. F \subseteq Nat
    OBVIOUS
  <2>2. PICK i \in F : \A j \in F : i <= j
    BY <1>2, <2>1, Least
  <2>3. ASSUME NEW j \in 0 .. n, j < i PROVE j \in T
    BY <2>1, <2>2, <2>3
  <2> QED
    BY <2>2, <2>3
<1> QED
  BY <1>1, <1>2

LEMMA StepByStep ==
    ASSUME NEW n \in Nat, NEW T, 0 \in T,
           \A i \in 0 .. (n - 1) : i \in T => i + 1 \in T
    PROVE  \A i \in 0 .. n : i \in T
<1>1. ASSUME NEW i \in 0 .. n, \A j \in 0 .. n : j < i => j \in T
      PROVE  i \in T
  <2>1. CASE i = 0
    BY <2>1
  <2>2. CASE i # 0
    <3>1. i - 1 \in 0 .. (n - 1) /\ i - 1 \in 0 .. n /\ i - 1 < i /\ (i - 1) + 1 = i
      BY <2>2
    <3> QED
      BY <1>1, <3>1
  <2> QED
    BY <2>1, <2>2
<1> QED
  BY <1>1, FromBelow

-----------------------------------------------------------------------------
(* What the pipeline makes of a sequence: of none, of one more at its end,   *)
(* and of one less at its head.                                             *)
LEMMA OutcomeType == \A i \in Item : Outcome(i) \in Seq(Item \cup {Nil})
<1> SUFFICES ASSUME NEW i \in Item PROVE Outcome(i) \in Seq(Item \cup {Nil})
  OBVIOUS
<1>1. Verdict[i] \in {"keep", "error", "nil"}
  BY DeliveryAssumption DEF DeliveryAssumption
<1>2. /\ <<>> \in Seq(Item \cup {Nil}) /\ <<i>> \in Seq(Item \cup {Nil})
      /\ <<Nil>> \in Seq(Item \cup {Nil})
  OBVIOUS
<1> QED
  BY <1>1, <1>2 DEF Outcome

LEMMA PipingIs ==
    ASSUME NEW s \in Seq(Item)
    PROVE  /\ Piping(s)[0] = <<>>
           /\ \A n \in 1 .. Len(s) : Piping(s)[n] = Piping(s)[n - 1] \o Outcome(s[n])
<1> DEFINE Is(f, n) ==
        f = [i \in 0 .. n |-> IF i = 0 THEN <<>> ELSE f[i - 1] \o Outcome(s[i])]
<1> DEFINE T == {n \in 0 .. Len(s) : \E f : Is(f, n)}
<1>1. Len(s) \in Nat
  BY LenProperties
<1>2. 0 \in T
  <2> DEFINE f == [i \in 0 .. 0 |-> <<>>]
  <2>1. \A i \in 0 .. 0 : i = 0
    OBVIOUS
  <2>2. [i \in 0 .. 0 |-> IF i = 0 THEN <<>> ELSE f[i - 1] \o Outcome(s[i])] = f
    BY <2>1
  <2> HIDE DEF f
  <2>3. Is(f, 0)
    BY <2>2
  <2> HIDE DEF Is
  <2> QED
    BY <1>1, <2>3
<1>3. ASSUME NEW n \in 0 .. (Len(s) - 1), n \in T PROVE n + 1 \in T
  <2>1. PICK f : Is(f, n)
    BY <1>3
  <2>2. n \in Nat /\ n + 1 \in 0 .. Len(s)
    BY <1>1
  <2> DEFINE g == [i \in 0 .. (n + 1) |->
                     IF i <= n THEN f[i] ELSE f[n] \o Outcome(s[n + 1])]
  <2>3. ASSUME NEW i \in 0 .. (n + 1)
        PROVE  g[i] = IF i = 0 THEN <<>> ELSE g[i - 1] \o Outcome(s[i])
    <3>1. CASE i <= n
      <4>1. i \in 0 .. n /\ g[i] = f[i] /\ (i # 0 => i - 1 \in 0 .. (n + 1) /\ i - 1 <= n)
        BY <2>2, <3>1
      <4>2. f[i] = IF i = 0 THEN <<>> ELSE f[i - 1] \o Outcome(s[i])
        BY <2>1, <4>1
      <4>3. i # 0 => g[i - 1] = f[i - 1]
        BY <4>1
      <4> QED
        BY <4>1, <4>2, <4>3, Zenon
    <3>2. CASE ~(i <= n)
      <4>1. i = n + 1 /\ i # 0 /\ i - 1 = n /\ n \in 0 .. (n + 1) /\ n <= n
        BY <2>2, <3>2
      <4>2. g[i] = f[n] \o Outcome(s[n + 1]) /\ g[n] = f[n]
        BY <3>2, <4>1
      <4> QED
        BY <4>1, <4>2, Zenon
    <3> QED
      BY <3>1, <3>2
  <2>4. g = [i \in 0 .. (n + 1) |-> g[i]]
    OBVIOUS
  <2> HIDE DEF g
  <2>5. Is(g, n + 1)
    BY <2>3, <2>4
  <2> HIDE DEF Is
  <2> QED
    BY <2>2, <2>5
<1>4. \E f : Is(f, Len(s))
  <2> HIDE DEF T
  <2>1. \A i \in 0 .. Len(s) : i \in T
    BY <1>1, <1>2, <1>3, StepByStep
  <2>2. Len(s) \in T
    BY <1>1, <2>1
  <2> QED
    BY <2>2 DEF T
<1>5. Is(Piping(s), Len(s))
  BY <1>4, Zenon DEF Piping
<1> HIDE DEF T
<1>6. 0 \in 0 .. Len(s)
  BY <1>1
<1>7. ASSUME NEW n \in 1 .. Len(s)
      PROVE  Piping(s)[n] = Piping(s)[n - 1] \o Outcome(s[n])
  <2>1. n \in 0 .. Len(s) /\ n # 0
    BY <1>1
  <2> QED
    BY <1>5, <2>1
<1> QED
  BY <1>5, <1>6, <1>7

LEMMA PipingType ==
    ASSUME NEW s \in Seq(Item)
    PROVE  \A n \in 0 .. Len(s) : Piping(s)[n] \in Seq(Item \cup {Nil})
<1> DEFINE T == {n \in 0 .. Len(s) : Piping(s)[n] \in Seq(Item \cup {Nil})}
<1>1. Len(s) \in Nat
  BY LenProperties
<1>2. 0 \in T
  <2>1. <<>> \in Seq(Item \cup {Nil}) /\ 0 \in 0 .. Len(s)
    BY <1>1
  <2> QED
    BY <2>1, PipingIs
<1>3. ASSUME NEW n \in 0 .. (Len(s) - 1), n \in T PROVE n + 1 \in T
  <2>1. n + 1 \in 1 .. Len(s) /\ n + 1 \in 0 .. Len(s) /\ (n + 1) - 1 = n
    BY <1>1
  <2>2. Piping(s)[n + 1] = Piping(s)[(n + 1) - 1] \o Outcome(s[n + 1])
    BY <2>1, PipingIs
  <2>3. s[n + 1] \in Item
    BY <2>1, ElementOfSeq
  <2>4. Outcome(s[n + 1]) \in Seq(Item \cup {Nil})
    BY <2>3, OutcomeType
  <2>5. Piping(s)[n] \in Seq(Item \cup {Nil})
    BY <1>3
  <2>6. Piping(s)[n] \o Outcome(s[n + 1]) \in Seq(Item \cup {Nil})
    BY <2>4, <2>5, ConcatProperties
  <2> QED
    BY <2>1, <2>2, <2>6
<1> HIDE DEF T
<1>4. \A n \in 0 .. Len(s) : n \in T
  BY <1>1, <1>2, <1>3, StepByStep
<1> QED
  BY <1>4 DEF T

LEMMA PipedType == \A s \in Seq(Item) : Piped(s) \in Seq(Item \cup {Nil})
<1> SUFFICES ASSUME NEW s \in Seq(Item) PROVE Piped(s) \in Seq(Item \cup {Nil})
  OBVIOUS
<1>1. Len(s) \in 0 .. Len(s)
  BY LenProperties
<1> QED
  BY <1>1, PipingType DEF Piped

LEMMA PipedEmpty == Piped(<<>>) = <<>>
<1>1. <<>> \in Seq(Item) /\ Len(<<>>) = 0
  OBVIOUS
<1> QED
  BY <1>1, PipingIs DEF Piped

LEMMA PipedAppend ==
    ASSUME NEW s \in Seq(Item), NEW i \in Item
    PROVE  Piped(Append(s, i)) = Piped(s) \o Outcome(i)
<1> DEFINE r == Append(s, i)
<1> DEFINE T == {n \in 0 .. Len(s) : Piping(r)[n] = Piping(s)[n]}
<1>1. /\ r \in Seq(Item) /\ Len(r) = Len(s) + 1 /\ Len(s) \in Nat
      /\ r[Len(s) + 1] = i /\ \A n \in 1 .. Len(s) : r[n] = s[n]
  BY AppendProperties, LenProperties
<1> HIDE DEF r
<1>2. 0 \in T
  <2>1. Piping(r)[0] = <<>> /\ Piping(s)[0] = <<>>
    BY <1>1, PipingIs
  <2> QED
    BY <1>1, <2>1
<1>3. ASSUME NEW n \in 0 .. (Len(s) - 1), n \in T PROVE n + 1 \in T
  <2>1. /\ n + 1 \in 1 .. Len(s) /\ n + 1 \in 0 .. Len(s) /\ (n + 1) - 1 = n
        /\ n + 1 \in 1 .. Len(r)
    BY <1>1
  <2>2. Piping(s)[n + 1] = Piping(s)[(n + 1) - 1] \o Outcome(s[n + 1])
    BY <2>1, PipingIs
  <2>3. Piping(r)[n + 1] = Piping(r)[(n + 1) - 1] \o Outcome(r[n + 1])
    BY <1>1, <2>1, PipingIs
  <2>4. r[n + 1] = s[n + 1] /\ Piping(r)[n] = Piping(s)[n]
    BY <1>1, <1>3, <2>1
  <2>5. Piping(r)[n + 1] = Piping(s)[n + 1]
    BY <2>1, <2>2, <2>3, <2>4, Zenon
  <2> QED
    BY <2>1, <2>5
<1>4. Piping(r)[Len(s)] = Piping(s)[Len(s)]
  <2> HIDE DEF T
  <2>1. \A n \in 0 .. Len(s) : n \in T
    BY <1>1, <1>2, <1>3, StepByStep
  <2>2. Len(s) \in T
    BY <1>1, <2>1
  <2> QED
    BY <2>2 DEF T
<1>5. Len(s) + 1 \in 1 .. Len(r) /\ (Len(s) + 1) - 1 = Len(s)
  BY <1>1
<1>6. Piping(r)[Len(s) + 1] = Piping(r)[(Len(s) + 1) - 1] \o Outcome(r[Len(s) + 1])
  BY <1>1, <1>5, PipingIs
<1>7. Piped(r) = Piped(s) \o Outcome(i)
  BY <1>1, <1>4, <1>5, <1>6, Zenon DEF Piped
<1> QED
  BY <1>7 DEF r

LEMMA PipedHead ==
    ASSUME NEW s \in Seq(Item), s # <<>>
    PROVE  Piped(s) = Outcome(Head(s)) \o Piped(Tail(s))
<1> DEFINE r == Tail(s)
<1> DEFINE h == Outcome(s[1])
<1> DEFINE T == {n \in 0 .. Len(r) : Piping(s)[n + 1] = h \o Piping(r)[n]}
<1>1. /\ r \in Seq(Item) /\ Len(s) = Len(r) + 1 /\ Len(r) \in Nat
      /\ Head(s) = s[1] /\ s[1] \in Item /\ \A n \in 1 .. Len(r) : r[n] = s[n + 1]
  OBVIOUS
<1> HIDE DEF r
<1>2. h \in Seq(Item \cup {Nil})
  BY <1>1, OutcomeType
<1> HIDE DEF h
<1>3. 0 \in T
  <2>1. 1 \in 1 .. Len(s) /\ 1 - 1 = 0 /\ 0 + 1 = 1 /\ 0 \in 0 .. Len(r)
    BY <1>1
  <2>2. Piping(s)[1] = Piping(s)[1 - 1] \o h
    BY <2>1, PipingIs DEF h
  <2>3. Piping(s)[0] = <<>> /\ Piping(r)[0] = <<>>
    BY <1>1, PipingIs
  <2>4. <<>> \o h = h /\ h \o <<>> = h
    BY <1>2, ConcatEmptySeq
  <2>5. Piping(s)[0 + 1] = h \o Piping(r)[0]
    BY <2>1, <2>2, <2>3, <2>4, Zenon
  <2> QED
    BY <2>1, <2>5
<1>4. ASSUME NEW n \in 0 .. (Len(r) - 1), n \in T PROVE n + 1 \in T
  <2>1. /\ n + 1 \in 1 .. Len(r) /\ n + 1 \in 0 .. Len(r) /\ (n + 1) - 1 = n
        /\ (n + 1) + 1 \in 1 .. Len(s) /\ ((n + 1) + 1) - 1 = n + 1 /\ n \in 0 .. Len(r)
    BY <1>1
  <2>2. Piping(s)[(n + 1) + 1] = Piping(s)[((n + 1) + 1) - 1] \o Outcome(s[(n + 1) + 1])
    BY <2>1, PipingIs
  <2>3. Piping(r)[n + 1] = Piping(r)[(n + 1) - 1] \o Outcome(r[n + 1])
    BY <1>1, <2>1, PipingIs
  <2>4. r[n + 1] = s[(n + 1) + 1] /\ Piping(s)[n + 1] = h \o Piping(r)[n]
    BY <1>1, <1>4, <2>1
  <2>5. /\ Piping(r)[n] \in Seq(Item \cup {Nil})
        /\ Outcome(r[n + 1]) \in Seq(Item \cup {Nil})
    <3>1. r[n + 1] \in Item
      BY <1>1, <2>1, ElementOfSeq
    <3>2. Outcome(r[n + 1]) \in Seq(Item \cup {Nil})
      BY <3>1, OutcomeType
    <3>3. r \in Seq(Item) /\ n \in 0 .. Len(r)
      BY <1>1, <2>1
    <3>4. \A k \in 0 .. Len(r) : Piping(r)[k] \in Seq(Item \cup {Nil})
      BY <3>3, PipingType
    <3> QED
      BY <3>2, <3>3, <3>4, Zenon
  <2>6. (h \o Piping(r)[n]) \o Outcome(r[n + 1]) = h \o (Piping(r)[n] \o Outcome(r[n + 1]))
    <3> DEFINE x == Piping(r)[n]
               y == Outcome(r[n + 1])
    <3>1. x \in Seq(Item \cup {Nil}) /\ y \in Seq(Item \cup {Nil})
      BY <2>5
    <3> HIDE DEF x, y
    <3>2. (h \o x) \o y = h \o (x \o y)
      BY <1>2, <3>1, ConcatAssociative
    <3> QED
      BY <3>2, Zenon DEF x, y
  <2>7. Piping(s)[(n + 1) + 1] = h \o Piping(r)[n + 1]
    BY <2>1, <2>2, <2>3, <2>4, <2>6, Zenon
  <2> QED
    BY <2>1, <2>7
<1>5. Piping(s)[Len(r) + 1] = h \o Piping(r)[Len(r)]
  <2> HIDE DEF T
  <2>1. \A n \in 0 .. Len(r) : n \in T
    BY <1>1, <1>3, <1>4, StepByStep
  <2>2. Len(r) \in T
    BY <1>1, <2>1
  <2> QED
    BY <2>2 DEF T
<1>6. Piped(s) = h \o Piped(r)
  BY <1>1, <1>5, Zenon DEF Piped
<1> QED
  BY <1>1, <1>6 DEF r, h

-----------------------------------------------------------------------------
(* What StoredInOrder needs: processItems ends when nothing is left and     *)
(* nothing can come, and storeResults likewise.                             *)
OnTheWay == given \o batch \o results \o InHand \o Piped(items)

StoreInv ==
    /\ OnTheWay = Piped(sent)
    /\ proc \in {"closing", "gone"} => items = <<>> /\ itemsClosed
    /\ store \in {"last", "gone"} => results = <<>> /\ resultsClosed
    /\ store = "gone" => batch = <<>>

(* Every item sent, but for those the pipeline fails, is given to Store     *)
(* once and in the order of the sends; nothing is left on its way when both *)
(* goroutines have returned (engine.go:551-616).                            *)
THEOREM StoredInTheirOrder == Spec => []StoredInOrder
<1> DEFINE S == Item \cup {Nil}
<1>1. Init => StoreInv
  <2> SUFFICES ASSUME Init PROVE StoreInv
    OBVIOUS
  <2>1. /\ given = <<>> /\ batch = <<>> /\ results = <<>> /\ items = <<>> /\ sent = <<>>
        /\ proc = "loop" /\ store = "collect"
    BY DEF Init
  <2>2. InHand = <<>>
    BY <2>1 DEF InHand
  <2>3. OnTheWay = <<>> /\ Piped(sent) = <<>>
    BY <2>1, <2>2, PipedEmpty DEF OnTheWay
  <2> QED
    BY <2>1, <2>3 DEF StoreInv
<1>2. TypeOK /\ OpenInv /\ StoreInv /\ [Next]_vars => StoreInv'
  <2> SUFFICES ASSUME TypeOK, OpenInv, StoreInv, [Next]_vars PROVE StoreInv'
    OBVIOUS
  <2> DEFINE way == (given \o batch) \o results
  <2>a. /\ given \in Seq(S) /\ batch \in Seq(S) /\ results \in Seq(S) /\ hand \in S
        /\ items \in Seq(Item) /\ sent \in Seq(Item)
    BY DEF TypeOK
  <2>b. InHand \in Seq(S) /\ Piped(items) \in Seq(S)
    <3>1. <<hand>> \in Seq(S) /\ <<>> \in Seq(S)
      BY <2>a
    <3> QED
      BY <2>a, <3>1, PipedType DEF InHand
  <2>c. given \o batch \in Seq(S) /\ way \in Seq(S) /\ way \o InHand \in Seq(S)
    <3>1. given \o batch \in Seq(S)
      BY <2>a, ConcatProperties
    <3>2. way \in Seq(S)
      BY <2>a, <3>1, ConcatProperties
    <3> QED
      BY <2>b, <3>1, <3>2, ConcatProperties
  <2>d. ASSUME UNCHANGED <<items, itemsClosed, sent, given, batch, results, resultsClosed,
                           store, proc, hand>>
        PROVE  StoreInv'
    BY <2>d DEF StoreInv, OnTheWay, InHand
  <2>1. ASSUME NEW w \in Worker, Emit(w) PROVE StoreInv'
    <3> DEFINE i == Head(page[w])
    <3>1. i \in Item
      <4>1. page[w] \in Seq(Item) /\ page[w] # <<>>
        BY <2>1 DEF Emit, TypeOK
      <4> QED
        BY <4>1
    <3>2. /\ items' = Append(items, i) /\ sent' = Append(sent, i)
          /\ UNCHANGED <<given, batch, results, resultsClosed, store, proc, hand, itemsClosed>>
      BY <2>1 DEF Emit, processing, resultChan, storing
    <3>3. ~itemsClosed
      BY <2>1 DEF Emit, OpenInv, SendsWhileOpen
    <3> HIDE DEF i
    <3>4. Piped(items') = Piped(items) \o Outcome(i) /\ Piped(sent') = Piped(sent) \o Outcome(i)
      BY <2>a, <3>1, <3>2, PipedAppend
    <3>5. Outcome(i) \in Seq(S)
      BY <3>1, OutcomeType
    <3>6. (way \o InHand) \o (Piped(items) \o Outcome(i))
            = ((way \o InHand) \o Piped(items)) \o Outcome(i)
      <4> DEFINE a == way \o InHand
                 b == Piped(items)
                 c == Outcome(i)
      <4>1. a \in Seq(S) /\ b \in Seq(S) /\ c \in Seq(S)
        BY <2>b, <2>c, <3>5
      <4> HIDE DEF a, b, c, S
      <4>2. a \o (b \o c) = (a \o b) \o c
        BY <4>1, ConcatAssociative, SMTT(30)
      <4> QED
        BY <4>2, Zenon DEF a, b, c
    <3>7. OnTheWay' = (way \o InHand) \o (Piped(items) \o Outcome(i))
      <4>1. InHand' = InHand
        BY <3>2 DEF InHand
      <4> QED
        BY <3>2, <3>4, <4>1 DEF OnTheWay
    <3>8. ((way \o InHand) \o Piped(items)) \o Outcome(i) = Piped(sent) \o Outcome(i)
      BY DEF StoreInv, OnTheWay
    <3>9. OnTheWay' = Piped(sent)'
      BY <3>4, <3>6, <3>7, <3>8, Zenon
    <3> QED
      BY <3>2, <3>3, <3>9 DEF StoreInv
  <2>2. ASSUME NEW w \in Worker, Scrape(w) \/ Abandon(w) \/ PageDone(w) \/ Leave(w) PROVE StoreInv'
    BY <2>2, <2>d DEF Scrape, Abandon, PageDone, Leave, itemChan, processing, resultChan, storing
  <2>3. CASE Stop
    BY <2>3, <2>d DEF Stop, itemChan, processing, resultChan, storing
  <2>4. CASE Wait
    <3>1. UNCHANGED <<items, sent, given, batch, results, resultsClosed, store, proc, hand>>
          /\ itemsClosed' = TRUE
      BY <2>4 DEF Wait, upstream, processing, resultChan, storing
    <3>2. OnTheWay' = OnTheWay
      BY <3>1 DEF OnTheWay, InHand
    <3> QED
      BY <3>1, <3>2 DEF StoreInv
  <2>5. CASE Receive
    <3> DEFINE i == Head(items)
    <3>1. /\ items # <<>> /\ items' = Tail(items) /\ proc = "loop"
          /\ UNCHANGED <<sent, itemsClosed, given, batch, results, resultsClosed, store>>
      BY <2>5 DEF Receive, upstream, resultChan, storing
    <3>2. i \in Item
      BY <2>a, <3>1
    <3>3. Piped(items) = Outcome(i) \o Piped(items') /\ Piped(items') \in Seq(S)
      <4>1. items' \in Seq(Item)
        BY <2>a, <3>1
      <4> QED
        BY <2>a, <3>1, <4>1, PipedHead, PipedType
    <3>4. InHand = <<>> /\ InHand' = Outcome(i) /\ proc' \in {"loop", "forward"}
      <4>1. Verdict[i] \in {"keep", "error", "nil"}
        BY <3>2, DeliveryAssumption DEF DeliveryAssumption
      <4>2. CASE Verdict[i] = "error"
        <5>1. proc' = "loop"
          BY <2>5, <4>2 DEF Receive
        <5> QED
          BY <3>1, <4>2, <5>1 DEF InHand, Outcome
      <4>3. CASE Verdict[i] # "error"
        <5>1. proc' = "forward" /\ hand' = IF Verdict[i] = "nil" THEN Nil ELSE i
          BY <2>5, <4>3 DEF Receive
        <5> QED
          BY <3>1, <4>1, <4>3, <5>1 DEF InHand, Outcome
      <4> QED
        BY <4>2, <4>3
    <3>5. Outcome(i) \in Seq(S)
      BY <3>2, OutcomeType
    <3> HIDE DEF i
    <3>6. (way \o <<>>) \o (Outcome(i) \o Piped(items')) = (way \o Outcome(i)) \o Piped(items')
      <4>1. way \in Seq(S)
        BY <2>c
      <4> HIDE DEF way
      <4>2. way \o <<>> = way
        BY <4>1, ConcatEmptySeq
      <4>3. Piped(items') \in Seq(S)
        BY <3>3
      <4> HIDE DEF S
      <4>4. \A a, b, c \in Seq(S) : a \o (b \o c) = (a \o b) \o c
        BY ConcatAssociative
      <4>5. way \o (Outcome(i) \o Piped(items')) = (way \o Outcome(i)) \o Piped(items')
        BY <3>5, <4>1, <4>3, <4>4, Zenon
      <4> QED
        BY <4>2, <4>5, Zenon
    <3>7. OnTheWay' = (way \o Outcome(i)) \o Piped(items')
      BY <3>1, <3>4 DEF OnTheWay
    <3>8. OnTheWay = (way \o <<>>) \o (Outcome(i) \o Piped(items'))
      BY <3>3, <3>4 DEF OnTheWay
    <3>9. OnTheWay' = Piped(sent)'
      BY <3>1, <3>6, <3>7, <3>8 DEF StoreInv
    <3> QED
      BY <3>1, <3>4, <3>9 DEF StoreInv
  <2>6. CASE Forward
    <3>1. /\ results' = Append(results, hand) /\ proc = "forward" /\ proc' = "snapshot"
          /\ UNCHANGED <<items, itemsClosed, sent, given, batch, resultsClosed, store, hand>>
      BY <2>6 DEF Forward, upstream, itemChan, storing
    <3>2. ~resultsClosed
      BY <3>1 DEF OpenInv, SendsWhileOpen
    <3>3. InHand = <<hand>> /\ InHand' = <<>>
      BY <3>1 DEF InHand
    <3>4. ((given \o batch) \o Append(results, hand)) \o <<>> = way \o <<hand>>
      <4> DEFINE a == given \o batch
      <4>1. a \in Seq(S)
        BY <2>c
      <4> HIDE DEF a, S
      <4>2. (a \o Append(results, hand)) \o <<>> = (a \o results) \o <<hand>>
        BY <2>a, <4>1, AppendMoves
      <4> QED
        BY <4>2 DEF a
    <3>5. OnTheWay' = OnTheWay
      BY <3>1, <3>3, <3>4 DEF OnTheWay
    <3> QED
      BY <3>1, <3>2, <3>5 DEF StoreInv
  <2>7. CASE Snapshot \/ FanOut \/ CloseSubscribers
    <3>1. /\ UNCHANGED <<items, itemsClosed, sent, given, batch, results, resultsClosed, store, hand>>
          /\ <<proc, proc'>> \in {<<"loop", "loop">>, <<"snapshot", "loop">>, <<"closing", "gone">>}
      BY <2>7 DEF Snapshot, FanOut, CloseSubscribers, upstream, itemChan, resultChan, storing
    <3>2. InHand' = InHand
      BY <3>1 DEF InHand
    <3>3. OnTheWay' = OnTheWay
      BY <3>1, <3>2 DEF OnTheWay
    <3> QED
      BY <3>1, <3>3 DEF StoreInv
  <2>8. CASE Drained
    <3>1. /\ UNCHANGED <<items, itemsClosed, sent, given, batch, results, store, hand>>
          /\ items = <<>> /\ itemsClosed /\ resultsClosed' = TRUE
          /\ proc = "loop" /\ proc' = "closing"
      BY <2>8 DEF Drained, upstream, itemChan, storing
    <3>2. InHand' = InHand
      BY <3>1 DEF InHand
    <3>3. OnTheWay' = OnTheWay
      BY <3>1, <3>2 DEF OnTheWay
    <3> QED
      BY <3>1, <3>3 DEF StoreInv
  <2>9. CASE Collect
    <3>1. /\ results # <<>> /\ batch' = Append(batch, Head(results)) /\ results' = Tail(results)
          /\ store = "collect" /\ store' \in {"collect", "flush"}
          /\ UNCHANGED <<items, itemsClosed, sent, given, resultsClosed, proc, hand>>
      BY <2>9 DEF Collect, upstream, itemChan, processing
    <3>2. (given \o Append(batch, Head(results))) \o Tail(results) = way
      <4>1. /\ given \in Seq(S) /\ batch \in Seq(S) /\ results \in Seq(S)
            /\ results # <<>>
        BY <2>a, <3>1
      <4> HIDE DEF S
      <4>2. given \o batch \in Seq(S) /\ Head(results) \in S
        BY <2>c, <4>1 DEF S
      <4> DEFINE e == Head(results)
                 r == Tail(results)
      <4>3. Append(given \o batch, e) \o r = (given \o batch) \o results
        BY <4>1, <4>2, MoveHead
      <4> HIDE DEF e, r
      <4>4. given \o Append(batch, e) = Append(given \o batch, e)
        <5>1. e \in S
          BY <4>2 DEF e
        <5> QED
          BY <4>1, <5>1, AppendPasses
      <4>5. (given \o Append(batch, e)) \o r = (given \o batch) \o results
        BY <4>3, <4>4
      <4> QED
        BY <4>5 DEF e, r
    <3>3. InHand' = InHand
      BY <3>1 DEF InHand
    <3>4. OnTheWay' = OnTheWay
      BY <3>1, <3>2, <3>3 DEF OnTheWay
    <3> QED
      BY <3>1, <3>4 DEF StoreInv
  <2>10. CASE ResultsEnd
    <3>1. /\ UNCHANGED <<items, itemsClosed, sent, given, batch, results, resultsClosed, proc, hand>>
          /\ results = <<>> /\ resultsClosed /\ store' = "last"
      BY <2>10 DEF ResultsEnd, upstream, itemChan, processing, resultChan
    <3>2. OnTheWay' = OnTheWay
      BY <3>1 DEF OnTheWay, InHand
    <3> QED
      BY <3>1, <3>2 DEF StoreInv
  <2>11. CASE Flush
    <3>1. /\ given' = given \o batch /\ batch' = <<>>
          /\ store \in {"flush", "last"} /\ store' = IF store = "last" THEN "gone" ELSE "collect"
          /\ UNCHANGED <<items, itemsClosed, sent, results, resultsClosed, proc, hand>>
      BY <2>11 DEF Flush, upstream, itemChan, processing, resultChan
    <3>2. (given \o batch) \o <<>> = given \o batch
      BY <2>c, ConcatEmptySeq
    <3>3. InHand' = InHand
      BY <3>1 DEF InHand
    <3>4. OnTheWay' = OnTheWay
      BY <3>1, <3>2, <3>3 DEF OnTheWay
    <3> QED
      BY <3>1, <3>4 DEF StoreInv
  <2>12. ASSUME NEW s \in Subscriber, Subscribe(s) \/ Read(s) \/ Quit(s) PROVE StoreInv'
    BY <2>12, <2>d DEF Subscribe, Read, Quit, crawl, upstream, itemChan, processing, resultChan, storing
  <2>13. CASE UNCHANGED vars
    BY <2>13, <2>d DEF vars, crawl, upstream, itemChan, processing, resultChan, storing
  <2> QED
    BY <2>1, <2>2, <2>3, <2>4, <2>5, <2>6, <2>7, <2>8, <2>9, <2>10, <2>11, <2>12, <2>13
       DEF Next, Work, Process, Store
<1>3. StoreInv => StoredInOrder
  BY DEF StoreInv, StoredInOrder, OnTheWay, Over
<1> QED
  BY <1>1, <1>2, <1>3, TypeCorrect, OpenAlways, PTL DEF Spec

-----------------------------------------------------------------------------
(* The corpus. A row is sound when what it states is what its version and   *)
(* the site said; what a replay serves is what a crawl was answered.        *)
SoundRow ==
    {r \in Row : /\ r.signals = Merge(FromHeaders(HeaderSays[r.hash]), FromDocument(PageSays[r.hash]))
                 /\ r.ai = SummariseDirectives(RobotsTxt)}

Fetched == [status : {200}, hash : Version, at : 1 .. MaxCommands]
           \cup [status : {304}, hash : {None}, at : 1 .. MaxCommands]

RowsOK ==
    /\ format \in Format /\ sealed \in BOOLEAN
    /\ file \in Seq(SoundRow) /\ buf \in Seq(SoundRow) /\ kept \in Seq(SoundRow)
    /\ prior \in [Url -> SoundRow \cup {None}]
    /\ \A u \in Url : prior[u] # None => prior[u].url = u

CommandOK ==
    /\ site \in [Url -> Version] /\ changes \in 0 .. MaxChanges
    /\ now \in 0 .. MaxCommands
    /\ phase \in {"none", "opened", "crawling", "reported"}
    /\ command \in Command \cup {None}
    /\ phase # "none" => command \in Command /\ now # 0
    /\ report # None => command \in Command
    /\ log \in [Url -> Fetched \cup {None}]

ProgressOK ==
    /\ queue \subseteq Url /\ visited \subseteq Url /\ queue \cap visited = {}
    /\ answered \subseteq visited /\ failed \subseteq visited

CorpusTypeInv == RowsOK /\ CommandOK /\ ProgressOK

(* Where a command stands: its files are empty when it begins, and closed   *)
(* when it reports; what it reports is what it reads back.                  *)
Rows == Range(file) \cup Range(buf)
Fresh == command.kind # "resume"

PhaseInv ==
    /\ phase = "opened" =>
        /\ file = <<>> /\ buf = <<>> /\ claims = {} /\ claimBuf = {}
        /\ Fresh => visited = {} /\ answered = {} /\ failed = {} /\ queue = {}
        /\ command.kind = "crawl" => log = [u \in Url |-> None]
        /\ command.since = "kept" => held = Urls(Range(kept))
    /\ phase \in {"opened", "crawling"} => report = None
    /\ phase = "reported" \/ report # None =>
        phase \in {"reported", "none"} /\ queue = {} /\ buf = <<>> /\ claimBuf = {} /\ sealed
    /\ report # None =>
        report = [summary |-> Summarise(Range(ReadOutput)),
                  audit |-> BuildComplianceReport(Range(ReadOutput), MaxListed)]

(* A row for each answer, and one only.                                     *)
Live == phase # "none" \/ report # None

CountInv ==
    Live /\ Fresh =>
        /\ Urls(Rows) = answered
        /\ \A r1, r2 \in Rows : r1.url = r2.url => r1 = r2

ClaimInv ==
    phase # "none" =>
        /\ \A c \in claims \cup claimBuf : \E r \in Rows : r.url = c.url /\ r.hash = c.hash
        /\ Fresh => \A u \in answered \cap Parsed :
               log[u].status = 200 => ClaimsOf(u, log[u].hash) \subseteq claims \cup claimBuf

(* Every page of the prior corpus is still queued until it has a row or has *)
(* failed.                                                                  *)
RefreshInv ==
    Live /\ phase # "opened" /\ command = [kind |-> "crawl", since |-> "kept"] =>
        held \subseteq queue \cup Urls(Rows) \cup failed

(* What a replay of the log will write, and the sets of pages that contain  *)
(* the seeds and all that the log's pages link to.                          *)
Downloads == {u \in Url : log[u] # None /\ log[u].status = 200}
Downloaded == {Build(u, log[u].hash, log[u].at) : u \in Downloads}
Closed(s) == Seed \subseteq s /\ \A u \in s \cap Downloads : Link[u] \subseteq s
OnlyDownloads == \A u \in Url : log[u] # None => u \in Downloads

(* While it crawls, the log is the downloaded rows; without an earlier       *)
(* corpus all rows are, and no page is met but by the links from the seeds. *)
LogInv ==
    phase # "none" /\ command.kind = "crawl" =>
        /\ \A u \in Url : log[u] # None => u \in visited
        /\ Downloaded \subseteq Rows
        /\ command.since = "nothing" =>
            /\ phase # "opened" => prior = [u \in Url |-> None]
            /\ OnlyDownloads /\ Rows = Downloaded
            /\ \A s \in SUBSET Url : Closed(s) => queue \cup visited \subseteq s

(* What a completed crawl leaves to its replays.                            *)
OriginalInv ==
    original # None =>
        /\ command.kind = "replay" \/ (command.kind = "crawl" /\ queue = {})
        /\ phase \in {"opened", "crawling"} => command.kind = "replay"
        /\ Downloaded \subseteq original.rows
        /\ original.since = "nothing" =>
            /\ OnlyDownloads /\ original.rows = Downloaded
            /\ \A s \in SUBSET Url : Closed(s) => Downloads \subseteq s

(* A replay follows the links of what it is served, and writes it.          *)
ReplayInv ==
    Live /\ command.kind = "replay" =>
        /\ original # None /\ command.since = "nothing"
        /\ phase # "opened" => prior = [u \in Url |-> None]
        /\ Rows \subseteq Downloaded
        /\ phase # "opened" => Seed \subseteq queue \cup visited
        /\ \A u \in visited \cap Downloads :
               /\ Build(u, log[u].hash, log[u].at) \in Rows
               /\ Link[u] \subseteq queue \cup visited

CorpusInv ==
    /\ PhaseInv /\ CountInv /\ ClaimInv /\ RefreshInv /\ LogInv /\ OriginalInv /\ ReplayInv
-----------------------------------------------------------------------------
(* The corpus's rows: a Parquet file gives back what was put in, a built    *)
(* row is sound, and the prior corpus answers for a URL with a row of it.   *)
RowOf(u, h, at, v, ai, signals) ==
    [url |-> u, hash |-> h, at |-> at, validator |-> v, ai |-> ai, signals |-> signals]

With(r, x, y) == [r EXCEPT !.signals = x, !.ai = y]

LEMMA RowParts ==
    \A r \in Row : r = RowOf(r.url, r.hash, r.at, r.validator, r.ai, r.signals)
  BY DEF Row, RowOf

LEMMA RowSet ==
    ASSUME NEW u, NEW h, NEW at, NEW v, NEW ai, NEW signals, NEW x, NEW y
    PROVE  With(RowOf(u, h, at, v, ai, signals), x, y) = RowOf(u, h, at, v, y, x)
<1>1. [RowOf(u, h, at, v, ai, signals) EXCEPT !.signals = x] = RowOf(u, h, at, v, ai, x)
  BY DEF RowOf
<1>2. [RowOf(u, h, at, v, ai, x) EXCEPT !.ai = y] = RowOf(u, h, at, v, y, x)
  BY DEF RowOf
<1> QED
  BY <1>1, <1>2 DEF With

LEMMA RoundTrip == \A r \in Row : FromColumns(ToColumns(r)) = r
<1> SUFFICES ASSUME NEW r \in Row PROVE FromColumns(ToColumns(r)) = r
  OBVIOUS
<1> DEFINE sig == r.signals
           x == [noai |-> sig.noai, noimageai |-> sig.noimageai,
                 tdm |-> IF sig.tdm = None THEN {} ELSE {sig.tdm},
                 licence |-> IF sig.licence = None THEN "" ELSE sig.licence]
           y == IF r.ai = None THEN [present |-> {}, blocked |-> {}]
                ELSE [present |-> {TRUE}, blocked |-> IF r.ai = "blocks" THEN {"agent"} ELSE {}]
           c == RowOf(r.url, r.hash, r.at, r.validator, y, x)
           back == [noai |-> x.noai, noimageai |-> x.noimageai,
                    tdm |-> IF x.tdm = {} THEN None ELSE CHOOSE t \in x.tdm : TRUE,
                    licence |-> IF x.licence = "" THEN None ELSE x.licence]
           ai == IF y.present = {} THEN None ELSE IF y.blocked # {} THEN "blocks" ELSE "silent"
<1>1. /\ sig \in Statement /\ r.ai \in {None, "blocks", "silent"}
      /\ r = RowOf(r.url, r.hash, r.at, r.validator, r.ai, sig)
  BY RowParts DEF Row
<1>2. /\ sig = [noai |-> sig.noai, noimageai |-> sig.noimageai, tdm |-> sig.tdm,
                licence |-> sig.licence]
      /\ sig.licence \in {"link", "meta", "header", None}
  BY <1>1 DEF Statement, Licences
<1>3. ToColumns(r) = c
  <2>1. ToColumns(r) = With(r, x, y)
    BY DEF ToColumns, With
  <2> HIDE DEF x, y, sig
  <2>2. With(RowOf(r.url, r.hash, r.at, r.validator, r.ai, sig), x, y) = c
    BY RowSet
  <2> HIDE DEF c
  <2> QED
    BY <1>1, <2>1, <2>2
<1>4. FromColumns(c) = RowOf(r.url, r.hash, r.at, r.validator, ai, back)
  <2> HIDE DEF x, y
  <2>1. c.signals = x /\ c.ai = y
    BY DEF RowOf
  <2> HIDE DEF c
  <2>2. FromColumns(c) = With(c, back, ai)
    BY <2>1 DEF FromColumns, With
  <2> HIDE DEF back, ai
  <2>3. With(c, back, ai) = RowOf(r.url, r.hash, r.at, r.validator, ai, back)
    BY RowSet DEF c
  <2> QED
    BY <2>2, <2>3, Zenon
<1>5. ai = r.ai
  <2>1. CASE r.ai = None
    BY <2>1
  <2>2. CASE r.ai # None
    BY <1>1, <2>2
  <2> QED
    BY <2>1, <2>2
<1>6. back.tdm = sig.tdm
  <2>1. CASE sig.tdm = None
    BY <2>1
  <2>2. CASE sig.tdm # None
    BY <2>2
  <2> QED
    BY <2>1, <2>2
<1>7. back.licence = sig.licence /\ back.noai = sig.noai /\ back.noimageai = sig.noimageai
  BY <1>2
<1>8. back = [noai |-> back.noai, noimageai |-> back.noimageai, tdm |-> back.tdm,
              licence |-> back.licence]
  OBVIOUS
<1> HIDE DEF x, y, back, ai
<1>9. back = sig
  BY <1>2, <1>6, <1>7, <1>8, Zenon
<1> QED
  BY <1>1, <1>3, <1>4, <1>5, <1>9, Zenon

LEMMA MergedType ==
    \A v \in Version :
        Merge(FromHeaders(HeaderSays[v]), FromDocument(PageSays[v])) \in Statement
  BY DEF Merge, MergeTDM, Prefer, FromHeaders, FromDocument, HeaderLicence, TDMValue,
         Statement, Licences

LEMMA BuildSound ==
    ASSUME NEW u \in Url, NEW v \in Version, NEW at \in 1 .. MaxCommands
    PROVE  /\ Build(u, v, at) \in SoundRow
           /\ Build(u, v, at).url = u /\ Build(u, v, at).hash = v
<1>1. SummariseDirectives(RobotsTxt) \in {None, "blocks", "silent"}
  BY DEF SummariseDirectives
<1>2. Merge(FromHeaders(HeaderSays[v]), FromDocument(PageSays[v])) \in Statement
  BY MergedType
<1> QED
  BY <1>1, <1>2 DEF Build, SoundRow, Row

LEMMA RefreshedSound ==
    ASSUME NEW r \in SoundRow, NEW at \in 1 .. MaxCommands
    PROVE  Refreshed(r, at) \in SoundRow /\ Refreshed(r, at).url = r.url
  BY DEF Refreshed, SoundRow, Row

LEMMA LastPlace ==
    ASSUME NEW n \in Nat, NEW at, at \subseteq 1 .. n, at # {}
    PROVE  \E x \in at : \A y \in at : x >= y
<1> DEFINE T == {n - j : j \in at}
<1>1. T \subseteq Nat /\ T # {}
  <2>1. \A j \in at : j \in 1 .. n
    OBVIOUS
  <2>2. \A j \in 1 .. n : n - j \in Nat
    OBVIOUS
  <2>3. \E j : j \in at
    OBVIOUS
  <2> QED
    BY <2>1, <2>2, <2>3
<1>2. PICK d \in T : \A m \in T : d <= m
  BY <1>1, Least
<1>3. PICK j \in at : d = n - j
  BY <1>2
<1>4. ASSUME NEW k \in at PROVE j >= k
  <2>1. n - k \in T
    OBVIOUS
  <2>2. n - j <= n - k
    BY <1>2, <1>3, <2>1
  <2> QED
    BY <2>2
<1> QED
  BY <1>4

LEMMA GreatestPosition ==
    ASSUME NEW n \in Nat, NEW at, at \subseteq 1 .. n, at # {}
    PROVE  Max(at) \in at
<1>1. \E x \in at : \A y \in at : x >= y
  BY LastPlace
<1> QED
  BY <1>1 DEF Max

LEMMA IndexIs ==
    ASSUME NEW rs \in Seq(SoundRow)
    PROVE  /\ Index(rs) \in [Url -> SoundRow \cup {None}]
           /\ \A u \in Url : Index(rs)[u] # None => Index(rs)[u].url = u
<1>1. Len(rs) \in Nat /\ DOMAIN rs = 1 .. Len(rs)
  BY LenProperties
<1> DEFINE at(u) == {i \in DOMAIN rs : rs[i].url = u}
           of(u) == IF at(u) = {} THEN None ELSE rs[Max(at(u))]
<1>2. Index(rs) = [u \in Url |-> of(u)]
  BY DEF Index
<1>3. ASSUME NEW u \in Url
      PROVE  of(u) \in SoundRow \cup {None} /\ (of(u) # None => of(u).url = u)
  <2>1. CASE at(u) = {}
    BY <2>1
  <2>2. CASE at(u) # {}
    <3>1. at(u) \subseteq 1 .. Len(rs)
      BY <1>1
    <3>2. Max(at(u)) \in at(u)
      BY <1>1, <2>2, <3>1, GreatestPosition
    <3>3. Max(at(u)) \in 1 .. Len(rs) /\ rs[Max(at(u))].url = u
      BY <1>1, <3>2
    <3>4. rs[Max(at(u))] \in SoundRow
      BY <3>3, ElementOfSeq
    <3> QED
      BY <2>2, <3>3, <3>4
  <2> QED
    BY <2>1, <2>2
<1> HIDE DEF of
<1> QED
  BY <1>2, <1>3

LEMMA IndexOfNone == Index(<<>>) = [u \in Url |-> None]
<1>1. \A u \in Url : {i \in DOMAIN <<>> : <<>>[i].url = u} = {}
  OBVIOUS
<1> QED
  BY <1>1, Zenon DEF Index

LEMMA OutputIs ==
    ASSUME RowsOK
    PROVE  /\ ReadOutput \in Seq(SoundRow)
           /\ sealed => ReadOutput = file
<1>1. format \in {"jsonl", "parquet"} /\ file \in Seq(SoundRow)
  BY CorpusAssumption DEF CorpusAssumption, RowsOK
<1>2. DOMAIN file = 1 .. Len(file) /\ Len(file) \in Nat
  BY <1>1, LenProperties
<1>3. \A i \in DOMAIN file : file[i] \in Row
  <2> TAKE i \in DOMAIN file
  <2>1. file[i] \in SoundRow
    BY <1>1, <1>2, ElementOfSeq
  <2> QED
    BY <2>1 DEF SoundRow
<1>4. [i \in DOMAIN file |-> FromColumns(ToColumns(file[i]))] = [i \in DOMAIN file |-> file[i]]
  BY <1>3, RoundTrip, Zenon
<1>5. [i \in DOMAIN file |-> file[i]] = file
  BY <1>1
<1>6. ReadParquetCorpus = IF sealed THEN file ELSE <<>>
  BY <1>4, <1>5, Zenon DEF ReadParquetCorpus
<1>7. <<>> \in Seq(SoundRow)
  OBVIOUS
<1> QED
  BY <1>1, <1>6, <1>7 DEF ReadOutput, ReadCorpus

LEMMA RangeOfAppend ==
    ASSUME NEW S, NEW q \in Seq(S), NEW e \in S
    PROVE  Range(Append(q, e)) = Range(q) \cup {e} /\ Append(q, e) \in Seq(S)
<1>1. Append(q, e) \in Seq(S)
  OBVIOUS
<1>2. ToSet(Append(q, e)) = ToSet(q) \cup {e}
  BY ElementsOfAppend
<1> QED
  BY <1>1, <1>2, Zenon DEF ToSet, Range

LEMMA RangeOfEmpty == Range(<<>>) = {}
  BY DEF Range

LEMMA UrlsIs ==
    ASSUME NEW rs \in Seq(SoundRow)
    PROVE  Urls(Range(rs)) \subseteq Url /\ Range(rs) \subseteq SoundRow
<1>1. Range(rs) \subseteq SoundRow
  BY RangeOfSeq
<1>2. \A r \in SoundRow : r.url \in Url
  BY DEF SoundRow, Row
<1> QED
  BY <1>1, <1>2 DEF Urls

LEMMA ResponseType ==
    ASSUME CorpusTypeInv, phase # "none", NEW u \in Url
    PROVE  /\ Response(u) \in Fetched \cup {None}
           /\ Response(u) # None /\ Response(u).status = 200 =>
                  Response(u).hash \in Version /\ Response(u).at \in 1 .. MaxCommands
           /\ Response(u) # None /\ Response(u).status = 304 =>
                  Response(u).at \in 1 .. MaxCommands
<1>1. now \in 1 .. MaxCommands /\ log[u] \in Fetched \cup {None} /\ site[u] \in Version
  BY CorpusAssumption DEF CorpusAssumption, CorpusTypeInv, CommandOK
<1>2. [status |-> 304, hash |-> None, at |-> now] \in Fetched
  BY <1>1 DEF Fetched
<1>3. [status |-> 200, hash |-> site[u], at |-> now] \in Fetched
  BY <1>1 DEF Fetched
<1>4. Response(u) \in Fetched \cup {None}
  BY <1>1, <1>2, <1>3 DEF Response
<1>5. \A f \in Fetched : /\ f.status = 200 => f.hash \in Version /\ f.at \in 1 .. MaxCommands
                         /\ f.status = 304 => f.at \in 1 .. MaxCommands
  BY DEF Fetched
<1> QED
  BY <1>4, <1>5

(* The corpus holds sound rows only, at any moment.                         *)
LEMMA CorpusTypes == SpecCorpus => []CorpusTypeInv
<1>0. /\ Seed \subseteq Url /\ Link \in [Url -> SUBSET Url] /\ Version # {}
      /\ MaxCommands \in Nat /\ MaxChanges \in Nat
  BY CorpusAssumption DEF CorpusAssumption
<1>1. InitCorpus => CorpusTypeInv
  <2> SUFFICES ASSUME InitCorpus PROVE CorpusTypeInv
    OBVIOUS
  <2>1. <<>> \in Seq(SoundRow) /\ (CHOOSE v \in Version : TRUE) \in Version
    BY <1>0
  <2>2. RowsOK
    BY <2>1 DEF InitCorpus, RowsOK
  <2>3. CommandOK
    <3>1. site \in [Url -> Version] /\ changes \in 0 .. MaxChanges /\ now \in 0 .. MaxCommands
      BY <1>0, <2>1 DEF InitCorpus
    <3>2. phase = "none" /\ command = None /\ report = None /\ log = [u \in Url |-> None]
      BY DEF InitCorpus
    <3> QED
      BY <3>1, <3>2 DEF CommandOK
  <2>4. ProgressOK
    BY DEF InitCorpus, ProgressOK
  <2> QED
    BY <2>2, <2>3, <2>4 DEF CorpusTypeInv
<1>2. CorpusTypeInv /\ [NextCorpus]_corpus => CorpusTypeInv'
  <2> SUFFICES ASSUME CorpusTypeInv, [NextCorpus]_corpus PROVE CorpusTypeInv'
    OBVIOUS
  <2>a. /\ RowsOK /\ CommandOK /\ ProgressOK
        /\ (UNCHANGED <<format, sealed, file, buf, kept, prior>> => RowsOK')
        /\ (UNCHANGED <<site, changes, now, phase, command, report, log>> => CommandOK')
        /\ (UNCHANGED progress => ProgressOK')
    BY DEF CorpusTypeInv, RowsOK, CommandOK, ProgressOK, progress
  <2>b. <<>> \in Seq(SoundRow) /\ file \o buf \in Seq(SoundRow)
    <3>1. file \in Seq(SoundRow) /\ buf \in Seq(SoundRow)
      BY <2>a DEF RowsOK
    <3> QED
      BY <3>1, ConcatProperties
  <2>1. ASSUME NEW c \in Command, Open(c) PROVE CorpusTypeInv'
    <3>1. /\ file' = <<>> /\ sealed' = FALSE /\ buf' = <<>>
          /\ phase' = "opened" /\ command' = c /\ now' = now + 1 /\ now < MaxCommands
          /\ report' = None /\ UNCHANGED <<format, site, changes, kept, prior>>
          /\ \/ UNCHANGED <<progress, log>>
             \/ /\ queue' = {} /\ visited' = {} /\ answered' = {} /\ failed' = {}
                /\ UNCHANGED log \/ log' = [u \in Url |-> None]
      BY <2>1 DEF Open, NewCorpusWriter
    <3>2. RowsOK'
      BY <2>a, <2>b, <3>1 DEF RowsOK
    <3>3. ProgressOK'
      BY <2>a, <3>1 DEF ProgressOK
    <3>4. now' \in 0 .. MaxCommands /\ now' # 0
      BY <1>0, <2>a, <3>1 DEF CommandOK
    <3>5. log' \in [Url -> Fetched \cup {None}]
      BY <2>a, <3>1 DEF CommandOK
    <3>6. CommandOK'
      BY <2>1, <2>a, <3>1, <3>4, <3>5 DEF CommandOK
    <3> QED
      BY <3>2, <3>3, <3>6 DEF CorpusTypeInv
  <2>2. CASE AttachPrior
    <3> DEFINE rs == CASE command.since = "kept" -> kept
                       [] command.since = "output" -> file
                       [] OTHER -> <<>>
    <3>1. rs \in Seq(SoundRow)
      BY <2>a, <2>b DEF RowsOK
    <3>2. /\ prior' = Index(rs) /\ queue' = queue \cup ((Seed \cup Urls(Range(rs))) \ visited)
          /\ phase = "opened" /\ phase' = "crawling"
          /\ UNCHANGED <<format, sealed, file, buf, kept, site, changes, now, command, report, log,
                         visited, answered, failed>>
      BY <2>2 DEF AttachPrior, files
    <3> HIDE DEF rs
    <3>3. RowsOK'
      BY <2>a, <3>1, <3>2, IndexIs DEF RowsOK
    <3>4. CommandOK'
      BY <2>a, <3>2 DEF CommandOK
    <3>5. ProgressOK'
      BY <1>0, <2>a, <3>1, <3>2, UrlsIs DEF ProgressOK
    <3> QED
      BY <3>3, <3>4, <3>5 DEF CorpusTypeInv
  <2>3. CASE AttachFails
    <3>1. CommandOK'
      BY <2>3, <2>a DEF AttachFails, CommandOK
    <3> QED
      BY <2>3, <2>a, <3>1 DEF AttachFails, files, CorpusTypeInv
  <2>4. CASE FlushRecords
    <3>1. RowsOK'
      BY <2>4, <2>a, <2>b DEF FlushRecords, RowsOK
    <3> QED
      BY <2>4, <2>a, <3>1 DEF FlushRecords, CorpusTypeInv
  <2>5. CASE FlushClaims
    BY <2>5, <2>a DEF FlushClaims, CorpusTypeInv
  <2>6. CASE Report
    <3>1. RowsOK'
      BY <2>6, <2>a, <2>b DEF Report, CloseCorpus, RowsOK
    <3>2. CommandOK'
      BY <2>6, <2>a DEF Report, CommandOK
    <3> QED
      BY <2>6, <2>a, <3>1, <3>2 DEF Report, CorpusTypeInv
  <2>7. CASE WriteReports
    <3>1. CommandOK'
      BY <2>7, <2>a DEF WriteReports, CommandOK
    <3> QED
      BY <2>7, <2>a, <3>1 DEF WriteReports, files, CorpusTypeInv
  <2>8. CASE Exit
    <3>1. kept' \in Seq(SoundRow) /\ UNCHANGED <<format, sealed, file, buf, prior>>
      BY <2>8, <2>a, OutputIs DEF Exit, files, RowsOK
    <3>2. RowsOK'
      BY <2>a, <3>1 DEF RowsOK
    <3>3. CommandOK'
      BY <2>8, <2>a DEF Exit, CommandOK
    <3> QED
      BY <2>8, <2>a, <3>2, <3>3 DEF Exit, CorpusTypeInv
  <2>9. CASE Crash
    <3>1. RowsOK'
      BY <2>9, <2>a, <2>b DEF Crash, files, RowsOK
    <3>2. CommandOK'
      BY <2>9, <2>a DEF Crash, CommandOK
    <3> QED
      BY <2>9, <2>a, <3>1, <3>2 DEF Crash, CorpusTypeInv
  <2>10. ASSUME NEW u \in Url, Answer(u) \/ AnswerUnchanged(u) \/ FetchFails(u)
         PROVE CorpusTypeInv'
    <3>1. phase = "crawling" /\ u \in queue
      BY <2>10 DEF Answer, AnswerUnchanged, FetchFails
    <3>2. PICK r : r = Response(u)
      OBVIOUS
    <3>3. /\ r \in Fetched \cup {None}
          /\ r # None /\ r.status = 200 => r.hash \in Version /\ r.at \in 1 .. MaxCommands
          /\ r # None /\ r.status = 304 => r.at \in 1 .. MaxCommands
      BY <3>1, <3>2, ResponseType
    <3>4. /\ UNCHANGED <<format, sealed, file, kept, prior, site, changes, now, phase, command, report>>
          /\ \/ UNCHANGED log
             \/ log' = [log EXCEPT ![u] = r]
      BY <2>10, <3>2 DEF Answer, AnswerUnchanged, FetchFails, Logged, files
    <3>5. CommandOK'
      <4>1. log' \in [Url -> Fetched \cup {None}]
        BY <2>a, <3>3, <3>4 DEF CommandOK
      <4> QED
        BY <2>a, <3>4, <4>1 DEF CommandOK
    <3>6. ProgressOK'
      <4>1. /\ queue' \subseteq Url /\ visited' = visited \cup {u} /\ queue' \cap visited' = {}
            /\ answered' \subseteq answered \cup {u} /\ failed' \subseteq failed \cup {u}
        BY <1>0, <2>10, <2>a, <3>1 DEF Answer, AnswerUnchanged, FetchFails, ProgressOK
      <4> QED
        BY <2>a, <4>1 DEF ProgressOK
    <3>7. buf' \in Seq(SoundRow)
      <4>0. buf \in Seq(SoundRow) /\ prior[u] \in SoundRow \cup {None}
        BY <2>a DEF RowsOK
      <4>1. CASE Answer(u)
        <5>1. r # None /\ r.status = 200 /\ buf' = Append(buf, Build(u, r.hash, r.at))
          BY <3>2, <4>1 DEF Answer
        <5>2. Build(u, r.hash, r.at) \in SoundRow
          BY <3>3, <5>1, BuildSound
        <5> QED
          BY <4>0, <5>1, <5>2, RangeOfAppend
      <4>2. CASE AnswerUnchanged(u)
        <5>1. /\ r # None /\ r.status = 304
              /\ buf' = IF prior[u] = None THEN buf ELSE Append(buf, Refreshed(prior[u], r.at))
          BY <3>2, <4>2 DEF AnswerUnchanged
        <5>2. prior[u] # None => Refreshed(prior[u], r.at) \in SoundRow
          BY <3>3, <4>0, <5>1, RefreshedSound
        <5> QED
          BY <4>0, <5>1, <5>2, RangeOfAppend
      <4>3. CASE FetchFails(u)
        BY <4>0, <4>3 DEF FetchFails
      <4> QED
        BY <2>10, <4>1, <4>2, <4>3
    <3>8. RowsOK'
      BY <2>a, <3>4, <3>7 DEF RowsOK
    <3> QED
      BY <3>5, <3>6, <3>8 DEF CorpusTypeInv
  <2>11. ASSUME NEW u \in Url, NEW v \in Version, SiteChanges(u, v) PROVE CorpusTypeInv'
    <3>1. CommandOK'
      BY <1>0, <2>11, <2>a DEF SiteChanges, CommandOK
    <3> QED
      BY <2>11, <2>a, <3>1 DEF SiteChanges, files, CorpusTypeInv
  <2>12. CASE UNCHANGED corpus
    BY <2>12, <2>a DEF corpus, files, CorpusTypeInv
  <2> QED
    BY <2>1, <2>2, <2>3, <2>4, <2>5, <2>6, <2>7, <2>8, <2>9, <2>10, <2>11, <2>12 DEF NextCorpus
<1> QED
  BY <1>1, <1>2, PTL DEF SpecCorpus

-----------------------------------------------------------------------------
(* How the rows, the answers of the log and its downloads change.           *)
LEMMA RowsFlushed ==
    ASSUME CorpusTypeInv, FlushRecords \/ Report
    PROVE  Rows' = Rows
<1>1. file \in Seq(SoundRow) /\ buf \in Seq(SoundRow) /\ file' = file \o buf /\ buf' = <<>>
  BY DEF CorpusTypeInv, RowsOK, FlushRecords, Report, CloseCorpus
<1>2. Range(file') = Range(file) \cup Range(buf)
  BY <1>1, RangeConcatenation
<1> QED
  BY <1>1, <1>2, RangeOfEmpty DEF Rows

LEMMA RowsAnswered ==
    ASSUME CorpusTypeInv, NEW u \in Url, Answer(u), NEW r, r = Response(u)
    PROVE  /\ r # None /\ r.status = 200 /\ r \in Fetched
           /\ r.hash \in Version /\ r.at \in 1 .. MaxCommands
           /\ Rows' = Rows \cup {Build(u, r.hash, r.at)}
           /\ Build(u, r.hash, r.at).url = u /\ Build(u, r.hash, r.at).hash = r.hash
<1>1. /\ phase = "crawling" /\ r # None /\ r.status = 200
      /\ buf' = Append(buf, Build(u, r.hash, r.at)) /\ file' = file
  BY DEF Answer, files
<1>2. r \in Fetched /\ r.hash \in Version /\ r.at \in 1 .. MaxCommands
  BY <1>1, ResponseType
<1>3. Build(u, r.hash, r.at) \in SoundRow /\ buf \in Seq(SoundRow)
  BY <1>2, BuildSound DEF CorpusTypeInv, RowsOK
<1>4. Range(buf') = Range(buf) \cup {Build(u, r.hash, r.at)}
  BY <1>1, <1>3, RangeOfAppend
<1>5. Build(u, r.hash, r.at).url = u /\ Build(u, r.hash, r.at).hash = r.hash
  BY DEF Build
<1> QED
  BY <1>1, <1>2, <1>4, <1>5 DEF Rows

LEMMA RowsRenewed ==
    ASSUME CorpusTypeInv, NEW u \in Url, AnswerUnchanged(u), NEW r, r = Response(u)
    PROVE  /\ r # None /\ r.status = 304 /\ r \in Fetched
           /\ prior[u] = None => Rows' = Rows
           /\ prior[u] # None => /\ Rows' = Rows \cup {Refreshed(prior[u], r.at)}
                                 /\ Refreshed(prior[u], r.at).url = u
<1>1. /\ phase = "crawling" /\ r # None /\ r.status = 304 /\ file' = file
      /\ buf' = IF prior[u] = None THEN buf ELSE Append(buf, Refreshed(prior[u], r.at))
  BY DEF AnswerUnchanged, files
<1>2. r \in Fetched /\ r.at \in 1 .. MaxCommands
  BY <1>1, ResponseType
<1>3. CASE prior[u] = None
  BY <1>1, <1>2, <1>3 DEF Rows
<1>4. CASE prior[u] # None
  <2>1. prior[u] \in SoundRow /\ prior[u].url = u /\ buf \in Seq(SoundRow)
    BY <1>4 DEF CorpusTypeInv, RowsOK
  <2>2. Refreshed(prior[u], r.at) \in SoundRow /\ Refreshed(prior[u], r.at).url = u
    BY <1>2, <2>1, RefreshedSound
  <2>3. Range(buf') = Range(buf) \cup {Refreshed(prior[u], r.at)}
    BY <1>1, <1>4, <2>1, <2>2, RangeOfAppend
  <2> QED
    BY <1>1, <1>2, <1>4, <2>2, <2>3 DEF Rows
<1> QED
  BY <1>3, <1>4

LEMMA LoggedIs ==
    ASSUME CorpusTypeInv, NEW u \in Url, NEW r, r = Response(u), Logged(u, r)
    PROVE  /\ log'[u] = r /\ \A w \in Url \ {u} : log'[w] = log[w]
           /\ command.kind = "replay" => log' = log
<1>1. log \in [Url -> Fetched \cup {None}]
  BY DEF CorpusTypeInv, CommandOK
<1>2. CASE command.kind = "replay"
  BY <1>1, <1>2 DEF Logged, Response
<1>3. CASE command.kind # "replay"
  BY <1>1, <1>3 DEF Logged
<1> QED
  BY <1>2, <1>3

LEMMA PhaseStep ==
    ASSUME CorpusTypeInv, PhaseInv, [NextCorpus]_corpus
    PROVE  PhaseInv'
<1> USE DEF Fresh
<1>a. UNCHANGED <<format, sealed, file>> => ReadOutput' = ReadOutput
  BY DEF ReadOutput, ReadCorpus, ReadParquetCorpus
<1>1. ASSUME NEW c \in Command, Open(c) PROVE PhaseInv'
  <2>1. /\ phase' = "opened" /\ command' = c /\ report' = None /\ kept' = kept
        /\ file' = <<>> /\ buf' = <<>> /\ claims' = {} /\ claimBuf' = {}
        /\ c.kind # "resume" => visited' = {} /\ answered' = {} /\ failed' = {} /\ queue' = {}
    BY <1>1 DEF Open, NewCorpusWriter, NewAssertionWriter
  <2>2. c.kind = "crawl" => log' = [u \in Url |-> None]
    BY <1>1 DEF Open
  <2>3. c.since = "kept" => held' = Urls(Range(kept))
    BY <1>1 DEF Open
  <2> QED
    BY <2>1, <2>2, <2>3 DEF PhaseInv
<1>2. CASE AttachPrior \/ AttachFails \/ Crash
  BY <1>2 DEF AttachPrior, AttachFails, Crash, PhaseInv
<1>3. CASE FlushRecords \/ FlushClaims
  BY <1>3 DEF FlushRecords, FlushClaims, PhaseInv
<1>4. ASSUME NEW u \in Url, Answer(u) \/ AnswerUnchanged(u) \/ FetchFails(u) PROVE PhaseInv'
  BY <1>4 DEF Answer, AnswerUnchanged, FetchFails, PhaseInv
<1>5. CASE Report
  BY <1>5 DEF Report, CloseCorpus, CloseAssertions, progress, PhaseInv
<1>6. CASE WriteReports
  <2>1. /\ phase = "reported" /\ UNCHANGED <<phase, queue, buf, claimBuf, format, sealed, file>>
        /\ report' = [summary |-> Summarise(Range(ReadOutput)),
                      audit |-> BuildComplianceReport(Range(ReadOutput), MaxListed)]
    BY <1>6 DEF WriteReports, files, progress
  <2> QED
    BY <1>a, <2>1, Zenon DEF PhaseInv
<1>7. CASE Exit
  <2>1. /\ phase = "reported" /\ phase' = "none"
        /\ UNCHANGED <<queue, buf, claimBuf, format, sealed, file, report>>
    BY <1>7 DEF Exit, files, progress
  <2> QED
    BY <1>a, <2>1 DEF PhaseInv
<1>8. CASE (\E u \in Url, v \in Version : SiteChanges(u, v)) \/ UNCHANGED corpus
  <2>1. UNCHANGED <<format, files, kept, log, phase, command, now, buf, claimBuf, prior, progress,
                    report, held, original>>
    BY <1>8 DEF SiteChanges, corpus
  <2> QED
    BY <1>a, <2>1 DEF PhaseInv, files, progress
<1> QED
  BY <1>1, <1>2, <1>3, <1>4, <1>5, <1>6, <1>7, <1>8 DEF NextCorpus

LEMMA CountStep ==
    ASSUME CorpusTypeInv, PhaseInv, CountInv, [NextCorpus]_corpus
    PROVE  CountInv'
<1> USE DEF Fresh, Live
<1>1. ASSUME NEW c \in Command, Open(c) PROVE CountInv'
  <2>1. /\ command' = c /\ Rows' = {}
        /\ c.kind # "resume" => answered' = {}
    BY <1>1, RangeOfEmpty DEF Open, NewCorpusWriter, Rows
  <2> QED
    BY <2>1 DEF CountInv, Urls
<1>2. CASE AttachFails \/ Crash
  <2>1. phase' = "none" /\ report' = None
    BY <1>2 DEF AttachFails, Crash, PhaseInv
  <2> QED
    BY <2>1 DEF CountInv
<1>3. CASE FlushRecords \/ Report
  <2>1. Rows' = Rows
    BY <1>3, RowsFlushed
  <2>2. UNCHANGED <<command, answered, report>> /\ phase # "none"
    BY <1>3 DEF FlushRecords, Report, progress
  <2> QED
    BY <2>1, <2>2 DEF CountInv
<1>4. ASSUME NEW u \in Url, Answer(u) PROVE CountInv'
  <2>1. PICK r : r = Response(u)
    OBVIOUS
  <2>2. PICK b : b = Build(u, r.hash, r.at)
    OBVIOUS
  <2>3. b.url = u /\ Rows' = Rows \cup {b}
    BY <1>4, <2>1, <2>2, RowsAnswered
  <2>4. /\ phase = "crawling" /\ u \in queue /\ answered' = answered \cup {u}
        /\ UNCHANGED <<phase, command, report>>
    BY <1>4 DEF Answer
  <2>5. u \notin answered
    BY <2>4 DEF CorpusTypeInv, ProgressOK
  <2>6. Urls(Rows') = Urls(Rows) \cup {u}
    BY <2>3 DEF Urls
  <2>7. \A q \in Rows : q.url \in Urls(Rows)
    BY DEF Urls
  <2> QED
    BY <2>3, <2>4, <2>5, <2>6, <2>7 DEF CountInv
<1>5. ASSUME NEW u \in Url, AnswerUnchanged(u) PROVE CountInv'
  <2>1. PICK r : r = Response(u)
    OBVIOUS
  <2>4. /\ phase = "crawling" /\ u \in queue
        /\ answered' = IF prior[u] = None THEN answered ELSE answered \cup {u}
        /\ UNCHANGED <<phase, command, report>>
    BY <1>5 DEF AnswerUnchanged
  <2>5. CASE prior[u] = None
    <3>1. Rows' = Rows
      BY <1>5, <2>1, <2>5, RowsRenewed
    <3> QED
      BY <2>4, <2>5, <3>1 DEF CountInv
  <2>6. CASE prior[u] # None
    <3>1. PICK b : b = Refreshed(prior[u], r.at)
      OBVIOUS
    <3>2. b.url = u /\ Rows' = Rows \cup {b}
      BY <1>5, <2>1, <2>6, <3>1, RowsRenewed
    <3>3. u \notin answered
      BY <2>4 DEF CorpusTypeInv, ProgressOK
    <3>4. Urls(Rows') = Urls(Rows) \cup {u}
      BY <3>2 DEF Urls
    <3>5. \A q \in Rows : q.url \in Urls(Rows)
      BY DEF Urls
    <3> QED
      BY <2>4, <2>6, <3>2, <3>3, <3>4, <3>5 DEF CountInv
  <2> QED
    BY <2>5, <2>6
<1>6. CASE AttachPrior \/ FlushClaims \/ WriteReports \/ Exit \/ UNCHANGED corpus
  <2>1. /\ UNCHANGED <<file, buf, command, answered>>
        /\ phase = "none" => UNCHANGED <<phase, report>>
        /\ phase' = "none" /\ phase # "none" => report' # None
    BY <1>6 DEF AttachPrior, FlushClaims, WriteReports, Exit, corpus, files, progress
  <2> QED
    BY <2>1 DEF CountInv, Rows
<1>7. ASSUME NEW u \in Url, NEW v \in Version, FetchFails(u) \/ SiteChanges(u, v) PROVE CountInv'
  <2>1. UNCHANGED <<file, buf, command, answered, phase, report>>
    BY <1>7 DEF FetchFails, SiteChanges, files, progress
  <2> QED
    BY <2>1 DEF CountInv, Rows
<1> QED
  BY <1>1, <1>2, <1>3, <1>4, <1>5, <1>6, <1>7, CorpusAssumption
     DEF NextCorpus, CorpusAssumption


LEMMA ClaimStep ==
    ASSUME CorpusTypeInv, PhaseInv, CountInv, ClaimInv, [NextCorpus]_corpus
    PROVE  ClaimInv'
<1> USE DEF Fresh
<1>1. ASSUME NEW c \in Command, Open(c) PROVE ClaimInv'
  <2>1. /\ command' = c /\ claims' = {} /\ claimBuf' = {}
        /\ c.kind # "resume" => answered' = {}
    BY <1>1 DEF Open, NewAssertionWriter
  <2> QED
    BY <2>1 DEF ClaimInv
<1>2. CASE AttachFails \/ Crash \/ Exit
  BY <1>2 DEF AttachFails, Crash, Exit, ClaimInv
<1>3. CASE FlushRecords \/ FlushClaims \/ Report
  <2>1. Rows' = Rows
    BY <1>3, RowsFlushed DEF FlushClaims, Rows
  <2>2. /\ UNCHANGED <<command, answered, log>> /\ phase # "none"
        /\ claims' \cup claimBuf' = claims \cup claimBuf
    BY <1>3 DEF FlushRecords, FlushClaims, Report, CloseAssertions, progress
  <2> QED
    BY <2>1, <2>2 DEF ClaimInv
<1>4. ASSUME NEW u \in Url, Answer(u) PROVE ClaimInv'
  <2>1. PICK r : r = Response(u)
    OBVIOUS
  <2>2. PICK b : b = Build(u, r.hash, r.at)
    OBVIOUS
  <2>3. b.url = u /\ b.hash = r.hash /\ Rows' = Rows \cup {b}
    BY <1>4, <2>1, <2>2, RowsAnswered
  <2>4. /\ phase = "crawling" /\ u \in queue /\ answered' = answered \cup {u}
        /\ claims' = claims /\ claimBuf' = claimBuf \cup ClaimsOf(u, r.hash)
        /\ command' = command /\ Logged(u, r)
    BY <1>4, <2>1 DEF Answer, files
  <2>5. u \notin answered /\ answered \subseteq Url
    BY <2>4 DEF CorpusTypeInv, ProgressOK
  <2>6. log'[u] = r /\ \A w \in Url \ {u} : log'[w] = log[w]
    BY <2>1, <2>4, LoggedIs
  <2>7. \A c \in ClaimsOf(u, r.hash) : c.url = u /\ c.hash = r.hash
    BY DEF ClaimsOf
  <2>8. \A c \in claims' \cup claimBuf' : \E q \in Rows' : q.url = c.url /\ q.hash = c.hash
    BY <2>3, <2>4, <2>7 DEF ClaimInv
  <2>9. ASSUME Fresh, NEW w \in answered' \cap Parsed, log'[w].status = 200
        PROVE  ClaimsOf(w, log'[w].hash) \subseteq claims' \cup claimBuf'
    <3>1. CASE w = u
      BY <2>4, <2>6, <3>1
    <3>2. CASE w # u
      <4>1. w \in answered \cap Parsed /\ log'[w] = log[w]
        BY <2>4, <2>5, <2>6, <2>9, <3>2
      <4>2. ClaimsOf(w, log[w].hash) \subseteq claims \cup claimBuf
        BY <2>4, <2>9, <4>1 DEF ClaimInv
      <4> QED
        BY <2>4, <4>1, <4>2
    <3> QED
      BY <3>1, <3>2
  <2> QED
    BY <2>4, <2>8, <2>9 DEF ClaimInv
<1>5. ASSUME NEW u \in Url, AnswerUnchanged(u) PROVE ClaimInv'
  <2>1. PICK r : r = Response(u)
    OBVIOUS
  <2>2. /\ r.status = 304 /\ Rows \subseteq Rows'
    BY <1>5, <2>1, RowsRenewed
  <2>3. /\ phase = "crawling" /\ u \in queue /\ answered' \subseteq answered \cup {u}
        /\ UNCHANGED <<claims, claimBuf, command>> /\ Logged(u, r)
    BY <1>5, <2>1 DEF AnswerUnchanged, files
  <2>4. answered \subseteq Url
    BY DEF CorpusTypeInv, ProgressOK
  <2>5. log'[u] = r /\ \A w \in Url \ {u} : log'[w] = log[w]
    BY <2>1, <2>3, LoggedIs
  <2>6. \A c \in claims' \cup claimBuf' : \E q \in Rows' : q.url = c.url /\ q.hash = c.hash
    BY <2>2, <2>3 DEF ClaimInv
  <2>7. ASSUME Fresh, NEW w \in answered' \cap Parsed, log'[w].status = 200
        PROVE  ClaimsOf(w, log'[w].hash) \subseteq claims' \cup claimBuf'
    <3>1. w # u
      BY <2>2, <2>5, <2>7
    <3>2. w \in answered \cap Parsed /\ log'[w] = log[w]
      BY <2>3, <2>4, <2>5, <2>7, <3>1
    <3> QED
      BY <2>3, <2>7, <3>2 DEF ClaimInv
  <2> QED
    BY <2>3, <2>6, <2>7 DEF ClaimInv
<1>6. CASE AttachPrior \/ WriteReports \/ UNCHANGED corpus
  BY <1>6 DEF AttachPrior, WriteReports, corpus, files, progress, ClaimInv, Rows
<1>7. ASSUME NEW u \in Url, NEW v \in Version, FetchFails(u) \/ SiteChanges(u, v) PROVE ClaimInv'
  BY <1>7 DEF FetchFails, SiteChanges, files, progress, ClaimInv, Rows
<1> QED
  BY <1>1, <1>2, <1>3, <1>4, <1>5, <1>6, <1>7, CorpusAssumption
     DEF NextCorpus, CorpusAssumption

LEMMA RefreshStep ==
    ASSUME CorpusTypeInv, PhaseInv, RefreshInv, [NextCorpus]_corpus
    PROVE  RefreshInv'
<1> USE DEF Live
<1>1. ASSUME NEW c \in Command, Open(c) PROVE RefreshInv'
  BY <1>1 DEF Open, RefreshInv
<1>2. CASE AttachPrior
  <2> SUFFICES ASSUME command = [kind |-> "crawl", since |-> "kept"] PROVE RefreshInv'
    BY <1>2 DEF AttachPrior, RefreshInv
  <2>1. command.kind = "crawl" /\ command.since = "kept"
    OBVIOUS
  <2>2. /\ phase = "opened" /\ held' = held
        /\ queue' = queue \cup ((Seed \cup Urls(Range(kept))) \ visited)
    BY <1>2, <2>1 DEF AttachPrior
  <2>3. held = Urls(Range(kept)) /\ visited = {}
    BY <2>1, <2>2 DEF PhaseInv, Fresh
  <2> QED
    BY <2>2, <2>3 DEF RefreshInv
<1>3. CASE AttachFails \/ Crash
  <2>1. phase' = "none" /\ report' = None
    BY <1>3 DEF AttachFails, Crash, PhaseInv
  <2> QED
    BY <2>1 DEF RefreshInv
<1>4. CASE FlushRecords \/ Report
  <2>1. Rows' = Rows
    BY <1>4, RowsFlushed
  <2>2. UNCHANGED <<command, queue, failed, held>> /\ phase \notin {"none", "opened"}
    BY <1>4 DEF FlushRecords, Report, progress
  <2> QED
    BY <2>1, <2>2 DEF RefreshInv
<1>5. ASSUME NEW u \in Url, Answer(u) PROVE RefreshInv'
  <2>1. PICK r : r = Response(u)
    OBVIOUS
  <2>2. PICK b : b = Build(u, r.hash, r.at)
    OBVIOUS
  <2>3. b.url = u /\ Rows' = Rows \cup {b}
    BY <1>5, <2>1, <2>2, RowsAnswered
  <2>4. /\ phase = "crawling" /\ u \in queue /\ queue' = (queue \cup Link[u]) \ (visited \cup {u})
        /\ UNCHANGED <<command, failed, held>>
    BY <1>5 DEF Answer
  <2>5. queue \cap visited = {}
    BY DEF CorpusTypeInv, ProgressOK
  <2>6. queue \ {u} \subseteq queue' /\ Urls(Rows) \cup {u} \subseteq Urls(Rows')
    BY <2>3, <2>4, <2>5 DEF Urls
  <2> QED
    BY <2>4, <2>6 DEF RefreshInv
<1>6. ASSUME NEW u \in Url, AnswerUnchanged(u) PROVE RefreshInv'
  <2> SUFFICES ASSUME command = [kind |-> "crawl", since |-> "kept"] PROVE RefreshInv'
    BY <1>6 DEF AnswerUnchanged, RefreshInv
  <2>0. command.kind = "crawl"
    OBVIOUS
  <2>1. PICK r : r = Response(u)
    OBVIOUS
  <2>2. /\ phase = "crawling" /\ u \in queue /\ queue' = queue \ {u}
        /\ UNCHANGED <<command, failed, held>> /\ r.status = 304
    BY <1>6, <2>1 DEF AnswerUnchanged
  <2>3. prior[u] # None
    BY <2>0, <2>1, <2>2 DEF Response, Asks
  <2>4. PICK b : b = Refreshed(prior[u], r.at)
    OBVIOUS
  <2>5. b.url = u /\ Rows' = Rows \cup {b}
    BY <1>6, <2>1, <2>3, <2>4, RowsRenewed
  <2>6. Urls(Rows) \cup {u} \subseteq Urls(Rows')
    BY <2>5 DEF Urls
  <2> QED
    BY <2>2, <2>6 DEF RefreshInv
<1>7. CASE FlushClaims \/ WriteReports \/ Exit \/ UNCHANGED corpus
  <2>1. /\ UNCHANGED <<file, buf, command, held, queue, failed>>
        /\ phase = "none" => UNCHANGED <<phase, report>>
        /\ phase \notin {"none", "opened"} \/ UNCHANGED <<phase, report>>
    BY <1>7 DEF FlushClaims, WriteReports, Exit, corpus, files, progress
  <2> QED
    BY <2>1 DEF RefreshInv, Rows
<1>8. ASSUME NEW u \in Url, NEW v \in Version, FetchFails(u) \/ SiteChanges(u, v) PROVE RefreshInv'
  <2>1. /\ UNCHANGED <<file, buf, command, held, phase, report>>
        /\ \/ UNCHANGED <<queue, failed>>
           \/ /\ phase = "crawling" /\ queue' = queue \ {u} /\ failed' = failed \cup {u}
    BY <1>8 DEF FetchFails, SiteChanges, files, progress
  <2> QED
    BY <2>1 DEF RefreshInv, Rows
<1> QED
  BY <1>1, <1>2, <1>3, <1>4, <1>5, <1>6, <1>7, <1>8, CorpusAssumption
     DEF NextCorpus, CorpusAssumption

(* An answer enters the log once: it adds its page to the downloads, or     *)
(* nothing when it was a 304.                                               *)
LEMMA DownloadsAnswered ==
    ASSUME CorpusTypeInv, NEW u \in Url, NEW r, r = Response(u), Logged(u, r),
           r # None, log[u] # None => log[u] = r
    PROVE  /\ r.status = 200 => /\ Downloads' = Downloads \cup {u}
                                /\ Downloaded' = Downloaded \cup {Build(u, r.hash, r.at)}
           /\ r.status = 304 => Downloads' = Downloads /\ Downloaded' = Downloaded
<1>1. log'[u] = r /\ \A w \in Url \ {u} : log'[w] = log[w]
  BY LoggedIs
<1>2. \A w \in Downloads : log[w] = log'[w] /\ w \in Url
  BY <1>1 DEF Downloads
<1>3. CASE r.status = 200
  <2>1. Downloads' = Downloads \cup {u}
    BY <1>1, <1>3 DEF Downloads
  <2>2. Downloaded' = {Build(w, log'[w].hash, log'[w].at) : w \in Downloads \cup {u}}
    BY <2>1 DEF Downloaded, Build
  <2>3. Downloaded = {Build(w, log'[w].hash, log'[w].at) : w \in Downloads}
    BY <1>2 DEF Downloaded
  <2>4. {Build(w, log'[w].hash, log'[w].at) : w \in Downloads \cup {u}}
            = {Build(w, log'[w].hash, log'[w].at) : w \in Downloads}
              \cup {Build(u, log'[u].hash, log'[u].at)}
    OBVIOUS
  <2> QED
    BY <1>1, <1>3, <2>1, <2>2, <2>3, <2>4
<1>4. CASE r.status = 304
  <2>1. Downloads' = Downloads
    BY <1>1, <1>4 DEF Downloads
  <2>2. Downloaded' = {Build(w, log'[w].hash, log'[w].at) : w \in Downloads}
    BY <2>1 DEF Downloaded, Build
  <2> QED
    BY <1>2, <1>4, <2>1, <2>2 DEF Downloaded
<1> QED
  BY <1>3, <1>4

LEMMA LogStep ==
    ASSUME CorpusTypeInv, PhaseInv, LogInv, [NextCorpus]_corpus
    PROVE  LogInv'
<1>a. UNCHANGED log => /\ Downloads' = Downloads /\ Downloaded' = Downloaded
                       /\ OnlyDownloads' = OnlyDownloads /\ \A s : Closed(s)' = Closed(s)
  BY DEF Downloads, Downloaded, OnlyDownloads, Closed, Build
<1>1. ASSUME NEW c \in Command, Open(c) PROVE LogInv'
  <2> SUFFICES ASSUME c.kind = "crawl" PROVE LogInv'
    BY <1>1 DEF Open, LogInv
  <2>1. /\ phase' = "opened" /\ log' = [u \in Url |-> None] /\ queue' = {} /\ visited' = {}
        /\ Rows' = {}
    BY <1>1, RangeOfEmpty DEF Open, NewCorpusWriter, Rows
  <2>2. Downloads' = {} /\ Downloaded' = {} /\ OnlyDownloads'
    BY <2>1 DEF Downloads, Downloaded, OnlyDownloads
  <2> QED
    BY <2>1, <2>2 DEF LogInv
<1>2. CASE AttachPrior
  <2>1. /\ phase = "opened" /\ UNCHANGED <<log, file, buf, visited, command>>
        /\ command.since = "nothing" =>
              /\ prior' = Index(<<>>)
              /\ queue' = queue \cup ((Seed \cup Urls(Range(<<>>))) \ visited)
    BY <1>2 DEF AttachPrior, files
  <2>2. Urls(Range(<<>>)) = {}
    BY RangeOfEmpty DEF Urls
  <2>3. \A s \in SUBSET Url : Closed(s) => Seed \subseteq s
    BY DEF Closed
  <2> QED
    BY <1>a, <2>1, <2>2, <2>3, IndexOfNone DEF LogInv, Rows
<1>3. CASE AttachFails \/ Crash \/ Exit
  BY <1>3 DEF AttachFails, Crash, Exit, LogInv
<1>4. CASE FlushRecords \/ Report
  <2>1. Rows' = Rows
    BY <1>4, RowsFlushed
  <2>2. UNCHANGED <<log, command, queue, visited, prior>> /\ phase = "crawling"
    BY <1>4 DEF FlushRecords, Report, progress
  <2> QED
    BY <1>a, <2>1, <2>2 DEF LogInv
<1>5. ASSUME NEW u \in Url, Answer(u) PROVE LogInv'
  <2> SUFFICES ASSUME command.kind = "crawl" PROVE LogInv'
    BY <1>5 DEF Answer, LogInv
  <2>1. PICK r : r = Response(u)
    OBVIOUS
  <2>2. PICK b : b = Build(u, r.hash, r.at)
    OBVIOUS
  <2>3. r # None /\ r.status = 200 /\ Rows' = Rows \cup {b}
    BY <1>5, <2>1, <2>2, RowsAnswered
  <2>4. /\ phase = "crawling" /\ u \in queue /\ queue' = (queue \cup Link[u]) \ (visited \cup {u})
        /\ visited' = visited \cup {u} /\ UNCHANGED <<command, prior, phase>> /\ Logged(u, r)
    BY <1>5, <2>1 DEF Answer
  <2>5. log[u] = None
    BY <2>4 DEF LogInv, CorpusTypeInv, ProgressOK
  <2>6. Downloads' = Downloads \cup {u} /\ Downloaded' = Downloaded \cup {b}
    BY <2>1, <2>2, <2>3, <2>4, <2>5, DownloadsAnswered
  <2>7. \A w \in Url \ {u} : log'[w] = log[w]
    BY <2>1, <2>4, LoggedIs
  <2>8. \A w \in Url : log'[w] # None => w \in visited'
    BY <2>4, <2>7 DEF LogInv
  <2>9. OnlyDownloads => OnlyDownloads'
    BY <2>6, <2>7 DEF OnlyDownloads
  <2>10. ASSUME NEW s \in SUBSET Url, Closed(s)', Closed(s) => queue \cup visited \subseteq s
         PROVE  queue' \cup visited' \subseteq s
    <3>1. Closed(s) /\ (u \in s => Link[u] \subseteq s)
      BY <2>6, <2>10 DEF Closed
    <3> QED
      BY <2>4, <2>10, <3>1
  <2> QED
    BY <2>3, <2>4, <2>6, <2>8, <2>9, <2>10 DEF LogInv
<1>6. ASSUME NEW u \in Url, AnswerUnchanged(u) PROVE LogInv'
  <2> SUFFICES ASSUME command.kind = "crawl" PROVE LogInv'
    BY <1>6 DEF AnswerUnchanged, LogInv
  <2>1. PICK r : r = Response(u)
    OBVIOUS
  <2>2. r # None /\ r.status = 304 /\ Rows \subseteq Rows'
    BY <1>6, <2>1, RowsRenewed
  <2>3. /\ phase = "crawling" /\ u \in queue /\ visited' = visited \cup {u}
        /\ UNCHANGED <<command, phase>> /\ Logged(u, r)
    BY <1>6, <2>1 DEF AnswerUnchanged
  <2>4. command.since # "nothing"
    <3> SUFFICES ASSUME prior = [w \in Url |-> None] PROVE FALSE
      BY <2>3 DEF LogInv
    <3>1. ~Asks(u)
      BY DEF Asks
    <3> QED
      BY <2>1, <2>2, <3>1 DEF Response
  <2>5. log[u] = None
    BY <2>3 DEF LogInv, CorpusTypeInv, ProgressOK
  <2>6. Downloaded' = Downloaded
    BY <2>1, <2>2, <2>3, <2>5, DownloadsAnswered
  <2>7. \A w \in Url \ {u} : log'[w] = log[w]
    BY <2>1, <2>3, LoggedIs
  <2> QED
    BY <2>2, <2>3, <2>4, <2>6, <2>7 DEF LogInv
<1>7. ASSUME NEW u \in Url, FetchFails(u) PROVE LogInv'
  <2>1. /\ UNCHANGED <<log, file, buf, command, phase, prior>> /\ phase = "crawling"
        /\ u \in queue /\ queue' = queue \ {u} /\ visited' = visited \cup {u}
    BY <1>7 DEF FetchFails, files
  <2> QED
    BY <1>a, <2>1 DEF LogInv, Rows
<1>8. CASE FlushClaims \/ WriteReports \/ (\E u \in Url, v \in Version : SiteChanges(u, v))
           \/ UNCHANGED corpus
  <2>1. UNCHANGED <<log, file, buf, command, phase, prior, queue, visited>>
    BY <1>8 DEF FlushClaims, WriteReports, SiteChanges, corpus, files, progress
  <2> QED
    BY <1>a, <2>1 DEF LogInv, Rows
<1> QED
  BY <1>1, <1>2, <1>3, <1>4, <1>5, <1>6, <1>7, <1>8 DEF NextCorpus

LEMMA OriginalStep ==
    ASSUME CorpusTypeInv, PhaseInv, LogInv, OriginalInv, [NextCorpus]_corpus
    PROVE  OriginalInv'
<1>a. UNCHANGED log => /\ Downloads' = Downloads /\ Downloaded' = Downloaded
                       /\ OnlyDownloads' = OnlyDownloads /\ \A s : Closed(s)' = Closed(s)
  BY DEF Downloads, Downloaded, OnlyDownloads, Closed, Build
<1>1. ASSUME NEW c \in Command, Open(c) PROVE OriginalInv'
  <2>1. CASE c.kind = "replay"
    BY <1>1, <1>a, <2>1 DEF Open, OriginalInv
  <2>2. CASE c.kind # "replay"
    <3>1. original' = None
      BY <1>1, <2>2 DEF Open, OriginalInv
    <3> QED
      BY <3>1 DEF OriginalInv
  <2> QED
    BY <2>1, <2>2
<1>2. CASE AttachPrior
  <2>1. phase = "opened" /\ UNCHANGED <<log, command, original>>
    BY <1>2 DEF AttachPrior
  <2> QED
    BY <1>a, <2>1 DEF OriginalInv
<1>3. ASSUME NEW u \in Url, Answer(u) \/ AnswerUnchanged(u) \/ FetchFails(u) PROVE OriginalInv'
  <2>1. PICK r : r = Response(u)
    OBVIOUS
  <2>2. phase = "crawling" /\ UNCHANGED <<command, original>> /\ (Logged(u, r) \/ log' = log)
    BY <1>3, <2>1 DEF Answer, AnswerUnchanged, FetchFails
  <2>3. command.kind = "replay" => log' = log
    BY <2>1, <2>2, LoggedIs
  <2> QED
    BY <1>a, <2>2, <2>3 DEF OriginalInv
<1>4. CASE WriteReports
  <2>1. /\ phase = "reported" /\ UNCHANGED <<log, command, queue, phase>>
        /\ original' = IF command.kind = "crawl"
                       THEN [rows |-> Range(file), since |-> command.since]
                       ELSE IF command.kind = "resume" THEN None ELSE original
    BY <1>4 DEF WriteReports, progress
  <2>2. buf = <<>> /\ queue = {}
    BY <2>1 DEF PhaseInv
  <2>3. Rows = Range(file)
    BY <2>2, RangeOfEmpty DEF Rows
  <2>4. CASE command.kind = "crawl"
    <3>1. /\ original'.rows = Rows /\ original'.since = command.since
      BY <2>1, <2>3, <2>4
    <3>2. Downloads \subseteq visited
      BY <2>1, <2>4 DEF LogInv, Downloads
    <3>3. command.since = "nothing" => \A s \in SUBSET Url : Closed(s) => Downloads \subseteq s
      BY <2>1, <2>4, <3>2 DEF LogInv
    <3> QED
      BY <1>a, <2>1, <2>2, <2>4, <3>1, <3>3 DEF LogInv, OriginalInv
  <2>5. CASE command.kind = "resume"
    BY <2>1, <2>5 DEF OriginalInv
  <2>6. CASE command.kind \notin {"crawl", "resume"}
    BY <1>a, <2>1, <2>6 DEF OriginalInv
  <2> QED
    BY <2>4, <2>5, <2>6
<1>5. CASE \/ AttachFails \/ Crash \/ Exit \/ FlushRecords \/ FlushClaims \/ Report
           \/ (\E u \in Url, v \in Version : SiteChanges(u, v)) \/ UNCHANGED corpus
  <2>1. /\ UNCHANGED <<log, command, original, queue>>
        /\ phase' \in {"opened", "crawling"} => phase' = phase
    BY <1>5 DEF AttachFails, Crash, Exit, FlushRecords, FlushClaims, Report, SiteChanges, corpus,
                progress
  <2> QED
    BY <1>a, <2>1 DEF OriginalInv
<1> QED
  BY <1>1, <1>2, <1>3, <1>4, <1>5 DEF NextCorpus

LEMMA ReplayStep ==
    ASSUME CorpusTypeInv, PhaseInv, ReplayInv, [NextCorpus]_corpus
    PROVE  ReplayInv'
<1> USE DEF Live
<1>a. UNCHANGED log => Downloads' = Downloads /\ Downloaded' = Downloaded
  BY DEF Downloads, Downloaded, Build
<1>1. ASSUME NEW c \in Command, Open(c) PROVE ReplayInv'
  <2> SUFFICES ASSUME c.kind = "replay" PROVE ReplayInv'
    BY <1>1 DEF Open, ReplayInv
  <2>1. /\ c.since = "nothing" /\ original' # None /\ phase' = "opened" /\ command' = c
        /\ visited' = {} /\ Rows' = {}
    BY <1>1, RangeOfEmpty DEF Open, NewCorpusWriter, Rows
  <2> QED
    BY <2>1 DEF ReplayInv
<1>2. CASE AttachPrior
  <2> SUFFICES ASSUME command.kind = "replay" PROVE ReplayInv'
    BY <1>2 DEF AttachPrior, ReplayInv
  <2>1. phase = "opened" /\ command.since = "nothing"
    BY <1>2 DEF AttachPrior, ReplayInv
  <2>2. /\ UNCHANGED <<log, file, buf, visited, command, original>> /\ prior' = Index(<<>>)
        /\ queue' = queue \cup ((Seed \cup Urls(Range(<<>>))) \ visited)
    BY <1>2, <2>1 DEF AttachPrior, files
  <2>3. queue \cup Seed \subseteq queue' \cup visited
    BY <2>2
  <2> QED
    BY <1>a, <2>1, <2>2, <2>3, IndexOfNone DEF ReplayInv, Rows, Build
<1>3. CASE AttachFails \/ Crash
  <2>1. phase' = "none" /\ report' = None
    BY <1>3 DEF AttachFails, Crash, PhaseInv
  <2> QED
    BY <2>1 DEF ReplayInv
<1>4. CASE FlushRecords \/ Report
  <2>1. Rows' = Rows
    BY <1>4, RowsFlushed
  <2>2. UNCHANGED <<log, command, queue, visited, prior, original>> /\ phase = "crawling"
    BY <1>4 DEF FlushRecords, Report, progress
  <2> QED
    BY <1>a, <2>1, <2>2 DEF ReplayInv, Build
<1>5. ASSUME NEW u \in Url, Answer(u) \/ AnswerUnchanged(u) \/ FetchFails(u) PROVE ReplayInv'
  <2> SUFFICES ASSUME command.kind = "replay" PROVE ReplayInv'
    BY <1>5 DEF Answer, AnswerUnchanged, FetchFails, ReplayInv
  <2>1. PICK r : r = Response(u)
    OBVIOUS
  <2>2. /\ r = log[u] /\ phase = "crawling" /\ u \in queue /\ visited' = visited \cup {u}
        /\ UNCHANGED <<command, phase, prior, original>>
    BY <1>5, <2>1 DEF Answer, AnswerUnchanged, FetchFails, Response
  <2>3. log' = log
    BY <1>5, <2>1, LoggedIs DEF Answer, AnswerUnchanged, FetchFails
  <2>4. prior[u] = None
    BY <2>2 DEF ReplayInv
  <2>5. queue \cup visited \subseteq queue' \cup visited'
    BY <1>5, <2>2 DEF Answer, AnswerUnchanged, FetchFails
  <2>6. /\ u \in Downloads =>
               Build(u, log[u].hash, log[u].at) \in Rows' /\ Link[u] \subseteq queue' \cup visited'
        /\ Rows \subseteq Rows' /\ Rows' \subseteq Downloaded
    <3>1. CASE Answer(u)
      <4>1. PICK b : b = Build(u, r.hash, r.at)
        OBVIOUS
      <4>2. r # None /\ r.status = 200 /\ Rows' = Rows \cup {b}
        BY <2>1, <3>1, <4>1, RowsAnswered
      <4>3. b \in Downloaded
        BY <2>2, <4>1, <4>2 DEF Downloads, Downloaded
      <4>4. Link[u] \subseteq queue' \cup visited'
        BY <3>1 DEF Answer
      <4> QED
        BY <2>2, <4>1, <4>2, <4>3, <4>4 DEF ReplayInv
    <3>2. CASE AnswerUnchanged(u)
      <4>1. r.status = 304 /\ Rows' = Rows
        BY <2>1, <2>4, <3>2, RowsRenewed
      <4> QED
        BY <2>2, <4>1 DEF ReplayInv, Downloads
    <3>3. CASE FetchFails(u)
      <4>1. r = None /\ Rows' = Rows
        BY <2>1, <3>3 DEF FetchFails, files, Rows
      <4> QED
        BY <2>2, <4>1 DEF ReplayInv, Downloads
    <3> QED
      BY <1>5, <3>1, <3>2, <3>3
  <2>7. ASSUME NEW w \in visited' \cap Downloads
        PROVE  Build(w, log[w].hash, log[w].at) \in Rows' /\ Link[w] \subseteq queue' \cup visited'
    <3>1. CASE w = u
      BY <2>6, <3>1
    <3>2. CASE w # u
      <4>1. w \in visited \cap Downloads
        BY <2>2, <3>2
      <4>2. Build(w, log[w].hash, log[w].at) \in Rows /\ Link[w] \subseteq queue \cup visited
        BY <2>2, <4>1 DEF ReplayInv
      <4> QED
        BY <2>5, <2>6, <4>2
    <3> QED
      BY <3>1, <3>2
  <2>8. \A w \in visited' \cap Downloads' :
            Build(w, log[w].hash, log[w].at) \in Rows' /\ Link[w] \subseteq queue' \cup visited'
    BY <1>a, <2>3, <2>7, Zenon
  <2>9. \A w \in visited' \cap Downloads' :
            Build(w, log[w].hash, log[w].at)' \in Rows' /\ Link[w] \subseteq queue' \cup visited'
    BY <2>3, <2>8 DEF Build
  <2>10. Rows' \subseteq Downloaded' /\ Seed \subseteq queue' \cup visited'
    BY <1>a, <2>2, <2>3, <2>5, <2>6 DEF ReplayInv
  <2> QED
    BY <2>2, <2>9, <2>10 DEF ReplayInv
<1>6. CASE \/ FlushClaims \/ WriteReports \/ Exit
           \/ (\E u \in Url, v \in Version : SiteChanges(u, v)) \/ UNCHANGED corpus
  <2>1. /\ UNCHANGED <<log, file, buf, command, prior, queue, visited>>
        /\ phase = "none" => UNCHANGED <<phase, report>>
        /\ phase' = "opened" => phase = "opened"
        /\ phase = "opened" => phase' = "opened"
        /\ command.kind = "replay" => original' = original
    BY <1>6 DEF FlushClaims, WriteReports, Exit, SiteChanges, corpus, files, progress
  <2> QED
    BY <1>a, <2>1 DEF ReplayInv, Rows, Build
<1> QED
  BY <1>1, <1>2, <1>3, <1>4, <1>5, <1>6 DEF NextCorpus

LEMMA CorpusAlways == SpecCorpus => []CorpusInv
<1>1. InitCorpus => CorpusInv
  <2> SUFFICES ASSUME InitCorpus PROVE CorpusInv
    OBVIOUS
  <2>1. phase = "none" /\ report = None /\ original = None
    BY DEF InitCorpus
  <2> QED
    BY <2>1 DEF CorpusInv, PhaseInv, CountInv, ClaimInv, RefreshInv, LogInv, OriginalInv,
                ReplayInv, Live
<1>2. CorpusTypeInv /\ CorpusInv /\ [NextCorpus]_corpus => CorpusInv'
  <2> SUFFICES ASSUME CorpusTypeInv, CorpusInv, [NextCorpus]_corpus PROVE CorpusInv'
    OBVIOUS
  <2>1. /\ PhaseInv /\ CountInv /\ ClaimInv /\ RefreshInv /\ LogInv /\ OriginalInv /\ ReplayInv
    BY DEF CorpusInv
  <2> QED
    BY <2>1, PhaseStep, CountStep, ClaimStep, RefreshStep, LogStep, OriginalStep, ReplayStep
       DEF CorpusInv
<1> QED
  BY <1>1, <1>2, CorpusTypes, PTL DEF SpecCorpus

-----------------------------------------------------------------------------
(* The counts of the report.                                                *)

(* The two rules of restriction agree, and are what the sources asked for.  *)
LEMMA RestrictiveIs ==
    ASSUME NEW r \in SoundRow
    PROVE  /\ Restrictive(r) <=> Reasons(r) # {}
           /\ Restrictive(r) <=> AsksToBeLeftOut(r.hash)
           /\ r.signals.tdm \in {None, 0, 1}
<1> DEFINE h == HeaderSays[r.hash]
           d == PageSays[r.hash]
           said == d.robots \cup UNION {RobotsTokens(tag) : tag \in h.robots}
<1>1. /\ r.signals = Merge(FromHeaders(h), FromDocument(d)) /\ r.ai = SummariseDirectives(RobotsTxt)
      /\ r.signals \in Statement
  BY DEF SoundRow, Row
<1>2. /\ r.signals.noai <=> "noai" \in said \/ d.noindex
      /\ r.signals.noimageai <=> "noimageai" \in said
      /\ r.signals.tdm = MergeTDM(FromHeaders(h).tdm, FromDocument(d).tdm)
  <2>1. /\ r.signals.noai = (FromHeaders(h).noai \/ FromDocument(d).noai)
        /\ r.signals.noimageai = (FromHeaders(h).noimageai \/ FromDocument(d).noimageai)
        /\ r.signals.tdm = MergeTDM(FromHeaders(h).tdm, FromDocument(d).tdm)
    BY <1>1 DEF Merge
  <2>2. /\ FromHeaders(h).noai <=> \E tag \in h.robots : "noai" \in RobotsTokens(tag)
        /\ FromHeaders(h).noimageai <=> \E tag \in h.robots : "noimageai" \in RobotsTokens(tag)
        /\ FromDocument(d).noai <=> "noai" \in d.robots \/ d.noindex
        /\ FromDocument(d).noimageai <=> "noimageai" \in d.robots
    BY DEF FromHeaders, FromDocument
  <2>3. \A x : x \in said <=> x \in d.robots \/ \E tag \in h.robots : x \in RobotsTokens(tag)
    OBVIOUS
  <2> HIDE DEF h, d, said
  <2> QED
    BY <2>1, <2>2, <2>3
<1>3. /\ FromHeaders(h).tdm \in {None, 0, 1} /\ FromDocument(d).tdm \in {None, 0, 1}
      /\ FromHeaders(h).tdm = 1 <=> h.tdm # <<>> /\ h.tdm[1] = "1"
      /\ FromDocument(d).tdm = 1 <=> SaidLast(d.tdm, "1")
  BY CorpusAssumption DEF CorpusAssumption, FromHeaders, FromDocument, TDMValue
<1>4. r.signals.tdm = 1 <=> (h.tdm # <<>> /\ h.tdm[1] = "1") \/ SaidLast(d.tdm, "1")
  BY <1>2, <1>3, CorpusAssumption DEF CorpusAssumption, MergeTDM, Prefer
<1>5. Restrictive(r) <=> r.signals.noai \/ r.signals.noimageai \/ r.signals.tdm = 1 \/ r.ai = "blocks"
  BY DEF Restrictive, PageRestrictive
<1>6. Reasons(r) # {}
        <=> r.signals.noai \/ r.signals.noimageai \/ r.signals.tdm = 1 \/ r.ai = "blocks"
  BY DEF Reasons
<1>7. AsksToBeLeftOut(r.hash)
        <=> \/ "noai" \in said \/ "noimageai" \in said \/ d.noindex
            \/ (h.tdm # <<>> /\ h.tdm[1] = "1") \/ SaidLast(d.tdm, "1")
            \/ SummariseDirectives(RobotsTxt) = "blocks"
  <2>1. AsksToBeLeftOut(r.hash)
          <=> \/ Opting \cap said # {} \/ d.noindex
              \/ (h.tdm # <<>> /\ h.tdm[1] = "1") \/ SaidLast(d.tdm, "1")
              \/ SummariseDirectives(RobotsTxt) = "blocks"
    BY DEF AsksToBeLeftOut
  <2>2. Opting \cap said # {} <=> "noai" \in said \/ "noimageai" \in said
    BY DEF Opting
  <2> HIDE DEF h, d, said
  <2> QED
    BY <2>1, <2>2
<1> HIDE DEF h, d, said
<1> QED
  BY <1>1, <1>2, <1>4, <1>5, <1>6, <1>7 DEF Statement

LEMMA SizeOfUnion ==
    ASSUME NEW S, NEW T, IsFiniteSet(S), IsFiniteSet(T), S \cap T = {}
    PROVE  IsFiniteSet(S \cup T) /\ Cardinality(S \cup T) = Cardinality(S) + Cardinality(T)
<1>1. /\ IsFiniteSet(S \cup T)
      /\ Cardinality(S \cup T) = Cardinality(S) + Cardinality(T) - Cardinality(S \cap T)
  BY FS_Union
<1>2. Cardinality(S) \in Nat /\ Cardinality(T) \in Nat
  BY FS_CardinalityType
<1>3. Cardinality(S \cap T) = 0
  BY FS_EmptySet
<1> QED
  BY <1>1, <1>2, <1>3

LEMMA PlacedOnce ==
    ASSUME NEW S, S \subseteq SoundRow, IsFiniteSet(S)
    PROVE  Cardinality({r \in S : r.signals.tdm = 1}) + Cardinality({r \in S : r.signals.tdm = 0})
               + Cardinality({r \in S : r.signals.tdm = None}) = Cardinality(S)
<1>1. PICK A : A = {r \in S : r.signals.tdm = 1}
  OBVIOUS
<1>2. PICK B : B = {r \in S : r.signals.tdm = 0}
  OBVIOUS
<1>3. PICK C : C = {r \in S : r.signals.tdm = None}
  OBVIOUS
<1>4. IsFiniteSet(A) /\ IsFiniteSet(B) /\ IsFiniteSet(C)
  BY <1>1, <1>2, <1>3, FS_Subset
<1>5. A \cap B = {} /\ (A \cup B) \cap C = {}
  BY <1>1, <1>2, <1>3, CorpusAssumption DEF CorpusAssumption
<1>6. S = (A \cup B) \cup C
  BY <1>1, <1>2, <1>3, RestrictiveIs
<1>7. IsFiniteSet(A \cup B) /\ Cardinality(A \cup B) = Cardinality(A) + Cardinality(B)
  BY <1>4, <1>5, SizeOfUnion
<1>8. Cardinality(S) = Cardinality(A) + Cardinality(B) + Cardinality(C)
  BY <1>4, <1>5, <1>6, <1>7, SizeOfUnion
<1> QED
  BY <1>1, <1>2, <1>3, <1>8

LEMMA AsManyUrls ==
    ASSUME NEW S, IsFiniteSet(S), \A r1, r2 \in S : r1.url = r2.url => r1 = r2
    PROVE  Cardinality(Urls(S)) = Cardinality(S)
<1> DEFINE f == [r \in S |-> r.url]
<1>1. f \in Bijection(S, Urls(S))
  BY DEF Urls, Bijection, Injection, IsInjective, Surjection
<1>2. ExistsBijection(S, Urls(S))
  BY <1>1 DEF ExistsBijection
<1> QED
  BY <1>2, FS_Bijection

LEMMA FiniteRange ==
    ASSUME NEW S, NEW q \in Seq(S)
    PROVE  IsFiniteSet(Range(q))
<1>1. Len(q) \in Nat /\ DOMAIN q = 1 .. Len(q)
  BY LenProperties
<1>2. IsFiniteSet(1 .. Len(q))
  BY <1>1, FS_Interval
<1>3. q \in Surjection(1 .. Len(q), Range(q))
  <2>1. q \in [1 .. Len(q) -> S] /\ \A i \in 1 .. Len(q) : q[i] \in Range(q)
    BY <1>1 DEF Range
  <2>2. q \in [1 .. Len(q) -> Range(q)]
    BY <2>1
  <2> QED
    BY <1>1, <2>2 DEF Surjection, Range
<1> QED
  BY <1>2, <1>3, FS_Surjection

(* The type invariant of the corpus: what a row states is what its version  *)
(* and the site said, through every write, read, renewal and replay         *)
(* (provenance.go, parquet.go).                                             *)
THEOREM CorpusTypeCorrect == SpecCorpus => []CorpusTypeInv
  BY CorpusTypes, PTL

(* What the summary and the compliance report count is the corpus the crawl *)
(* wrote, and all of it: the writer is closed before the file is read back, *)
(* both rules of restriction agree, every row falls under one reservation.  *)
THEOREM ReportTrue == SpecCorpus => []ReportIsTheCorpus
<1>1. CorpusTypeInv /\ CorpusInv => ReportIsTheCorpus
  <2> SUFFICES ASSUME CorpusTypeInv, CorpusInv, report # None PROVE ReportIsTheCorpus
    BY DEF ReportIsTheCorpus
  <2> DEFINE out == Range(ReadOutput)
             s == report.summary
             a == report.audit
  <2>1. RowsOK /\ sealed /\ buf = <<>>
    BY DEF CorpusTypeInv, CorpusInv, PhaseInv
  <2>2. ReadOutput = file /\ file \in Seq(SoundRow)
    BY <2>1, OutputIs DEF RowsOK
  <2>3. out \subseteq SoundRow /\ IsFiniteSet(out) /\ out = Range(file)
    BY <2>2, FiniteRange, RangeOfSeq
  <2>4. /\ report = [summary |-> Summarise(out), audit |-> BuildComplianceReport(out, MaxListed)]
    BY DEF CorpusInv, PhaseInv
  <2>5. s = Summarise(out) /\ a = BuildComplianceReport(out, MaxListed)
    BY <2>4
  <2> HIDE DEF out, s, a
  <2>6. /\ s.records = Cardinality(out) /\ s.restrictive = Cardinality({r \in out : Restrictive(r)})
        /\ s.licensed = Cardinality({r \in out : r.signals.licence # None})
        /\ s.sitewide = Cardinality({r \in out : r.ai = "blocks"})
    BY <2>5 DEF Summarise, Count
  <2> DEFINE restricted == {r \in out : Reasons(r) # {}}
             n == Cardinality(restricted)
             listed == IF MaxListed = 0 \/ n < MaxListed THEN n ELSE MaxListed
  <2>7. /\ a.records = Cardinality(out) /\ a.restricted = n /\ a.listed = listed
        /\ a.licensed = Cardinality({r \in out : r.signals.licence # None})
        /\ a.reserved = Cardinality({r \in out : r.signals.tdm = 1})
        /\ a.permitted = Cardinality({r \in out : r.signals.tdm = 0})
        /\ a.unstated = Cardinality({r \in out : r.signals.tdm = None})
        /\ a.sitewide = Cardinality({r \in out : r.ai = "blocks"})
        /\ a.truncated = (MaxListed > 0 /\ n > listed)
    BY <2>5 DEF BuildComplianceReport, Count
  <2>8. /\ restricted = {r \in out : Restrictive(r)}
        /\ restricted = {r \in out : AsksToBeLeftOut(r.hash)}
    BY <2>3, RestrictiveIs
  <2>9. n \in Nat /\ MaxListed \in Nat
    <3>1. IsFiniteSet(restricted)
      BY <2>3, FS_Subset
    <3> QED
      BY <3>1, FS_CardinalityType, CorpusAssumption DEF CorpusAssumption
  <2>10. a.truncated = (a.listed < a.restricted)
    <3> HIDE DEF n
    <3> QED
      BY <2>7, <2>9
  <2>11. a.reserved + a.permitted + a.unstated = a.records
    BY <2>3, <2>7, PlacedOnce
  <2>12. command.kind # "resume" => s.records = Cardinality(answered)
    <3> SUFFICES ASSUME command.kind # "resume" PROVE s.records = Cardinality(answered)
      OBVIOUS
    <3>1. Rows = out
      BY <2>1, <2>3, RangeOfEmpty DEF Rows
    <3>2. Urls(out) = answered /\ \A r1, r2 \in out : r1.url = r2.url => r1 = r2
      BY <3>1 DEF CorpusInv, CountInv, Live, Fresh
    <3> QED
      BY <2>3, <2>6, <3>2, AsManyUrls
  <2>13. out \subseteq Row
    BY <2>3 DEF SoundRow
  <2>14. s.restrictive = Cardinality({r \in Range(file) : AsksToBeLeftOut(r.hash)})
    BY <2>3, <2>6, <2>8
  <2>15. s.records = a.records /\ s.restrictive = a.restricted /\ s.licensed = a.licensed
         /\ s.sitewide = a.sitewide
    BY <2>6, <2>7, <2>8
  <2> HIDE DEF restricted, n, listed
  <2> QED
    BY <2>10, <2>11, <2>12, <2>13, <2>14, <2>15 DEF ReportIsTheCorpus, out, s, a
<1> QED
  BY <1>1, CorpusTypes, CorpusAlways, PTL

(* A refresh ends with a row for every page of the prior corpus that could  *)
(* be fetched: seedFromPriorCorpus queues them all, and a 304 renews a row. *)
THEOREM RefreshCovers == SpecCorpus => []RefreshCoversPrior
<1>1. CorpusTypeInv /\ CorpusInv => RefreshCoversPrior
  <2> SUFFICES ASSUME CorpusTypeInv, CorpusInv, report # None,
                      command = [kind |-> "crawl", since |-> "kept"]
               PROVE  held \subseteq Urls(Range(file)) \cup failed
    BY DEF RefreshCoversPrior
  <2>1. phase # "opened" /\ queue = {} /\ buf = <<>>
    BY DEF CorpusInv, PhaseInv
  <2>2. Rows = Range(file)
    BY <2>1, RangeOfEmpty DEF Rows
  <2> QED
    BY <2>1, <2>2 DEF CorpusInv, RefreshInv, Live
<1> QED
  BY <1>1, CorpusTypes, CorpusAlways, PTL

(* The two files join once both are closed: a claim names the page and the  *)
(* bytes of a row, and a page that was parsed has its claims.               *)
THEOREM ClaimsJoin == SpecCorpus => []ClaimsJoinRows
<1>1. CorpusInv => ClaimsJoinRows
  <2> SUFFICES ASSUME CorpusInv, phase = "reported" PROVE ClaimsJoinRows
    BY DEF ClaimsJoinRows
  <2>1. buf = <<>> /\ claimBuf = {} /\ claims \cup claimBuf = claims
    BY DEF CorpusInv, PhaseInv
  <2>2. Rows = Range(file)
    BY <2>1, RangeOfEmpty DEF Rows
  <2> QED
    BY <2>1, <2>2 DEF CorpusInv, ClaimInv, Fresh, ClaimsJoinRows
<1> QED
  BY <1>1, CorpusAlways, PTL

(* A replay of a completed crawl writes that crawl's rows again: it meets   *)
(* every page of the log by the links of those before it, and the log dates *)
(* its answers. Of a refreshed corpus it writes what was downloaded.        *)
THEOREM ReplayRebuilds == SpecCorpus => []ReplayRebuildsCorpus
<1>1. CorpusTypeInv /\ CorpusInv => ReplayRebuildsCorpus
  <2> SUFFICES ASSUME CorpusTypeInv, CorpusInv, report # None, command.kind = "replay"
               PROVE  /\ Range(file) \subseteq original.rows
                      /\ original.since = "nothing" => Range(file) = original.rows
    BY DEF ReplayRebuildsCorpus
  <2>1. phase # "opened" /\ queue = {} /\ buf = <<>>
    BY DEF CorpusInv, PhaseInv
  <2>2. Rows = Range(file)
    BY <2>1, RangeOfEmpty DEF Rows
  <2>3. /\ original # None /\ Rows \subseteq Downloaded /\ Seed \subseteq visited
        /\ \A u \in visited \cap Downloads :
               Build(u, log[u].hash, log[u].at) \in Rows /\ Link[u] \subseteq visited
    BY <2>1 DEF CorpusInv, ReplayInv, Live
  <2>4. Downloaded \subseteq original.rows
    BY <2>3 DEF CorpusInv, OriginalInv
  <2>5. ASSUME original.since = "nothing" PROVE original.rows \subseteq Rows
    <3>1. visited \in SUBSET Url /\ Closed(visited)
      BY <2>3 DEF CorpusTypeInv, ProgressOK, Closed
    <3>2. Downloads \subseteq visited /\ original.rows = Downloaded
      BY <2>3, <2>5, <3>1 DEF CorpusInv, OriginalInv
    <3> QED
      BY <2>3, <3>2 DEF Downloaded
  <2> QED
    BY <2>2, <2>3, <2>4, <2>5
<1> QED
  BY <1>1, CorpusTypes, CorpusAlways, PTL

-----------------------------------------------------------------------------
(* Sorting. A sorted arrangement is the one there is, as far as its keys    *)
(* tell.                                                                    *)

Orders(le, K) ==
    /\ \A x, y \in K : <<x, y>> \in le \/ <<y, x>> \in le
    /\ \A x, y, z \in K : <<x, y>> \in le /\ <<y, z>> \in le => <<x, z>> \in le
    /\ \A x, y \in K : <<x, y>> \in le /\ <<y, x>> \in le => x = y

\* The places p names one after the other, whose keys are c.
InOrder(n, c, p, le) ==
    \A j, k \in 1 .. n : j < k => <<c[p[j]], c[p[k]]>> \in le

LEMMA SizeUpTo == \A n \in Nat : IsFiniteSet(1 .. n) /\ Cardinality(1 .. n) = n
<1> SUFFICES ASSUME NEW n \in Nat PROVE IsFiniteSet(1 .. n) /\ Cardinality(1 .. n) = n
  OBVIOUS
<1> QED
  BY FS_Interval

LEMMA SortedAlike ==
    \A n \in Nat : \A S, K, le : \A c \in [S -> K] :
        IsFiniteSet(S) /\ Cardinality(S) = n /\ Orders(le, K) =>
            \A p, q \in Injection(1 .. n, S) :
                InOrder(n, c, p, le) /\ InOrder(n, c, q, le) =>
                    \A i \in 1 .. n : c[p[i]] = c[q[i]]
<1> TAKE n \in Nat
<1> TAKE S, K, le
<1> TAKE c \in [S -> K]
<1> HAVE IsFiniteSet(S) /\ Cardinality(S) = n /\ Orders(le, K)
<1>1. ASSUME NEW p \in Injection(1 .. n, S), NEW q \in Injection(1 .. n, S),
             InOrder(n, c, p, le), InOrder(n, c, q, le),
             NEW i \in 1 .. n, <<c[p[i]], c[q[i]]>> \in le, c[p[i]] # c[q[i]]
      PROVE  FALSE
  <2>1. /\ p \in [1 .. n -> S] /\ \A j, k \in 1 .. n : p[j] = p[k] => j = k
        /\ q \in [1 .. n -> S] /\ \A j, k \in 1 .. n : q[j] = q[k] => j = k
    BY DEF Injection, IsInjective
  <2>2. IsFiniteSet(1 .. n) /\ Cardinality(1 .. n) = n
    BY FS_Interval
  <2>3. q \in Surjection(1 .. n, S)
    BY <2>2, FS_Injection
  <2>4. \A s \in S : \E m \in 1 .. n : q[m] = s
    BY <2>3 DEF Surjection
  <2>5. ASSUME NEW m \in 1 .. n, NEW j \in 1 .. i, q[m] = p[j] PROVE m \in 1 .. (i - 1)
    <3>1. PICK x, y, z, v \in K : /\ x = c[p[j]] /\ y = c[p[i]]
                                  /\ z = c[q[i]] /\ v = c[q[m]]
      BY <2>1
    <3>2. x = v /\ y # z
      BY <1>1, <2>5, <3>1
    <3>3. <<x, y>> \in le
      <4>1. CASE j = i
        BY <3>1, <4>1 DEF Orders
      <4>2. CASE j # i
        <5>1. j \in 1 .. n /\ j < i
          BY <4>2
        <5>2. <<c[p[j]], c[p[i]]>> \in le
          BY <1>1, <5>1, Zenon DEF InOrder
        <5> QED
          BY <3>1, <5>2
      <4> QED
        BY <4>1, <4>2
    <3>4. CASE m >= i
      <4>1. <<z, v>> \in le
        <5>1. CASE m = i
          BY <3>1, <5>1 DEF Orders
        <5>2. CASE m # i
          <6>1. i < m
            BY <3>4, <5>2
          <6>2. <<c[q[i]], c[q[m]]>> \in le
            BY <1>1, <6>1, Zenon DEF InOrder
          <6> QED
            BY <3>1, <6>2
        <5> QED
          BY <5>1, <5>2
      <4>2. <<y, z>> \in le
        BY <1>1, <3>1
      <4>3. <<z, y>> \in le
        BY <3>2, <3>3, <4>1 DEF Orders
      <4> QED
        BY <3>2, <4>2, <4>3 DEF Orders
    <3> QED
      BY <3>4
  <2> DEFINE f == [j \in 1 .. i |-> CHOOSE m \in 1 .. n : q[m] = p[j]]
  <2>6. ASSUME NEW j \in 1 .. i
        PROVE  f[j] \in 1 .. n /\ q[f[j]] = p[j] /\ f[j] \in 1 .. (i - 1)
    <3>1. p[j] \in S
      BY <2>1
    <3>2. \E m \in 1 .. n : q[m] = p[j]
      BY <2>4, <3>1
    <3>3. f[j] = CHOOSE m \in 1 .. n : q[m] = p[j]
      OBVIOUS
    <3> HIDE DEF f
    <3>4. f[j] \in 1 .. n /\ q[f[j]] = p[j]
      BY <3>2, <3>3, Zenon
    <3> QED
      BY <2>5, <3>4
  <2>7. f \in [1 .. i -> 1 .. (i - 1)]
    BY <2>6
  <2> HIDE DEF f
  <2>8. IsFiniteSet(1 .. i) /\ Cardinality(1 .. i) = i
    BY FS_Interval
  <2>9. IsFiniteSet(1 .. (i - 1)) /\ Cardinality(1 .. (i - 1)) = i - 1
    <3>1. i - 1 \in Int /\ 1 \in Int /\ (1 > i - 1 => i - 1 = 0)
      OBVIOUS
    <3> QED
      BY <3>1, FS_Interval
  <2>10. Cardinality(1 .. (i - 1)) < Cardinality(1 .. i)
    BY <2>8, <2>9
  <2>11. \E j, k \in 1 .. i : j # k /\ f[j] = f[k]
    BY <2>7, <2>8, <2>9, <2>10, FS_PigeonHole, Zenon
  <2> QED
    BY <2>1, <2>6, <2>11
<1> SUFFICES ASSUME NEW p \in Injection(1 .. n, S), NEW q \in Injection(1 .. n, S),
                    InOrder(n, c, p, le), InOrder(n, c, q, le), NEW i \in 1 .. n
             PROVE  c[p[i]] = c[q[i]]
  OBVIOUS
<1>2. c[p[i]] \in K /\ c[q[i]] \in K
  BY DEF Injection
<1>3. <<c[p[i]], c[q[i]]>> \in le \/ <<c[q[i]], c[p[i]]>> \in le
  BY <1>2 DEF Orders
<1>4. <<c[p[i]], c[q[i]]>> \in le => c[p[i]] = c[q[i]]
  BY <1>1
<1>5. <<c[q[i]], c[p[i]]>> \in le => c[q[i]] = c[p[i]]
  BY <1>1
<1> QED
  BY <1>3, <1>4, <1>5

Linear(S, below) ==
    /\ below \in [S -> SUBSET S]
    /\ \A k \in S : k \notin below[k]
    /\ \A j, k \in S : j # k => j \in below[k] \/ k \in below[j]
    /\ \A j, k \in S : j \in below[k] => below[j] \subseteq below[k]

LEMMA ByRankIs ==
    ASSUME NEW S, IsFiniteSet(S), NEW below, Linear(S, below),
           NEW n, n = Cardinality(S)
    PROVE  /\ n \in Nat
           /\ DOMAIN ByRank(S, below) = 1 .. n
           /\ ByRank(S, below) \in Injection(1 .. n, S)
           /\ \A k \in S : \E m \in 1 .. n : ByRank(S, below)[m] = k
           /\ \A j, k \in 1 .. n : j < k => ByRank(S, below)[j] \in below[ByRank(S, below)[k]]
<1> PICK r : r = ByRank(S, below)
  OBVIOUS
<1>1. n \in Nat
  BY FS_CardinalityType
<1>2. ASSUME NEW k \in S
      PROVE  /\ IsFiniteSet(below[k]) /\ Cardinality(below[k]) \in 0 .. (n - 1)
  <2>1. below[k] \in SUBSET (S \ {k})
    BY DEF Linear
  <2>2. IsFiniteSet(S \ {k}) /\ Cardinality(S \ {k}) = n - 1
    BY FS_RemoveElement
  <2>3. IsFiniteSet(below[k]) /\ Cardinality(below[k]) <= n - 1
    BY <2>1, <2>2, FS_Subset
  <2> QED
    BY <2>3, FS_CardinalityType
<1>3. ASSUME NEW j \in S, NEW k \in S, j \in below[k]
      PROVE  Cardinality(below[j]) < Cardinality(below[k])
  <2>1. /\ below[j] \in SUBSET below[k] /\ j \notin below[j]
        /\ below[j] \cup {j} \in SUBSET below[k]
    BY <1>3 DEF Linear
  <2>2. /\ IsFiniteSet(below[j] \cup {j})
        /\ Cardinality(below[j] \cup {j}) = Cardinality(below[j]) + 1
    BY <1>2, <2>1, FS_AddElement
  <2>3. Cardinality(below[j] \cup {j}) <= Cardinality(below[k])
    BY <1>2, <2>1, FS_Subset
  <2> QED
    BY <1>2, <2>2, <2>3
<1> DEFINE f == [k \in S |-> Cardinality(below[k]) + 1]
<1>4. f \in [S -> 1 .. n]
  BY <1>1, <1>2
<1>5. \A j, k \in S : Cardinality(below[j]) = Cardinality(below[k]) => j = k
  <2> SUFFICES ASSUME NEW j \in S, NEW k \in S, j # k
               PROVE  Cardinality(below[j]) # Cardinality(below[k])
    OBVIOUS
  <2>1. j \in below[k] \/ k \in below[j]
    BY DEF Linear
  <2> QED
    BY <1>2, <1>3, <2>1
<1>6. f \in Injection(S, 1 .. n)
  <2>1. \A j, k \in S : f[j] = f[k] => j = k
    BY <1>2, <1>5
  <2> QED
    BY <1>4, <2>1 DEF Injection, IsInjective
<1>7. f \in Surjection(S, 1 .. n)
  <2>1. IsFiniteSet(1 .. n) /\ Cardinality(1 .. n) = n
    BY <1>1, FS_Interval
  <2> HIDE DEF f
  <2> QED
    BY <1>6, <2>1, FS_Injection
<1>8. ASSUME NEW m \in 1 .. n PROVE r[m] \in S /\ Cardinality(below[r[m]]) = m - 1
  <2>1. PICK k \in S : f[k] = m
    BY <1>7 DEF Surjection
  <2>2. Cardinality(below[k]) = m - 1
    BY <1>2, <2>1
  <2>3. r[m] = CHOOSE l \in S : Cardinality(below[l]) = m - 1
    BY DEF ByRank
  <2> QED
    BY <2>2, <2>3
<1>9. DOMAIN r = 1 .. n /\ r \in [1 .. n -> S]
  <2>1. r = [m \in 1 .. n |-> CHOOSE k \in S : Cardinality(below[k]) = m - 1]
    BY DEF ByRank
  <2> QED
    BY <1>8, <2>1
<1>10. \A j, k \in 1 .. n : r[j] = r[k] => j = k
  BY <1>8
<1>11. ASSUME NEW k \in S PROVE \E m \in 1 .. n : r[m] = k
  <2>1. Cardinality(below[k]) + 1 \in 1 .. n
    BY <1>1, <1>2
  <2>2. r[Cardinality(below[k]) + 1] = k
    BY <1>2, <1>5, <1>8, <2>1
  <2> QED
    BY <2>1, <2>2
<1>12. ASSUME NEW j \in 1 .. n, NEW k \in 1 .. n, j < k PROVE r[j] \in below[r[k]]
  <2>1. r[j] \in S /\ r[k] \in S /\ r[j] # r[k]
    BY <1>8, <1>10, <1>12
  <2>2. r[j] \in below[r[k]] \/ r[k] \in below[r[j]]
    BY <2>1 DEF Linear
  <2>3. CASE r[k] \in below[r[j]]
    <3>1. Cardinality(below[r[k]]) < Cardinality(below[r[j]])
      BY <1>3, <2>1, <2>3
    <3> QED
      BY <1>8, <1>12, <3>1
  <2> QED
    BY <2>2, <2>3
<1> QED
  BY <1>1, <1>9, <1>10, <1>11, <1>12 DEF Injection, IsInjective

\* q names the places of s, one after the other, in another order.
Shuffle(q, n) == q \in Injection(1 .. n, 1 .. n)

LEMMA ShuffleOnto ==
    \A n \in Nat : \A q : Shuffle(q, n) =>
        /\ q \in [1 .. n -> 1 .. n]
        /\ \A j, k \in 1 .. n : q[j] = q[k] => j = k
        /\ \A k \in 1 .. n : \E m \in 1 .. n : q[m] = k
<1> SUFFICES ASSUME NEW n \in Nat, NEW q, Shuffle(q, n)
             PROVE  /\ q \in [1 .. n -> 1 .. n]
                    /\ \A j, k \in 1 .. n : q[j] = q[k] => j = k
                    /\ \A k \in 1 .. n : \E m \in 1 .. n : q[m] = k
  OBVIOUS
<1>1. IsFiniteSet(1 .. n)
  BY FS_Interval
<1>2. q \in Surjection(1 .. n, 1 .. n)
  BY <1>1, FS_Injection DEF Shuffle
<1>3. \A k \in 1 .. n : \E m \in 1 .. n : q[m] = k
  BY <1>2 DEF Surjection
<1>4. q \in [1 .. n -> 1 .. n] /\ \A j, k \in 1 .. n : q[j] = q[k] => j = k
  BY DEF Shuffle, Injection, IsInjective
<1> QED
  BY <1>3, <1>4

LEMMA ArrangementIs ==
    ASSUME NEW C, NEW s \in Seq(C), NEW t \in Arrangements(s)
    PROVE  /\ \E q : Shuffle(q, Len(s)) /\ t = [k \in 1 .. Len(s) |-> s[q[k]]]
           /\ t \in Seq(C) /\ Len(t) = Len(s)
<1> PICK n : n = Len(s)
  OBVIOUS
<1>1. n \in Nat /\ DOMAIN s = 1 .. n /\ \A k \in 1 .. n : s[k] \in C
  <2>1. Len(s) \in Nat /\ DOMAIN s = 1 .. Len(s)
    BY LenProperties
  <2>2. \A k \in 1 .. Len(s) : s[k] \in C
    BY ElementOfSeq
  <2> QED
    BY <2>1, <2>2
<1>2. Cardinality(1 .. n) = n
  <2>1. n \in Nat
    BY <1>1
  <2> QED
    BY <2>1, SizeUpTo
<1>3. PICK q \in SetToSeqs(1 .. n) : t = [k \in 1 .. n |-> s[q[k]]]
  BY <1>1 DEF Arrangements
<1>4. q \in [1 .. n -> 1 .. n] /\ \A i, j \in 1 .. n : i # j => q[i] # q[j]
  BY <1>2 DEF SetToSeqs
<1>5. Shuffle(q, n)
  BY <1>4 DEF Shuffle, Injection, IsInjective
<1>6. t \in [1 .. n -> C]
  BY <1>1, <1>3, <1>4
<1>7. t \in Seq(C) /\ Len(t) = n
  BY <1>1, <1>6
<1> QED
  BY <1>3, <1>5, <1>7

\* The claims of a field, and which of two comes first.
PlacesOf(cs, f) == {k \in DOMAIN cs : cs[k].field = f}
Before(cs, f) ==
    [k \in PlacesOf(cs, f) |->
        {j \in PlacesOf(cs, f) :
            \/ cs[j].index < cs[k].index
            \/ cs[j].index = cs[k].index /\ j < k}]

Indexed(C) == \A c \in C : c.index \in Nat

\* The places of S with a lower index, or before a place with the same.
Below(S, index) ==
    [k \in S |-> {j \in S : index[j] < index[k] \/ (index[j] = index[k] /\ j < k)}]

LEMMA RankLinear ==
    \A S, index : (\A k \in S : index[k] \in Nat /\ k \in Nat) => Linear(S, Below(S, index))
<1> SUFFICES ASSUME NEW S, NEW index, \A k \in S : index[k] \in Nat /\ k \in Nat
             PROVE  Linear(S, Below(S, index))
  OBVIOUS
<1> PICK below : below = Below(S, index)
  OBVIOUS
<1>0. below \in [S -> SUBSET S]
  BY DEF Below
<1>1. \A j, k \in S :
          j \in below[k] <=> index[j] < index[k] \/ (index[j] = index[k] /\ j < k)
  BY DEF Below
<1>2. ASSUME NEW k \in S PROVE k \notin below[k]
  BY <1>1
<1>3. ASSUME NEW j \in S, NEW k \in S, j # k PROVE j \in below[k] \/ k \in below[j]
  <2>1. PICK x, y \in Nat : x = index[j] /\ y = index[k]
    OBVIOUS
  <2>2. j \in Nat /\ k \in Nat
    OBVIOUS
  <2>3. j < k \/ k < j
    BY <1>3, <2>2
  <2>4. x < y \/ y < x \/ x = y
    OBVIOUS
  <2>5. x < y => j \in below[k]
    BY <1>1, <2>1
  <2>6. y < x => k \in below[j]
    BY <1>1, <2>1
  <2>7. x = y /\ j < k => j \in below[k]
    BY <1>1, <2>1
  <2>8. x = y /\ k < j => k \in below[j]
    BY <1>1, <2>1
  <2> QED
    BY <2>3, <2>4, <2>5, <2>6, <2>7, <2>8
<1>4. ASSUME NEW j \in S, NEW k \in S, j \in below[k], NEW i, i \in below[j]
      PROVE  i \in below[k]
  <2>1. i \in S
    BY <1>0, <1>4
  <2>2. PICK x, y, z \in Nat : x = index[i] /\ y = index[j] /\ z = index[k]
    BY <2>1
  <2>3. x < y \/ (x = y /\ i < j)
    BY <1>1, <1>4, <2>1, <2>2
  <2>4. y < z \/ (y = z /\ j < k)
    BY <1>1, <1>4, <2>2
  <2>5. i \in Nat /\ j \in Nat /\ k \in Nat
    BY <2>1
  <2>6. x < z \/ (x = z /\ i < k)
    BY <2>3, <2>4, <2>5
  <2> QED
    BY <1>1, <2>1, <2>2, <2>6
<1> QED
  BY <1>0, <1>2, <1>3, <1>4 DEF Linear

Sorts(cs, f, n, r) ==
    /\ r \in Injection(1 .. n, PlacesOf(cs, f))
    /\ Group(cs, f) = [m \in 1 .. n |-> cs[r[m]].value]
    /\ \A j, k \in 1 .. n : j < k => cs[r[j]].index <= cs[r[k]].index

LEMMA GroupIs ==
    ASSUME NEW C, Indexed(C), NEW cs \in Seq(C), NEW f,
           NEW n, n = Cardinality(PlacesOf(cs, f))
    PROVE  /\ n \in Nat /\ IsFiniteSet(PlacesOf(cs, f))
           /\ PlacesOf(cs, f) \subseteq 1 .. Len(cs)
           /\ \E r : Sorts(cs, f, n, r)
<1> PICK S : S = PlacesOf(cs, f)
  OBVIOUS
<1>1. Len(cs) \in Nat /\ DOMAIN cs = 1 .. Len(cs)
  BY LenProperties
<1>2. \A k \in 1 .. Len(cs) : cs[k].index \in Nat
  <2>1. \A k \in 1 .. Len(cs) : cs[k] \in C
    BY ElementOfSeq
  <2> QED
    BY <2>1 DEF Indexed
<1>3. S \in SUBSET (1 .. Len(cs)) /\ S \subseteq Nat
  BY <1>1 DEF PlacesOf
<1>4. IsFiniteSet(S)
  <2>1. IsFiniteSet(1 .. Len(cs))
    BY <1>1, FS_Interval
  <2> QED
    BY <1>3, <2>1, FS_Subset
<1> PICK below : below = Before(cs, f)
  OBVIOUS
<1> PICK index : index = [k \in 1 .. Len(cs) |-> cs[k].index]
  OBVIOUS
<1>5. below = Below(S, index)
  BY <1>3 DEF Before, Below
<1>6. Linear(S, below)
  <2>1. \A k \in S : index[k] \in Nat /\ k \in Nat
    BY <1>2, <1>3
  <2> QED
    BY <1>5, <2>1, RankLinear, Zenon
<1> PICK r : r = ByRank(S, below)
  OBVIOUS
<1>7. /\ n \in Nat /\ DOMAIN r = 1 .. n /\ r \in Injection(1 .. n, S)
      /\ \A j, k \in 1 .. n : j < k => r[j] \in below[r[k]]
  BY <1>4, <1>6, ByRankIs
<1>8. Group(cs, f) = [m \in 1 .. n |-> cs[r[m]].value]
  <2>1. Group(cs, f) =
            [m \in DOMAIN ByRank(PlacesOf(cs, f), Before(cs, f)) |->
                cs[ByRank(PlacesOf(cs, f), Before(cs, f))[m]].value]
    BY Zenon DEF Group, PlacesOf, Before
  <2> QED
    BY <1>7, <2>1
<1>9. ASSUME NEW j \in 1 .. n, NEW k \in 1 .. n, j < k
      PROVE  cs[r[j]].index <= cs[r[k]].index
  <2>1. r[j] \in S /\ r[k] \in S /\ r[j] \in below[r[k]]
    BY <1>7, <1>9 DEF Injection
  <2>2. /\ index[r[j]] = cs[r[j]].index /\ index[r[k]] = cs[r[k]].index
        /\ index[r[j]] \in Nat /\ index[r[k]] \in Nat
    BY <1>2, <1>3, <2>1
  <2>3. index[r[j]] < index[r[k]] \/ index[r[j]] = index[r[k]]
    <3>1. r[j] \in {i \in S : index[i] < index[r[k]] \/ (index[i] = index[r[k]] /\ i < r[k])}
      BY <1>5, <2>1 DEF Below
    <3> QED
      BY <3>1
  <2> QED
    BY <2>2, <2>3
<1>10. Sorts(cs, f, n, r)
  BY <1>7, <1>8, <1>9 DEF Sorts
<1> QED
  BY <1>3, <1>4, <1>7, <1>10

\* Claims of one field and index say the same.
Consistent(cs) ==
    \A j, k \in DOMAIN cs :
        cs[j].field = cs[k].field /\ cs[j].index = cs[k].index
            => cs[j].value = cs[k].value

AtMost == {xy \in Nat \X Nat : xy[1] <= xy[2]}

LEMMA AtMostOrders == Orders(AtMost, Nat)
<1>1. \A x, y \in Nat : <<x, y>> \in AtMost <=> x <= y
  BY DEF AtMost
<1> QED
  BY <1>1 DEF Orders

\* p names the n elements of S by ascending c.
Ascends(n, S, c, p) ==
    /\ n \in Nat /\ IsFiniteSet(S) /\ Cardinality(S) = n /\ c \in [S -> Nat]
    /\ p \in Injection(1 .. n, S) /\ \A j, k \in 1 .. n : j < k => c[p[j]] <= c[p[k]]

Alike(n, c, p, q) == \A i \in 1 .. n : c[p[i]] = c[q[i]]

LEMMA SortedByNumber ==
    ASSUME NEW S, NEW n, NEW c, NEW p, NEW q, Ascends(n, S, c, p), Ascends(n, S, c, q)
    PROVE  Alike(n, c, p, q)
<1>0. /\ n \in Nat /\ IsFiniteSet(S) /\ Cardinality(S) = n /\ c \in [S -> Nat]
      /\ p \in Injection(1 .. n, S) /\ q \in Injection(1 .. n, S)
  BY DEF Ascends
<1>1. \A i \in 1 .. n : c[p[i]] \in Nat /\ c[q[i]] \in Nat
  BY <1>0 DEF Injection
<1>2. InOrder(n, c, p, AtMost) /\ InOrder(n, c, q, AtMost)
  BY <1>1 DEF Ascends, InOrder, AtMost
<1> QED
  BY <1>0, <1>2, AtMostOrders, SortedAlike DEF Alike

LEMMA GroupAlike ==
    ASSUME NEW C, Indexed(C), NEW cs \in Seq(C), Consistent(cs),
           NEW read \in Arrangements(cs), NEW f
    PROVE  Group(read, f) = Group(cs, f)
<1> PICK n : n = Len(cs)
  OBVIOUS
<1>1. n \in Nat /\ DOMAIN cs = 1 .. n /\ \A k \in 1 .. n : cs[k].index \in Nat
  <2>1. \A k \in 1 .. Len(cs) : cs[k] \in C
    BY ElementOfSeq
  <2> QED
    BY <2>1, LenProperties DEF Indexed
<1>2. PICK q : Shuffle(q, n) /\ read = [k \in 1 .. n |-> cs[q[k]]]
  BY ArrangementIs
<1>3. read \in Seq(C) /\ DOMAIN read = 1 .. n
  BY <1>2, ArrangementIs
<1>4. /\ q \in [1 .. n -> 1 .. n] /\ \A j, k \in 1 .. n : q[j] = q[k] => j = k
      /\ \A k \in 1 .. n : \E m \in 1 .. n : q[m] = k
  BY <1>1, <1>2, ShuffleOnto
<1> PICK S : S = PlacesOf(cs, f)
  OBVIOUS
<1> PICK T : T = PlacesOf(read, f)
  OBVIOUS
<1>5. \A k \in 1 .. n : k \in T <=> q[k] \in S
  BY <1>1, <1>2, <1>3, <1>4 DEF PlacesOf
<1> PICK N : N = Cardinality(S)
  OBVIOUS
<1> PICK M : M = Cardinality(T)
  OBVIOUS
<1>6. N \in Nat /\ IsFiniteSet(S) /\ S \subseteq 1 .. n /\ \E r : Sorts(cs, f, N, r)
  BY GroupIs
<1>7. M \in Nat /\ IsFiniteSet(T) /\ \E r : Sorts(read, f, M, r)
  <2>1. read \in Seq(C)
    BY <1>3
  <2> QED
    BY <2>1, GroupIs
<1>8. T \subseteq 1 .. n
  BY <1>3 DEF PlacesOf
<1>9. M = N
  <2>1. [k \in T |-> q[k]] \in Bijection(T, S)
    <3>1. \A k \in S : \E m \in T : q[m] = k
      BY <1>4, <1>5, <1>6
    <3> QED
      BY <1>4, <1>5, <1>8, <3>1 DEF Bijection, Injection, IsInjective, Surjection
  <2>2. ExistsBijection(T, S)
    BY <2>1 DEF ExistsBijection
  <2> QED
    BY <1>7, <2>2, FS_Bijection
<1>10. PICK r : /\ r \in Injection(1 .. N, S)
                /\ Group(cs, f) = [m \in 1 .. N |-> cs[r[m]].value]
                /\ \A j, k \in 1 .. N : j < k => cs[r[j]].index <= cs[r[k]].index
  BY <1>6 DEF Sorts
<1>11. PICK g : /\ g \in Injection(1 .. N, T)
                /\ Group(read, f) = [m \in 1 .. N |-> read[g[m]].value]
                /\ \A j, k \in 1 .. N : j < k => read[g[j]].index <= read[g[k]].index
  BY <1>7, <1>9 DEF Sorts
<1> PICK c : c = [k \in S |-> cs[k].index]
  OBVIOUS
<1> PICK h : h = [m \in 1 .. N |-> q[g[m]]]
  OBVIOUS
<1>12. c \in [S -> Nat]
  BY <1>1, <1>6
<1>13. /\ g \in [1 .. N -> T] /\ \A j, k \in 1 .. N : g[j] = g[k] => j = k
       /\ r \in [1 .. N -> S]
  BY <1>10, <1>11 DEF Injection, IsInjective
<1>14. \A m \in 1 .. N : g[m] \in 1 .. n /\ h[m] = q[g[m]] /\ h[m] \in S /\ r[m] \in S
  BY <1>5, <1>8, <1>13
<1>15. h \in Injection(1 .. N, S)
  <2>1. h \in [1 .. N -> S]
    BY <1>14
  <2>2. \A j, k \in 1 .. N : h[j] = h[k] => j = k
    BY <1>4, <1>13, <1>14
  <2> QED
    BY <2>1, <2>2 DEF Injection, IsInjective
<1>16. \A m \in 1 .. N : read[g[m]] = cs[h[m]]
  BY <1>2, <1>14
<1>17. Ascends(N, S, c, r)
  BY <1>6, <1>10, <1>12, <1>14 DEF Ascends
<1>18. Ascends(N, S, c, h)
  BY <1>6, <1>11, <1>12, <1>14, <1>15, <1>16, ZenonT(30) DEF Ascends
<1>19. \A i \in 1 .. N : c[r[i]] = c[h[i]]
  <2>1. Alike(N, c, r, h)
    BY <1>17, <1>18, SortedByNumber
  <2> QED
    BY <2>1 DEF Alike
<1>20. ASSUME NEW m \in 1 .. N PROVE cs[r[m]].value = read[g[m]].value
  <2>1. /\ r[m] \in S /\ h[m] \in S /\ r[m] \in 1 .. n /\ h[m] \in 1 .. n
        /\ cs[r[m]].index = cs[h[m]].index
    BY <1>6, <1>14, <1>19
  <2>2. cs[r[m]].field = cs[h[m]].field
    BY <2>1 DEF PlacesOf
  <2>3. cs[r[m]].value = cs[h[m]].value
    <3>1. r[m] \in DOMAIN cs /\ h[m] \in DOMAIN cs
      BY <1>1, <2>1
    <3> QED
      BY <2>1, <2>2, <3>1, Zenon DEF Consistent
  <2>4. read[g[m]] = cs[h[m]]
    BY <1>16
  <2> QED
    BY <2>3, <2>4, Zenon
<1> QED
  BY <1>10, <1>11, <1>20

\* derive.go:107-161: an item is one view of its claims. ItemFromAssertions
\* makes the same fields of them in whatever order a corpus gives them back,
\* when claims of one field and index say the same.
THEOREM ItemIsAView ==
    ASSUME NEW C, Indexed(C), NEW cs \in Seq(C), Consistent(cs),
           NEW read \in Arrangements(cs)
    PROVE  ItemFromAssertions(read) = ItemFromAssertions(cs)
<1> PICK n : n = Len(cs)
  OBVIOUS
<1>1. n \in Nat /\ DOMAIN cs = 1 .. n
  BY LenProperties
<1>2. PICK q : Shuffle(q, n) /\ read = [k \in 1 .. n |-> cs[q[k]]]
  BY ArrangementIs
<1>3. q \in [1 .. n -> 1 .. n] /\ \A k \in 1 .. n : \E m \in 1 .. n : q[m] = k
  BY <1>1, <1>2, ShuffleOnto
<1>4. {read[k].field : k \in DOMAIN read} = {cs[k].field : k \in DOMAIN cs}
  BY <1>1, <1>2, <1>3
<1>5. \A f : Group(read, f) = Group(cs, f)
  BY GroupAlike
<1> QED
  BY <1>4, <1>5 DEF ItemFromAssertions

Pieces(seqs, i, f) ==
    f = [j \in 1 .. i |-> IF j = 1 THEN seqs[j] ELSE f[j - 1] \o seqs[j]]

LEMMA FlattenIs ==
    ASSUME NEW seqs, NEW n \in Nat, n # 0, Len(seqs) = n
    PROVE  \E f : Pieces(seqs, n, f) /\ FlattenSeq(seqs) = f[n]
<1> DEFINE T == {i \in 0 .. n : \E f : Pieces(seqs, i, f)}
<1>1. 0 \in T
  <2>1. PICK f : f = [j \in 1 .. 0 |-> <<>>]
    OBVIOUS
  <2>2. [j \in 1 .. 0 |-> IF j = 1 THEN seqs[j] ELSE f[j - 1] \o seqs[j]] = f
    BY <2>1
  <2>3. Pieces(seqs, 0, f)
    BY <2>2 DEF Pieces
  <2> QED
    BY <2>3
<1>2. ASSUME NEW i \in 0 .. n - 1, i \in T PROVE i + 1 \in T
  <2>1. PICK f : Pieces(seqs, i, f)
    BY <1>2
  <2>2. i \in Nat /\ i + 1 \in 0 .. n
    OBVIOUS
  <2>3. PICK g : g = [j \in 1 .. i + 1 |-> IF j <= i THEN f[j]
                          ELSE IF j = 1 THEN seqs[j] ELSE f[j - 1] \o seqs[j]]
    OBVIOUS
  <2>4. ASSUME NEW j \in 1 .. i + 1
        PROVE  g[j] = IF j = 1 THEN seqs[j] ELSE g[j - 1] \o seqs[j]
    <3>1. CASE j <= i
      <4>1. j \in 1 .. i /\ g[j] = f[j] /\ (j # 1 => j - 1 \in 1 .. i + 1 /\ j - 1 <= i)
        BY <2>2, <2>3, <3>1
      <4>2. f[j] = IF j = 1 THEN seqs[j] ELSE f[j - 1] \o seqs[j]
        BY <2>1, <4>1 DEF Pieces
      <4>3. j # 1 => g[j - 1] = f[j - 1]
        BY <2>3, <4>1
      <4> QED
        BY <4>1, <4>2, <4>3
    <3>2. CASE ~ (j <= i)
      <4>1. g[j] = IF j = 1 THEN seqs[j] ELSE f[j - 1] \o seqs[j]
        BY <2>3, <3>2
      <4>2. j # 1 => j - 1 \in 1 .. i + 1 /\ j - 1 <= i
        BY <2>2, <3>2
      <4>3. j # 1 => g[j - 1] = f[j - 1]
        BY <2>3, <4>2
      <4> QED
        BY <4>1, <4>3
    <3> QED
      BY <3>1, <3>2
  <2>5. g = [j \in 1 .. i + 1 |-> g[j]]
    BY <2>3
  <2>6. Pieces(seqs, i + 1, g)
    BY <2>4, <2>5 DEF Pieces
  <2> QED
    BY <2>2, <2>6
<1> HIDE DEF T
<1>3. \A i \in 0 .. n : i \in T
  BY <1>1, <1>2, StepByStep
<1>4. n \in T
  BY <1>3
<1> DEFINE F == CHOOSE f : Pieces(seqs, n, f)
<1>5. Pieces(seqs, n, F)
  BY <1>4, Zenon DEF T
<1>6. FlattenSeq(seqs) = F[n]
  BY Zenon DEF FlattenSeq, Pieces
<1> HIDE DEF F
<1> QED
  BY <1>5, <1>6


LEMMA FlattenedIn ==
    ASSUME NEW C, NEW n \in Nat, NEW seqs \in [1 .. n -> Seq(C)]
    PROVE  FlattenSeq(seqs) \in Seq(C)
<1>1. Len(seqs) = n
  <2>1. seqs \in Seq(Seq(C))
    OBVIOUS
  <2> QED
    BY <2>1
<1>2. CASE n = 0
  <2>1. FlattenSeq(seqs) = seqs
    BY <1>1, <1>2 DEF FlattenSeq
  <2>2. seqs = <<>>
    BY <1>2
  <2> QED
    BY <2>1, <2>2
<1>3. CASE n # 0
  <2>1. PICK f : Pieces(seqs, n, f) /\ FlattenSeq(seqs) = f[n]
    BY <1>1, <1>3, FlattenIs
  <2>2. \A i \in 1 .. n : f[i] = IF i = 1 THEN seqs[i] ELSE f[i - 1] \o seqs[i]
    BY <2>1 DEF Pieces
  <2> DEFINE T == {i \in 0 .. n : i # 0 => f[i] \in Seq(C)}
  <2>3. 0 \in T
    OBVIOUS
  <2>4. ASSUME NEW i \in 0 .. (n - 1), i \in T PROVE i + 1 \in T
    <3>1. i + 1 \in 1 .. n /\ i + 1 \in 0 .. n /\ seqs[i + 1] \in Seq(C)
      OBVIOUS
    <3>2. f[i + 1] = IF i + 1 = 1 THEN seqs[i + 1] ELSE f[(i + 1) - 1] \o seqs[i + 1]
      BY <2>2, <3>1, Zenon
    <3>3. CASE i = 0
      BY <3>1, <3>2, <3>3
    <3>4. CASE i # 0
      <4>1. f[i] \in Seq(C) /\ (i + 1) - 1 = i /\ i + 1 # 1
        BY <2>4, <3>4
      <4>2. f[i + 1] = f[i] \o seqs[i + 1]
        BY <3>2, <4>1
      <4>3. f[i] \o seqs[i + 1] \in Seq(C)
        BY <3>1, <4>1, ConcatProperties
      <4> QED
        BY <3>1, <4>2, <4>3
    <3> QED
      BY <3>3, <3>4
  <2>5. \A i \in 0 .. n : i \in T
    <3> HIDE DEF T
    <3> QED
      BY <2>3, <2>4, StepByStep
  <2>6. f[n] \in Seq(C)
    BY <1>3, <2>5
  <2> QED
    BY <2>1, <2>6
<1> QED
  BY <1>2, <1>3

\* A field that a later method names.
Shadowed(cs, c) ==
    \E n \in DOMAIN cs :
        /\ cs[n].field = c.field /\ cs[n].method # c.method
        /\ \A m \in (n + 1)..Len(cs) : cs[m].field # c.field

\* No two of K name a field by different methods.
OneMethod(K) == \A c, d \in K : c.field = d.field => c.method = d.method

LEMMA DropShadowedIs ==
    ASSUME NEW C, NEW cs \in Seq(C)
    PROVE  \E K \in SUBSET C : DropShadowed(cs) \in Seq(K) /\ OneMethod(K)
<1> PICK n : n = Len(cs)
  OBVIOUS
<1>1. n \in Nat /\ DOMAIN cs = 1 .. n
  BY LenProperties
<1>2. \A k \in 1 .. n : cs[k] \in C
  BY ElementOfSeq
<1> DEFINE K == {c \in C : (\E k \in 1 .. n : c = cs[k]) /\ ~ Shadowed(cs, c)}
<1> DEFINE left == [k \in 1 .. n |-> IF Shadowed(cs, cs[k]) THEN <<>> ELSE <<cs[k]>>]
<1>3. DropShadowed(cs) = FlattenSeq(left)
  <2>1. DropShadowed(cs) =
            FlattenSeq([k \in DOMAIN cs |-> IF Shadowed(cs, cs[k]) THEN <<>> ELSE <<cs[k]>>])
    BY Zenon DEF DropShadowed, Shadowed
  <2> QED
    BY <1>1, <2>1
<1>4. ASSUME NEW k \in 1 .. n PROVE left[k] \in Seq(K)
  <2>1. CASE Shadowed(cs, cs[k])
    BY <2>1
  <2>2. CASE ~ Shadowed(cs, cs[k])
    <3>1. cs[k] \in K
      BY <1>2, <2>2
    <3>2. left[k] = <<cs[k]>>
      BY <2>2
    <3> HIDE DEF K, left
    <3> QED
      BY <3>1, <3>2
  <2> QED
    BY <2>1, <2>2
<1>5. left \in [1 .. n -> Seq(K)]
  BY <1>4
<1>6. FlattenSeq(left) \in Seq(K)
  <2> HIDE DEF K, left
  <2> QED
    BY <1>1, <1>5, FlattenedIn
<1>7. ASSUME NEW c \in K, NEW d \in K, c.field = d.field PROVE c.method = d.method
  <2> PICK places : places = {k \in 1 .. n : cs[k].field = c.field}
    OBVIOUS
  <2>1. places \subseteq 1 .. n /\ places # {}
    <3>1. PICK k \in 1 .. n : c = cs[k]
      OBVIOUS
    <3> QED
      BY <3>1
  <2>2. PICK m \in places : \A k \in places : m >= k
    BY <1>1, <2>1, LastPlace
  <2>3. m \in DOMAIN cs /\ m \in Nat /\ cs[m].field = c.field
    BY <1>1, <2>1
  <2>4. \A k \in (m + 1) .. Len(cs) : cs[k].field # c.field
    <3> SUFFICES ASSUME NEW k \in (m + 1) .. n, cs[k].field = c.field PROVE FALSE
      OBVIOUS
    <3>1. k \in 1 .. n /\ ~ (m >= k)
      BY <1>1, <2>3
    <3> QED
      BY <2>2, <3>1
  <2>5. ~ Shadowed(cs, c) /\ ~ Shadowed(cs, d)
    OBVIOUS
  <2>6. cs[m].method = c.method
    BY <2>3, <2>4, <2>5, Zenon DEF Shadowed
  <2>7. cs[m].method = d.method
    BY <1>7, <2>3, <2>4, <2>5, Zenon DEF Shadowed
  <2> QED
    BY <2>6, <2>7
<1>8. OneMethod(K)
  BY <1>7 DEF OneMethod
<1>9. K \in SUBSET C
  OBVIOUS
<1> QED
  BY <1>3, <1>6, <1>8, <1>9

-----------------------------------------------------------------------------
(* The claims a page is given by rules, and by itself.                      *)
ClaimsBy(r) == {ValueAssertions(r)[k] : k \in DOMAIN Match[r]}
RuleClaims == UNION {ClaimsBy(r) : r \in DOMAIN Match}
PageClaims(pg) == {StructuredAssertions(pg)[k] : k \in DOMAIN StructuredAssertions(pg)}

LEMMA RuleClaimIs ==
    ASSUME NEW c \in RuleClaims
    PROVE  \E r \in DOMAIN Match : \E k \in 1 .. Len(Match[r]) :
               /\ c.field = r.name /\ c.method = Method(r) /\ c.index = k - 1
               /\ c.value = [kind |-> "text", parts |-> <<Match[r][k]>>]
<1>1. PICK r \in DOMAIN Match : \E k \in DOMAIN Match[r] : c = ValueAssertions(r)[k]
  BY DEF RuleClaims, ClaimsBy
<1>2. PICK k \in DOMAIN Match[r] : c = ValueAssertions(r)[k]
  BY <1>1
<1>3. k \in 1 .. Len(Match[r])
  <2>1. Match[r] \in Seq(Nat)
    BY OutputAssumption
  <2> QED
    BY <1>2, <2>1, LenProperties
<1>4. c = [field |-> r.name, method |-> Method(r), index |-> k - 1,
           value |-> [kind |-> "text", parts |-> <<Match[r][k]>>]]
  BY <1>2 DEF ValueAssertions
<1> QED
  BY <1>3, <1>4

LEMMA ValueAssertionsIn ==
    ASSUME NEW r \in DOMAIN Match
    PROVE  ValueAssertions(r) \in Seq(RuleClaims)
<1>1. Match[r] \in Seq(Nat)
  BY OutputAssumption
<1> PICK n : n = Len(Match[r])
  OBVIOUS
<1>2. n \in Nat /\ DOMAIN Match[r] = 1 .. n
  BY <1>1, LenProperties
<1> PICK s : s = ValueAssertions(r)
  OBVIOUS
<1>3. s = [k \in 1 .. n |-> [field |-> r.name, method |-> Method(r), index |-> k - 1,
                            value |-> [kind |-> "text", parts |-> <<Match[r][k]>>]]]
  BY <1>2 DEF ValueAssertions
<1>4. \A k \in 1 .. n : s[k] \in RuleClaims
  <2>1. \A k \in DOMAIN Match[r] : ValueAssertions(r)[k] \in RuleClaims
    <3>1. ClaimsBy(r) \subseteq RuleClaims
      BY DEF RuleClaims
    <3> QED
      BY <3>1 DEF ClaimsBy
  <2> QED
    BY <1>2, <2>1
<1>5. s \in [1 .. n -> RuleClaims]
  <2>1. DOMAIN s = 1 .. n /\ s = [k \in 1 .. n |-> s[k]]
    BY <1>3
  <2> QED
    BY <1>4, <2>1
<1> QED
  BY <1>2, <1>5

\* The blocks of a page that are the last of their field, in the order of fields.
LastBlocks(blocks) ==
    {k \in DOMAIN blocks : \A j \in DOMAIN blocks : blocks[j].field = blocks[k].field => j <= k}
BlocksBelow(blocks) ==
    [k \in LastBlocks(blocks) |-> {j \in LastBlocks(blocks) : blocks[j].field < blocks[k].field}]
BlockClaim(blocks, k) ==
    [field |-> blocks[k].field, method |-> <<"structured", blocks[k].field>>, index |-> 0,
     value |-> [kind |-> "object", parts |-> blocks[k].data]]

LEMMA BlocksAre ==
    ASSUME NEW pg \in DOMAIN Structured
    PROVE  Structured[pg] \in Seq([field : Nat, data : Seq(Nat)])
<1> PICK S : S = [field : Name, data : Seq(Nat)]
  OBVIOUS
<1> PICK T : T = [field : Nat, data : Seq(Nat)]
  OBVIOUS
<1>1. Structured[pg] \in Seq(S)
  BY OutputAssumption
<1>2. S \subseteq T
  BY OutputAssumption
<1> QED
  BY <1>1, <1>2, SeqMonotonic

LEMMA StructuredIs ==
    ASSUME NEW pg \in DOMAIN Structured
    PROVE  \E n \in Nat : \E r \in [1 .. n -> LastBlocks(Structured[pg])] :
               StructuredAssertions(pg) = [m \in 1 .. n |-> BlockClaim(Structured[pg], r[m])]
<1> PICK blocks : blocks = Structured[pg]
  OBVIOUS
<1> PICK S : S = LastBlocks(blocks)
  OBVIOUS
<1> PICK below : below = BlocksBelow(blocks)
  OBVIOUS
<1>1. blocks \in Seq([field : Nat, data : Seq(Nat)])
  BY BlocksAre
<1> PICK l : l = Len(blocks)
  OBVIOUS
<1>2. l \in Nat /\ DOMAIN blocks = 1 .. l
  BY <1>1, LenProperties
<1>3. \A k \in 1 .. l : blocks[k].field \in Nat
  <2>1. \A k \in 1 .. l : blocks[k] \in [field : Nat, data : Seq(Nat)]
    BY <1>1, ElementOfSeq
  <2> QED
    BY <2>1
<1>4. S \subseteq 1 .. l /\ \A j, k \in S : blocks[j].field = blocks[k].field => j = k
  <2>1. S \subseteq 1 .. l
    BY <1>2 DEF LastBlocks
  <2>2. ASSUME NEW j \in S, NEW k \in S, blocks[j].field = blocks[k].field PROVE j = k
    <3>1. j \in DOMAIN blocks /\ k \in DOMAIN blocks
      BY <1>2, <2>1
    <3>2. j <= k /\ k <= j
      BY <2>2, <3>1 DEF LastBlocks
    <3>3. j \in Nat /\ k \in Nat
      BY <2>1
    <3> QED
      BY <3>2, <3>3
  <2> QED
    BY <2>1, <2>2
<1>5. IsFiniteSet(S)
  <2>1. IsFiniteSet(1 .. l)
    BY <1>2, SizeUpTo
  <2> QED
    BY <1>4, <2>1, FS_Subset
<1>6. Linear(S, below)
  <2> PICK index : index = [k \in S |-> blocks[k].field]
    OBVIOUS
  <2>1. \A k \in S : index[k] \in Nat /\ k \in Nat
    BY <1>3, <1>4
  <2>2. \A j, k \in S : index[j] = index[k] => j = k
    BY <1>4
  <2>3. ASSUME NEW k \in S
        PROVE  {j \in S : blocks[j].field < blocks[k].field}
               = {j \in S : index[j] < index[k] \/ (index[j] = index[k] /\ j < k)}
    <3>1. ASSUME NEW j \in S
          PROVE  index[j] = blocks[j].field /\ ~ (index[j] = index[k] /\ j < k)
      BY <2>1, <2>2
    <3>2. index[k] = blocks[k].field
      OBVIOUS
    <3> QED
      BY <3>1, <3>2
  <2>4. below = Below(S, index)
    BY <2>3 DEF BlocksBelow, Below
  <2> QED
    BY <2>1, <2>4, RankLinear, Zenon
<1> PICK n : n = Cardinality(S)
  OBVIOUS
<1> PICK r : r = ByRank(S, below)
  OBVIOUS
<1>7. n \in Nat /\ DOMAIN r = 1 .. n /\ r \in Injection(1 .. n, S)
  BY <1>5, <1>6, ByRankIs
<1>8. r \in [1 .. n -> S]
  BY <1>7 DEF Injection
<1>9. StructuredAssertions(pg) = [m \in DOMAIN r |-> BlockClaim(blocks, r[m])]
  <2>1. StructuredAssertions(pg) =
            [m \in DOMAIN ByRank(LastBlocks(Structured[pg]), BlocksBelow(Structured[pg])) |->
               BlockClaim(Structured[pg],
                          ByRank(LastBlocks(Structured[pg]), BlocksBelow(Structured[pg]))[m])]
    BY Zenon DEF StructuredAssertions, LastBlocks, BlocksBelow, BlockClaim
  <2> QED
    BY <2>1
<1> QED
  BY <1>7, <1>8, <1>9

LEMMA PageClaimIs ==
    ASSUME NEW pg \in DOMAIN Structured
    PROVE  /\ StructuredAssertions(pg) \in Seq(PageClaims(pg))
           /\ \A c \in PageClaims(pg) : c.method[1] = "structured" /\ c.index = 0
           /\ \A c, d \in PageClaims(pg) : c.field = d.field => c.value = d.value
<1> PICK blocks : blocks = Structured[pg]
  OBVIOUS
<1> PICK S : S = LastBlocks(blocks)
  OBVIOUS
<1>0. PICK n \in Nat : \E r \in [1 .. n -> S] :
          StructuredAssertions(pg) = [m \in 1 .. n |-> BlockClaim(blocks, r[m])]
  BY StructuredIs
<1>1. PICK r \in [1 .. n -> S] :
          StructuredAssertions(pg) = [m \in 1 .. n |-> BlockClaim(blocks, r[m])]
  BY <1>0
<1> PICK sa : sa = StructuredAssertions(pg)
  OBVIOUS
<1>2. sa = [m \in 1 .. n |-> BlockClaim(blocks, r[m])] /\ DOMAIN sa = 1 .. n
  BY <1>1
<1>3. PageClaims(pg) = {sa[m] : m \in 1 .. n}
  BY <1>2, Zenon DEF PageClaims
<1>4. \A c \in PageClaims(pg) : \E k \in S : c = BlockClaim(blocks, k)
  BY <1>2, <1>3
<1>5. StructuredAssertions(pg) \in Seq(PageClaims(pg))
  <2>1. sa \in [1 .. n -> PageClaims(pg)]
    BY <1>2, <1>3
  <2> QED
    BY <2>1
<1>6. \A c \in PageClaims(pg) : c.method[1] = "structured" /\ c.index = 0
  BY <1>4 DEF BlockClaim
<1>7. ASSUME NEW c \in PageClaims(pg), NEW d \in PageClaims(pg), c.field = d.field
      PROVE  c.value = d.value
  <2>1. PICK j \in S : c = BlockClaim(blocks, j)
    BY <1>4
  <2>2. PICK k \in S : d = BlockClaim(blocks, k)
    BY <1>4
  <2>3. blocks[j].field = blocks[k].field
    BY <1>7, <2>1, <2>2 DEF BlockClaim
  <2>4. blocks \in Seq([field : Nat, data : Seq(Nat)])
    BY BlocksAre
  <2>5. DOMAIN blocks = 1 .. Len(blocks) /\ Len(blocks) \in Nat
    BY <2>4, LenProperties
  <2>6. j \in DOMAIN blocks /\ k \in DOMAIN blocks /\ j <= k /\ k <= j
    BY <2>3 DEF LastBlocks
  <2>7. j = k
    BY <2>5, <2>6
  <2> QED
    BY <2>1, <2>2, <2>7
<1> QED
  BY <1>5, <1>6, <1>7

\* Claims of one field, method and index say the same.
Agree(C) ==
    \A c, d \in C : c.field = d.field /\ c.method = d.method /\ c.index = d.index => c.value = d.value

LEMMA ClaimsAgree ==
    ASSUME MethodsTellRules, NEW pg \in DOMAIN Structured
    PROVE  LET C == RuleClaims \cup PageClaims(pg)
           IN Indexed(C) /\ Agree(C)
<1> PICK C : C = RuleClaims \cup PageClaims(pg)
  OBVIOUS
<1>1. \A c \in RuleClaims : c.index \in Nat /\ c.method[1] # "structured"
  <2>1. ASSUME NEW c \in RuleClaims PROVE c.index \in Nat /\ c.method[1] # "structured"
    <3>1. PICK r \in DOMAIN Match : \E k \in 1 .. Len(Match[r]) :
                 c.method = Method(r) /\ c.index = k - 1
      BY RuleClaimIs
    <3>2. c.method[1] = IF r.type \in {"regex", "xpath"} THEN r.type ELSE "css"
      BY <3>1 DEF Method
    <3>3. c.method[1] # "structured"
      BY <3>2
    <3> QED
      BY <3>1, <3>3
  <2> QED
    BY <2>1
<1>2. \A c \in PageClaims(pg) : c.method[1] = "structured" /\ c.index = 0
  BY PageClaimIs
<1>3. \A c, d \in PageClaims(pg) : c.field = d.field => c.value = d.value
  BY PageClaimIs
<1>4. Indexed(C)
  BY <1>1, <1>2 DEF Indexed
<1>5. ASSUME NEW c \in C, NEW d \in C, c.field = d.field, c.method = d.method, c.index = d.index
      PROVE  c.value = d.value
  <2>1. CASE c \in RuleClaims /\ d \in RuleClaims
    <3>1. PICK r \in DOMAIN Match : \E k \in 1 .. Len(Match[r]) :
                 /\ c.field = r.name /\ c.method = Method(r) /\ c.index = k - 1
                 /\ c.value = [kind |-> "text", parts |-> <<Match[r][k]>>]
      BY <2>1, RuleClaimIs
    <3>2. PICK q \in DOMAIN Match : \E k \in 1 .. Len(Match[q]) :
                 /\ d.field = q.name /\ d.method = Method(q) /\ d.index = k - 1
                 /\ d.value = [kind |-> "text", parts |-> <<Match[q][k]>>]
      BY <2>1, RuleClaimIs
    <3>3. Match[r] = Match[q]
      BY <1>5, <3>1, <3>2, ZenonT(30) DEF MethodsTellRules
    <3>4. PICK j \in 1 .. Len(Match[r]) :
                 c.index = j - 1 /\ c.value = [kind |-> "text", parts |-> <<Match[r][j]>>]
      BY <3>1
    <3>5. PICK k \in 1 .. Len(Match[q]) :
                 d.index = k - 1 /\ d.value = [kind |-> "text", parts |-> <<Match[q][k]>>]
      BY <3>2
    <3>6. j = k
      <4>1. Match[r] \in Seq(Nat) /\ Match[q] \in Seq(Nat)
        BY OutputAssumption
      <4>2. Len(Match[r]) \in Nat /\ Len(Match[q]) \in Nat
        BY <4>1, LenProperties
      <4>3. j \in Nat /\ k \in Nat
        BY <4>2
      <4>4. j - 1 = k - 1
        BY <1>5, <3>4, <3>5
      <4> QED
        BY <4>3, <4>4
    <3> QED
      BY <3>3, <3>4, <3>5, <3>6
  <2>2. CASE c \in PageClaims(pg) /\ d \in PageClaims(pg)
    BY <1>3, <1>5, <2>2
  <2>3. CASE c \in RuleClaims /\ d \in PageClaims(pg)
    BY <1>1, <1>2, <1>5, <2>3
  <2>4. CASE c \in PageClaims(pg) /\ d \in RuleClaims
    BY <1>1, <1>2, <1>5, <2>4
  <2> QED
    BY <2>1, <2>2, <2>3, <2>4
<1>6. Agree(C)
  BY <1>5 DEF Agree
<1> QED
  BY <1>4, <1>6

RulesOfType(rules, type) ==
    FlattenSeq([n \in DOMAIN rules |->
        IF Method(rules[n])[1] = type THEN ValueAssertions(rules[n]) ELSE <<>>])

LEMMA RulesOfTypeIn ==
    ASSUME NEW rules \in Seq(DOMAIN Match), NEW type
    PROVE  RulesOfType(rules, type) \in Seq(RuleClaims)
<1> PICK n : n = Len(rules)
  OBVIOUS
<1>1. n \in Nat /\ DOMAIN rules = 1 .. n
  BY LenProperties
<1>2. \A k \in 1 .. n : rules[k] \in DOMAIN Match
  BY ElementOfSeq
<1> PICK seqs : seqs = [k \in 1 .. n |->
                 IF Method(rules[k])[1] = type THEN ValueAssertions(rules[k]) ELSE <<>>]
  OBVIOUS
<1>3. ASSUME NEW k \in 1 .. n PROVE seqs[k] \in Seq(RuleClaims)
  <2>1. ValueAssertions(rules[k]) \in Seq(RuleClaims)
    BY <1>2, ValueAssertionsIn
  <2> QED
    BY <2>1
<1>4. seqs \in [1 .. n -> Seq(RuleClaims)]
  BY <1>3
<1>5. FlattenSeq(seqs) \in Seq(RuleClaims)
  BY <1>1, <1>4, FlattenedIn
<1> QED
  BY <1>1, <1>5 DEF RulesOfType

\* What a page says, and how its claims stand to each other.
LEMMA DerivedIs ==
    ASSUME MethodsTellRules, NEW pg \in DOMAIN Structured, NEW rules \in Seq(DOMAIN Match)
    PROVE  \E C : /\ Indexed(C) /\ Derive(pg, rules) \in Seq(C)
                  /\ Consistent(Derive(pg, rules))
<1> PICK C : C = RuleClaims \cup PageClaims(pg)
  OBVIOUS
<1>1. Indexed(C) /\ Agree(C)
  BY ClaimsAgree
<1> PICK all : all = RulesOfType(rules, "css") \o RulesOfType(rules, "regex")
                     \o RulesOfType(rules, "xpath") \o StructuredAssertions(pg)
  OBVIOUS
<1>2. all \in Seq(C)
  <2>1. /\ RulesOfType(rules, "css") \in Seq(RuleClaims)
        /\ RulesOfType(rules, "regex") \in Seq(RuleClaims)
        /\ RulesOfType(rules, "xpath") \in Seq(RuleClaims)
    BY RulesOfTypeIn
  <2>2. StructuredAssertions(pg) \in Seq(PageClaims(pg))
    BY PageClaimIs
  <2>3. Seq(RuleClaims) \subseteq Seq(C) /\ Seq(PageClaims(pg)) \subseteq Seq(C)
    OBVIOUS
  <2>4. \A s, t \in Seq(C) : s \o t \in Seq(C)
    BY ConcatProperties
  <2> QED
    BY <2>1, <2>2, <2>3, <2>4
<1>3. Derive(pg, rules) = DropShadowed(all)
  BY Zenon DEF Derive, RulesOfType
<1>4. PICK K \in SUBSET C : DropShadowed(all) \in Seq(K) /\ OneMethod(K)
  BY <1>2, DropShadowedIs
<1>5. Indexed(K)
  BY <1>1 DEF Indexed
<1> PICK cs : cs = Derive(pg, rules)
  OBVIOUS
<1>6. cs \in Seq(K) /\ Derive(pg, rules) \in Seq(K)
  BY <1>3, <1>4
<1>7. ASSUME NEW j \in DOMAIN cs, NEW k \in DOMAIN cs,
             cs[j].field = cs[k].field, cs[j].index = cs[k].index
      PROVE  cs[j].value = cs[k].value
  <2>1. DOMAIN cs = 1 .. Len(cs)
    BY <1>6, LenProperties
  <2>2. cs[j] \in K /\ cs[k] \in K
    BY <1>6, <2>1, ElementOfSeq
  <2>3. cs[j].method = cs[k].method
    BY <1>4, <1>7, <2>2 DEF OneMethod
  <2>4. cs[j] \in C /\ cs[k] \in C
    BY <2>2
  <2> QED
    BY <1>1, <1>7, <2>3, <2>4 DEF Agree
<1>8. Consistent(Derive(pg, rules))
  BY <1>7 DEF Consistent
<1> QED
  BY <1>5, <1>6, <1>8

\* An item from a parser is the view of its claims, in whatever order.
LEMMA ProducedViews ==
    ASSUME MethodsTellRules, NEW i \in Produced, i.claims # <<>>, NEW read \in Arrangements(i.claims)
    PROVE  ItemFromAssertions(read) = i.fields
<1>1. CASE \E fields \in Fields, time \in Nat, url \in Nat, spider \in Nat :
               i = CallbackItem(fields, time, url, spider)
  BY <1>1 DEF CallbackItem
<1>2. CASE \E pg \in DOMAIN Structured, rules \in Seq(DOMAIN Match), time \in Nat, url \in Nat :
               i = ParserItem(pg, rules, time, url)
  <2>1. PICK pg \in DOMAIN Structured, rules \in Seq(DOMAIN Match), time \in Nat, url \in Nat :
               i = ParserItem(pg, rules, time, url)
    BY <1>2
  <2> PICK cs : cs = Derive(pg, rules)
    OBVIOUS
  <2>2. i.claims = cs /\ i.fields = ItemFromAssertions(cs)
    BY <2>1 DEF ParserItem
  <2>3. PICK C : Indexed(C) /\ cs \in Seq(C) /\ Consistent(cs)
    BY DerivedIs
  <2>4. read \in Arrangements(cs)
    BY <2>2
  <2>5. ItemFromAssertions(read) = ItemFromAssertions(cs)
    BY <2>3, <2>4, ItemIsAView
  <2> QED
    BY <2>2, <2>5
<1> QED
  BY <1>1, <1>2 DEF Produced

-----------------------------------------------------------------------------
(* The order of keys.                                                       *)
LEMMA BeginningIs ==
    ASSUME NEW S, NEW s \in Seq(S), NEW n \in 0 .. Len(s)
    PROVE  /\ SubSeq(s, 1, n) \in Seq(S) /\ Len(SubSeq(s, 1, n)) = n
           /\ \A k \in 1 .. n : SubSeq(s, 1, n)[k] = s[k]
<1>1. Len(s) \in Nat /\ n \in Nat
  BY LenProperties
<1>2. \A k \in 1 .. n : s[k] \in S
  BY <1>1, ElementOfSeq
<1>3. 1 \in Int /\ n \in Int
  BY <1>1
<1>4. /\ SubSeq(s, 1, n) \in Seq(S)
      /\ Len(SubSeq(s, 1, n)) = IF 1 <= n THEN n - 1 + 1 ELSE 0
      /\ \A k \in 1 .. n - 1 + 1 : SubSeq(s, 1, n)[k] = s[1 + k - 1]
  BY <1>2, <1>3, SubSeqProperties
<1>5. \A k \in 1 .. n : k \in 1 .. n - 1 + 1 /\ 1 + k - 1 = k
  BY <1>1
<1> QED
  BY <1>1, <1>4, <1>5

LEMMA PrefixIs ==
    ASSUME NEW S, NEW s \in Seq(S), NEW t \in Seq(S)
    PROVE  IsPrefix(s, t) <=> Len(s) <= Len(t) /\ \A k \in 1 .. Len(s) : s[k] = t[k]
<1> PICK n : n = Len(s)
  OBVIOUS
<1>1. n \in Nat /\ Len(t) \in Nat
  BY LenProperties
<1>2. CASE n <= Len(t)
  <2>1. n \in 0 .. Len(s) /\ n \in 0 .. Len(t)
    BY <1>1, <1>2
  <2> PICK a : a = SubSeq(s, 1, n)
    OBVIOUS
  <2> PICK b : b = SubSeq(t, 1, n)
    OBVIOUS
  <2>2. a \in Seq(S) /\ Len(a) = n /\ \A k \in 1 .. n : a[k] = s[k]
    BY <2>1, BeginningIs
  <2>3. b \in Seq(S) /\ Len(b) = n /\ \A k \in 1 .. n : b[k] = t[k]
    BY <2>1, BeginningIs
  <2>4. (\A k \in 1 .. n : a[k] = b[k]) => a = b
    BY <2>2, <2>3, SeqEqual
  <2>5. a = b <=> \A k \in 1 .. n : s[k] = t[k]
    BY <2>2, <2>3, <2>4
  <2>6. IsPrefix(s, t) <=> a = b
    BY <1>2 DEF IsPrefix
  <2> QED
    BY <1>2, <2>5, <2>6
<1>3. CASE ~ (n <= Len(t))
  BY <1>3 DEF IsPrefix
<1> QED
  BY <1>2, <1>3

\* a and b differ at n for the first time.
DifferAt(a, b, n) ==
    /\ n \in 1 .. Len(a) /\ n \in 1 .. Len(b) /\ a[n] # b[n]
    /\ \A m \in 1 .. (n - 1) : a[m] = b[m]

Keyed == Seq(Nat)

LEMMA NotAfterIs ==
    ASSUME NEW a \in Keyed, NEW b \in Keyed
    PROVE  /\ Len(a) \in Nat /\ Len(b) \in Nat
           /\ \A k \in 1 .. Len(a) : a[k] \in Nat
           /\ NotAfter(a, b) <=>
                  \/ Len(a) <= Len(b) /\ \A k \in 1 .. Len(a) : a[k] = b[k]
                  \/ \E n \in Nat : DifferAt(a, b, n) /\ a[n] < b[n]
<1>1. a \in Seq(Nat) /\ b \in Seq(Nat)
  BY DEF Keyed
<1>2. Len(a) \in Nat /\ Len(b) \in Nat
  BY <1>1, LenProperties
<1>3. \A k \in 1 .. Len(a) : a[k] \in Nat
  BY <1>1, ElementOfSeq
<1>4. \A k \in 1 .. Len(b) : b[k] \in Nat
  BY <1>1, ElementOfSeq
<1>5. IsPrefix(a, b) <=> Len(a) <= Len(b) /\ \A k \in 1 .. Len(a) : a[k] = b[k]
  BY <1>1, PrefixIs
<1>6. (\E n \in 1 .. Len(a) : n <= Len(b) /\ a[n] < b[n] /\ \A m \in 1 .. (n - 1) : a[m] = b[m])
      <=> \E n \in Nat : DifferAt(a, b, n) /\ a[n] < b[n]
  <2>1. ASSUME NEW n \in 1 .. Len(a), n <= Len(b), a[n] < b[n],
               \A m \in 1 .. (n - 1) : a[m] = b[m]
        PROVE  n \in Nat /\ DifferAt(a, b, n)
    <3>1. n \in Nat /\ n \in 1 .. Len(b)
      BY <1>2, <2>1
    <3>2. a[n] # b[n]
      BY <1>3, <1>4, <2>1, <3>1
    <3> QED
      BY <2>1, <3>1, <3>2 DEF DifferAt
  <2>2. ASSUME NEW n \in Nat, DifferAt(a, b, n)
        PROVE  n \in 1 .. Len(a) /\ n <= Len(b) /\ \A m \in 1 .. (n - 1) : a[m] = b[m]
    BY <1>2, <2>2 DEF DifferAt
  <2> QED
    BY <2>1, <2>2
<1> QED
  BY <1>2, <1>3, <1>5, <1>6 DEF NotAfter

LEMMA FirstDifference ==
    ASSUME NEW a \in Keyed, NEW b \in Keyed
    PROVE  \/ \E n \in Nat : DifferAt(a, b, n) /\ (a[n] < b[n] \/ b[n] < a[n])
           \/ \A k \in 1 .. Len(a) : k \in 1 .. Len(b) => a[k] = b[k]
<1>1. Len(a) \in Nat /\ Len(b) \in Nat
  BY NotAfterIs
<1> PICK T : T = {k \in 1 .. Len(a) : k \in 1 .. Len(b) /\ a[k] # b[k]}
  OBVIOUS
<1>2. CASE T = {}
  BY <1>2
<1>3. CASE T # {}
  <2>1. T \subseteq Nat
    BY <1>1
  <2>2. PICK n \in T : \A m \in T : n <= m
    BY <1>3, <2>1, Least
  <2>3. n \in Nat /\ n \in 1 .. Len(a) /\ n \in 1 .. Len(b) /\ a[n] # b[n]
    BY <2>1
  <2>4. ASSUME NEW m \in 1 .. (n - 1) PROVE a[m] = b[m]
    <3>1. m \in 1 .. Len(a) /\ m \in 1 .. Len(b) /\ ~ (n <= m)
      BY <1>1, <2>3
    <3> QED
      BY <2>2, <3>1
  <2>5. DifferAt(a, b, n)
    BY <2>3, <2>4 DEF DifferAt
  <2>6. a[n] \in Nat /\ b[n] \in Nat
    <3>1. \A k \in 1 .. Len(a) : a[k] \in Nat
      BY NotAfterIs
    <3>2. \A k \in 1 .. Len(b) : b[k] \in Nat
      BY NotAfterIs
    <3> QED
      BY <2>3, <3>1, <3>2
  <2>7. a[n] < b[n] \/ b[n] < a[n]
    BY <2>3, <2>6
  <2> QED
    BY <2>3, <2>5, <2>7
<1> QED
  BY <1>2, <1>3

LEMMA NotAfterTotal ==
    ASSUME NEW a \in Keyed, NEW b \in Keyed
    PROVE  NotAfter(a, b) \/ NotAfter(b, a)
<1>1. Len(a) \in Nat /\ Len(b) \in Nat
  BY NotAfterIs
<1>2. CASE \E n \in Nat : DifferAt(a, b, n) /\ (a[n] < b[n] \/ b[n] < a[n])
  <2>1. PICK n \in Nat : DifferAt(a, b, n) /\ (a[n] < b[n] \/ b[n] < a[n])
    BY <1>2
  <2>2. DifferAt(b, a, n)
    BY <2>1 DEF DifferAt
  <2>3. a[n] < b[n] => NotAfter(a, b)
    BY <2>1, NotAfterIs
  <2>4. b[n] < a[n] => NotAfter(b, a)
    BY <2>2, NotAfterIs
  <2> QED
    BY <2>1, <2>3, <2>4
<1>3. CASE \A k \in 1 .. Len(a) : k \in 1 .. Len(b) => a[k] = b[k]
  <2>1. Len(a) <= Len(b) => NotAfter(a, b)
    <3>1. Len(a) <= Len(b) => \A k \in 1 .. Len(a) : k \in 1 .. Len(b)
      BY <1>1
    <3> QED
      BY <1>3, <3>1, NotAfterIs
  <2>2. Len(b) <= Len(a) => NotAfter(b, a)
    <3>1. Len(b) <= Len(a) => \A k \in 1 .. Len(b) : k \in 1 .. Len(a)
      BY <1>1
    <3> QED
      BY <1>3, <3>1, NotAfterIs
  <2> QED
    BY <1>1, <2>1, <2>2
<1> QED
  BY <1>2, <1>3, FirstDifference

LEMMA NotAfterBoth ==
    ASSUME NEW a \in Keyed, NEW b \in Keyed, NotAfter(a, b), NotAfter(b, a)
    PROVE  a = b
<1>1. Len(a) \in Nat /\ Len(b) \in Nat
  BY NotAfterIs
<1>2. \A k \in 1 .. Len(a) : a[k] \in Nat
  BY NotAfterIs
<1>3. \A k \in 1 .. Len(b) : b[k] \in Nat
  BY NotAfterIs
<1>4. \/ Len(a) <= Len(b) /\ \A k \in 1 .. Len(a) : a[k] = b[k]
      \/ \E n \in Nat : DifferAt(a, b, n) /\ a[n] < b[n]
  BY NotAfterIs
<1>5. \/ Len(b) <= Len(a) /\ \A k \in 1 .. Len(b) : b[k] = a[k]
      \/ \E n \in Nat : DifferAt(b, a, n) /\ b[n] < a[n]
  BY NotAfterIs
<1>6. CASE \E n \in Nat : DifferAt(a, b, n) /\ a[n] < b[n]
  <2>1. PICK n \in Nat : DifferAt(a, b, n) /\ a[n] < b[n]
    BY <1>6
  <2>2. PICK m \in Nat : DifferAt(b, a, m) /\ b[m] < a[m]
    BY <1>5, <2>1 DEF DifferAt
  <2>3. m \in 1 .. Len(a) /\ n \in 1 .. Len(a) /\ m \in 1 .. Len(b) /\ n \in 1 .. Len(b)
        /\ a[n] # b[n] /\ b[m] # a[m]
    BY <2>1, <2>2 DEF DifferAt
  <2>4. ~ (m < n)
    <3>1. m < n => m \in 1 .. (n - 1)
      BY <1>1, <2>3
    <3> QED
      BY <2>1, <2>3, <3>1 DEF DifferAt
  <2>5. ~ (n < m)
    <3>1. n < m => n \in 1 .. (m - 1)
      BY <1>1, <2>3
    <3> QED
      BY <2>2, <2>3, <3>1 DEF DifferAt
  <2>6. n = m
    BY <2>4, <2>5
  <2>7. a[n] \in Nat /\ b[n] \in Nat /\ a[n] < b[n] /\ b[n] < a[n]
    BY <1>2, <1>3, <2>1, <2>2, <2>3, <2>6
  <2> QED
    BY <2>7
<1>7. CASE Len(a) <= Len(b) /\ \A k \in 1 .. Len(a) : a[k] = b[k]
  <2>1. Len(b) <= Len(a)
    <3>1. CASE \E n \in Nat : DifferAt(b, a, n) /\ b[n] < a[n]
      BY <1>7, <3>1 DEF DifferAt
    <3> QED
      BY <1>5, <3>1
  <2>2. Len(a) = Len(b)
    BY <1>1, <1>7, <2>1
  <2>3. a \in Seq(Nat) /\ b \in Seq(Nat)
    BY DEF Keyed
  <2> QED
    BY <1>7, <2>2, <2>3, SeqEqual
<1> QED
  BY <1>4, <1>6, <1>7

LEMMA NotAfterOnward ==
    ASSUME NEW a \in Keyed, NEW b \in Keyed, NEW c \in Keyed, NotAfter(a, b), NotAfter(b, c)
    PROVE  NotAfter(a, c)
<1>1. Len(a) \in Nat /\ Len(b) \in Nat
  BY NotAfterIs
<1>0. Len(c) \in Nat /\ \A k \in 1 .. Len(c) : c[k] \in Nat
  BY NotAfterIs
<1>2. \A k \in 1 .. Len(a) : a[k] \in Nat
  BY NotAfterIs
<1>3. \A k \in 1 .. Len(b) : b[k] \in Nat
  BY NotAfterIs
<1>4. \/ Len(a) <= Len(b) /\ \A k \in 1 .. Len(a) : a[k] = b[k]
      \/ \E n \in Nat : DifferAt(a, b, n) /\ a[n] < b[n]
  BY NotAfterIs
<1>5. \/ Len(b) <= Len(c) /\ \A k \in 1 .. Len(b) : b[k] = c[k]
      \/ \E n \in Nat : DifferAt(b, c, n) /\ b[n] < c[n]
  BY NotAfterIs
<1>6. \/ Len(a) <= Len(c) /\ \A k \in 1 .. Len(a) : a[k] = c[k]
      \/ \E n \in Nat : DifferAt(a, c, n) /\ a[n] < c[n]
      => NotAfter(a, c)
  BY NotAfterIs
<1>7. CASE /\ Len(a) <= Len(b) /\ \A k \in 1 .. Len(a) : a[k] = b[k]
           /\ Len(b) <= Len(c) /\ \A k \in 1 .. Len(b) : b[k] = c[k]
  <2>1. \A k \in 1 .. Len(a) : k \in 1 .. Len(b)
    BY <1>1, <1>7
  <2>2. Len(a) <= Len(c)
    BY <1>0, <1>1, <1>7
  <2> QED
    BY <1>6, <1>7, <2>1, <2>2
<1>8. CASE /\ Len(a) <= Len(b) /\ \A k \in 1 .. Len(a) : a[k] = b[k]
           /\ \E n \in Nat : DifferAt(b, c, n) /\ b[n] < c[n]
  <2>1. PICK n \in Nat : DifferAt(b, c, n) /\ b[n] < c[n]
    BY <1>8
  <2>2. n \in 1 .. Len(b) /\ n \in 1 .. Len(c) /\ \A m \in 1 .. (n - 1) : b[m] = c[m]
    BY <2>1 DEF DifferAt
  <2>3. CASE n <= Len(a)
    <3>1. n \in 1 .. Len(a) /\ \A m \in 1 .. (n - 1) : m \in 1 .. Len(a)
      BY <1>1, <2>2, <2>3
    <3>2. a[n] = b[n] /\ \A m \in 1 .. (n - 1) : a[m] = c[m]
      BY <1>8, <2>2, <3>1
    <3>3. DifferAt(a, c, n) /\ a[n] < c[n]
      BY <2>1, <2>2, <3>1, <3>2 DEF DifferAt
    <3> QED
      BY <1>6, <3>3
  <2>4. CASE Len(a) < n
    <3>1. Len(a) <= Len(c) /\ \A k \in 1 .. Len(a) : k \in 1 .. (n - 1)
      BY <1>0, <1>1, <2>2, <2>4
    <3>2. \A k \in 1 .. Len(a) : a[k] = c[k]
      BY <1>8, <2>2, <3>1
    <3> QED
      BY <1>6, <3>1, <3>2
  <2> QED
    BY <1>1, <2>3, <2>4
<1>9. CASE /\ \E n \in Nat : DifferAt(a, b, n) /\ a[n] < b[n]
           /\ Len(b) <= Len(c) /\ \A k \in 1 .. Len(b) : b[k] = c[k]
  <2>1. PICK n \in Nat : DifferAt(a, b, n) /\ a[n] < b[n]
    BY <1>9
  <2>2. n \in 1 .. Len(a) /\ n \in 1 .. Len(b) /\ \A m \in 1 .. (n - 1) : a[m] = b[m]
    BY <2>1 DEF DifferAt
  <2>3. n \in 1 .. Len(c) /\ \A m \in 1 .. (n - 1) : m \in 1 .. Len(b)
    BY <1>0, <1>1, <1>9, <2>2
  <2>4. b[n] = c[n] /\ \A m \in 1 .. (n - 1) : a[m] = c[m]
    BY <1>9, <2>2, <2>3
  <2>5. a[n] # c[n]
    BY <2>1, <2>4 DEF DifferAt
  <2>6. DifferAt(a, c, n) /\ a[n] < c[n]
    BY <2>1, <2>2, <2>3, <2>4, <2>5 DEF DifferAt
  <2> QED
    BY <1>6, <2>6
<1>10. CASE /\ \E n \in Nat : DifferAt(a, b, n) /\ a[n] < b[n]
            /\ \E n \in Nat : DifferAt(b, c, n) /\ b[n] < c[n]
  <2>1. PICK n \in Nat : DifferAt(a, b, n) /\ a[n] < b[n]
    BY <1>10
  <2>2. PICK m \in Nat : DifferAt(b, c, m) /\ b[m] < c[m]
    BY <1>10
  <2>3. /\ n \in 1 .. Len(a) /\ n \in 1 .. Len(b) /\ \A k \in 1 .. (n - 1) : a[k] = b[k]
        /\ m \in 1 .. Len(b) /\ m \in 1 .. Len(c) /\ \A k \in 1 .. (m - 1) : b[k] = c[k]
    BY <2>1, <2>2 DEF DifferAt
  <2>4. CASE n < m
    <3>1. n \in 1 .. (m - 1) /\ n \in 1 .. Len(c) /\ \A k \in 1 .. (n - 1) : k \in 1 .. (m - 1)
      BY <1>0, <2>3, <2>4
    <3>2. b[n] = c[n] /\ \A k \in 1 .. (n - 1) : a[k] = c[k]
      BY <2>3, <3>1
    <3>3. a[n] # c[n]
      BY <2>1, <3>2 DEF DifferAt
    <3>4. DifferAt(a, c, n) /\ a[n] < c[n]
      BY <2>1, <2>3, <3>1, <3>2, <3>3 DEF DifferAt
    <3> QED
      BY <1>6, <3>4
  <2>5. CASE m <= n
    <3>1. m \in 1 .. Len(a) /\ \A k \in 1 .. (m - 1) : k \in 1 .. (n - 1)
      BY <1>1, <2>3, <2>5
    <3>2. \A k \in 1 .. (m - 1) : a[k] = c[k]
      BY <2>3, <3>1
    <3>3. a[m] <= b[m]
      <4>1. a[m] \in Nat /\ b[m] \in Nat
        BY <1>2, <1>3, <2>3, <3>1
      <4>2. m # n => m \in 1 .. (n - 1)
        BY <2>3, <2>5
      <4> QED
        BY <2>1, <2>3, <4>1, <4>2
    <3>4. a[m] < c[m]
      <4>1. a[m] \in Nat /\ b[m] \in Nat /\ c[m] \in Nat
        BY <1>0, <1>2, <1>3, <2>3, <3>1
      <4> QED
        BY <2>2, <3>3, <4>1
    <3>5. a[m] # c[m]
      <4>1. a[m] \in Nat /\ c[m] \in Nat
        BY <1>0, <1>2, <2>3, <3>1
      <4> QED
        BY <3>4, <4>1
    <3>6. DifferAt(a, c, m)
      BY <2>3, <3>1, <3>2, <3>5 DEF DifferAt
    <3> QED
      BY <1>6, <3>4, <3>6
  <2> QED
    BY <2>4, <2>5
<1> QED
  BY <1>4, <1>5, <1>7, <1>8, <1>9, <1>10

LexLe == {xy \in Keyed \X Keyed : NotAfter(xy[1], xy[2])}

LEMMA LexOrders == Orders(LexLe, Keyed)
<1>1. \A x, y \in Keyed : <<x, y>> \in LexLe <=> NotAfter(x, y)
  BY DEF LexLe
<1>2. \A x, y \in Keyed : <<x, y>> \in LexLe \/ <<y, x>> \in LexLe
  BY <1>1, NotAfterTotal
<1>3. \A x, y, z \in Keyed : <<x, y>> \in LexLe /\ <<y, z>> \in LexLe => <<x, z>> \in LexLe
  BY <1>1, NotAfterOnward
<1>4. \A x, y \in Keyed : <<x, y>> \in LexLe /\ <<y, x>> \in LexLe => x = y
  BY <1>1, NotAfterBoth
<1> QED
  BY <1>2, <1>3, <1>4 DEF Orders

-----------------------------------------------------------------------------
(* The key of an item says all that is written of it.                       *)

LEMMA ProducedIs ==
    ASSUME NEW i \in Produced
    PROVE  /\ i.time \in Nat /\ i.url \in Nat /\ i.spider \in Nat
           /\ IsFiniteSet(DOMAIN i.fields)
           /\ DOMAIN i.fields \subseteq Name /\ DOMAIN i.fields \subseteq Nat
           /\ i.fields \in [DOMAIN i.fields -> Value]
<1>1. i.time \in Nat /\ i.url \in Nat /\ i.spider \in Nat
  <2>1. CASE \E fields \in Fields, time \in Nat, url \in Nat, spider \in Nat :
                 i = CallbackItem(fields, time, url, spider)
    BY <2>1 DEF CallbackItem
  <2>2. CASE \E pg \in DOMAIN Structured, rules \in Seq(DOMAIN Match), time \in Nat, url \in Nat :
                 i = ParserItem(pg, rules, time, url)
    BY <2>2 DEF ParserItem
  <2> QED
    BY <2>1, <2>2 DEF Produced
<1> PICK fields : fields = i.fields
  OBVIOUS
<1>2. fields \in Fields
  BY DEF Produced
<1>3. PICK names \in {S \in SUBSET Name : IsFiniteSet(S)} : fields \in [names -> Value]
  BY <1>2 DEF Fields
<1>4. DOMAIN fields = names
  BY <1>3
<1>5. names \subseteq Name /\ names \subseteq Nat
  BY <1>3, OutputAssumption
<1> QED
  BY <1>1, <1>3, <1>4, <1>5

LEMMA NumbersLinear ==
    \A S : S \subseteq Nat => Linear(S, [k \in S |-> {j \in S : j < k}])
<1> SUFFICES ASSUME NEW S, S \subseteq Nat
             PROVE  Linear(S, [k \in S |-> {j \in S : j < k}])
  OBVIOUS
<1> PICK below : below = [k \in S |-> {j \in S : j < k}]
  OBVIOUS
<1>1. below \in [S -> SUBSET S]
  OBVIOUS
<1>2. \A j, k \in S : j \in below[k] <=> j < k
  OBVIOUS
<1>3. \A k \in S : k \notin below[k]
  BY <1>2
<1>4. \A j, k \in S : j # k => j \in below[k] \/ k \in below[j]
  BY <1>2
<1>5. ASSUME NEW j \in S, NEW k \in S, j \in below[k], NEW i \in below[j] PROVE i \in below[k]
  <2>1. i \in S
    BY <1>1
  <2>2. i < j /\ j < k /\ i \in Nat /\ j \in Nat /\ k \in Nat
    BY <1>2, <1>5, <2>1
  <2> QED
    BY <1>2, <2>1, <2>2
<1> QED
  BY <1>1, <1>3, <1>4, <1>5 DEF Linear

Names(fields) == [k \in DOMAIN fields |-> {j \in DOMAIN fields : j < k}]

LEMMA KeysIs ==
    ASSUME NEW fields, IsFiniteSet(DOMAIN fields), DOMAIN fields \subseteq Nat
    PROVE  \E n \in Nat :
               /\ DOMAIN Keys(fields) = 1 .. n /\ Keys(fields) \in [1 .. n -> DOMAIN fields]
               /\ \A f \in DOMAIN fields : \E m \in 1 .. n : Keys(fields)[m] = f
<1>1. Linear(DOMAIN fields, Names(fields))
  BY NumbersLinear DEF Names
<1>2. Keys(fields) = ByRank(DOMAIN fields, Names(fields))
  BY DEF Keys, Names
<1>3. \E n : n = Cardinality(DOMAIN fields)
  OBVIOUS
<1>4. \E n \in Nat : /\ DOMAIN Keys(fields) = 1 .. n
                     /\ Keys(fields) \in Injection(1 .. n, DOMAIN fields)
                     /\ \A f \in DOMAIN fields : \E m \in 1 .. n : Keys(fields)[m] = f
  BY <1>1, <1>2, <1>3, ByRankIs
<1> QED
  BY <1>4 DEF Injection

\* What follows time, URL and spider in a key.
Rest(fields, names) ==
    [k \in 1..Len(names) |-> Joined[names[k]][CanonicalValue(fields[names[k]])]]

LEMMA RestIs ==
    ASSUME NEW fields, IsFiniteSet(DOMAIN fields), DOMAIN fields \subseteq Name,
           fields \in [DOMAIN fields -> Value], NEW names, names = Keys(fields)
    PROVE  /\ Len(names) \in Nat /\ Rest(fields, names) \in Keyed
           /\ Len(Rest(fields, names)) = Len(names)
           /\ \A m \in 1 .. Len(names) :
                 /\ names[m] \in DOMAIN fields
                 /\ Rest(fields, names)[m] = Joined[names[m]][CanonicalValue(fields[names[m]])]
           /\ \A f \in DOMAIN fields : \E m \in 1 .. Len(names) : names[m] = f
<1>0. DOMAIN fields \subseteq Nat
  BY OutputAssumption
<1>1. PICK n \in Nat : /\ DOMAIN names = 1 .. n /\ names \in [1 .. n -> DOMAIN fields]
                       /\ \A f \in DOMAIN fields : \E m \in 1 .. n : names[m] = f
  BY <1>0, KeysIs
<1>2. Len(names) = n
  BY <1>1
<1> PICK rest : rest = Rest(fields, names)
  OBVIOUS
<1>3. rest = [k \in 1 .. n |-> Joined[names[k]][CanonicalValue(fields[names[k]])]]
  BY <1>2 DEF Rest
<1>4. ASSUME NEW m \in 1 .. n
      PROVE  names[m] \in DOMAIN fields /\ Joined[names[m]][CanonicalValue(fields[names[m]])] \in Nat
  <2>1. names[m] \in Name /\ fields[names[m]] \in Value
    BY <1>1
  <2> QED
    BY <1>1, <2>1, OutputAssumption
<1>5. rest \in [1 .. n -> Nat]
  BY <1>3, <1>4
<1>6. rest \in Seq(Nat) /\ Len(rest) = n
  BY <1>5
<1> QED
  BY <1>1, <1>2, <1>3, <1>4, <1>6 DEF Keyed

LEMMA OrderKeyIs ==
    ASSUME NEW i \in Produced
    PROVE  LET rest == Rest(i.fields, Keys(i.fields)) IN
           /\ OrderKey(i) \in Keyed /\ rest \in Keyed
           /\ Len(OrderKey(i)) = 3 + Len(rest)
           /\ OrderKey(i)[1] = i.time /\ OrderKey(i)[2] = i.url /\ OrderKey(i)[3] = i.spider
           /\ \A k \in 1 .. Len(rest) : OrderKey(i)[k + 3] = rest[k]
<1> PICK rest : rest = Rest(i.fields, Keys(i.fields))
  OBVIOUS
<1> PICK first : first = <<i.time, i.url, i.spider>>
  OBVIOUS
<1>1. rest \in Keyed
  BY ProducedIs, RestIs
<1>2. first \in Seq(Nat) /\ Len(first) = 3 /\ first[1] = i.time /\ first[2] = i.url /\ first[3] = i.spider
  BY ProducedIs
<1>3. OrderKey(i) = first \o rest
  BY DEF OrderKey, Rest
<1>4. Len(rest) \in Nat
  BY <1>1, LenProperties DEF Keyed
<1> PICK key : key = OrderKey(i)
  OBVIOUS
<1>5. /\ key \in Seq(Nat) /\ Len(key) = 3 + Len(rest)
      /\ \A k \in 1 .. 3 + Len(rest) : key[k] = IF k <= 3 THEN first[k] ELSE rest[k - 3]
  BY <1>1, <1>2, <1>3, ConcatProperties DEF Keyed
<1>6. key[1] = i.time /\ key[2] = i.url /\ key[3] = i.spider
  <2>1. 1 \in 1 .. 3 + Len(rest) /\ 2 \in 1 .. 3 + Len(rest) /\ 3 \in 1 .. 3 + Len(rest)
    BY <1>4
  <2> QED
    BY <1>2, <1>5, <2>1
<1>7. ASSUME NEW k \in 1 .. Len(rest) PROVE key[k + 3] = rest[k]
  <2>1. k + 3 \in 1 .. 3 + Len(rest) /\ ~ (k + 3 <= 3) /\ (k + 3) - 3 = k
    BY <1>4
  <2> QED
    BY <1>5, <2>1
<1> QED
  BY <1>1, <1>5, <1>6, <1>7 DEF Keyed

LEMMA KeyTells ==
    ASSUME KeysTellFields, NEW i \in Produced, NEW j \in Produced, OrderKey(i) = OrderKey(j)
    PROVE  i.time = j.time /\ i.url = j.url /\ i.spider = j.spider /\ i.fields = j.fields
<1> PICK a : a = i.fields
  OBVIOUS
<1> PICK b : b = j.fields
  OBVIOUS
<1> PICK as : as = Keys(a)
  OBVIOUS
<1> PICK bs : bs = Keys(b)
  OBVIOUS
<1> PICK ra : ra = Rest(a, as)
  OBVIOUS
<1> PICK rb : rb = Rest(b, bs)
  OBVIOUS
<1> PICK key : key = OrderKey(i)
  OBVIOUS
<1>1. /\ Len(key) = 3 + Len(ra) /\ key[1] = i.time /\ key[2] = i.url /\ key[3] = i.spider
      /\ \A k \in 1 .. Len(ra) : key[k + 3] = ra[k]
  BY OrderKeyIs
<1>2. /\ Len(key) = 3 + Len(rb) /\ key[1] = j.time /\ key[2] = j.url /\ key[3] = j.spider
      /\ \A k \in 1 .. Len(rb) : key[k + 3] = rb[k]
  BY OrderKeyIs
<1>3. /\ IsFiniteSet(DOMAIN a) /\ DOMAIN a \subseteq Name /\ a \in [DOMAIN a -> Value]
      /\ IsFiniteSet(DOMAIN b) /\ DOMAIN b \subseteq Name /\ b \in [DOMAIN b -> Value]
  BY ProducedIs
<1>4. /\ Len(as) \in Nat /\ Len(ra) = Len(as)
      /\ \A m \in 1 .. Len(as) : /\ as[m] \in DOMAIN a
                                  /\ ra[m] = Joined[as[m]][CanonicalValue(a[as[m]])]
      /\ \A f \in DOMAIN a : \E m \in 1 .. Len(as) : as[m] = f
  BY <1>3, RestIs
<1>5. /\ Len(bs) \in Nat /\ Len(rb) = Len(bs)
      /\ \A m \in 1 .. Len(bs) : /\ bs[m] \in DOMAIN b
                                  /\ rb[m] = Joined[bs[m]][CanonicalValue(b[bs[m]])]
      /\ \A f \in DOMAIN b : \E m \in 1 .. Len(bs) : bs[m] = f
  BY <1>3, RestIs
<1>6. Len(as) = Len(bs) /\ Len(ra) = Len(rb)
  <2>1. 3 + Len(ra) = 3 + Len(rb)
    BY <1>1, <1>2
  <2>2. Len(as) \in Nat /\ Len(bs) \in Nat /\ Len(ra) = Len(as) /\ Len(rb) = Len(bs)
    BY <1>4, <1>5
  <2> QED
    BY <2>1, <2>2
<1>7. \A k \in 1 .. Len(ra) : ra[k] = rb[k]
  BY <1>1, <1>2, <1>6
<1>8. ASSUME NEW m \in 1 .. Len(as) PROVE as[m] = bs[m] /\ a[as[m]] = b[as[m]]
  <2>1. m \in 1 .. Len(ra) /\ m \in 1 .. Len(bs)
    BY <1>4, <1>6
  <2>2. ra[m] = rb[m]
    BY <1>7, <2>1
  <2>3. as[m] \in DOMAIN a /\ bs[m] \in DOMAIN b
    BY <1>4, <1>5, <2>1
  <2>4. Joined[as[m]][CanonicalValue(a[as[m]])] = Joined[bs[m]][CanonicalValue(b[bs[m]])]
    BY <1>4, <1>5, <2>1, <2>2
  <2>5. as[m] \in Name /\ bs[m] \in Name /\ a[as[m]] \in Value /\ b[bs[m]] \in Value
    BY <1>3, <2>3
  <2> PICK f \in Name : f = as[m]
    BY <2>5
  <2> PICK g \in Name : g = bs[m]
    BY <2>5
  <2> PICK v \in Value : v = a[f]
    BY <2>5
  <2> PICK w \in Value : w = b[g]
    BY <2>5
  <2>6. Joined[f][CanonicalValue(v)] = Joined[g][CanonicalValue(w)]
    BY <2>4
  <2>7. f = g /\ v = w
    BY <2>6 DEF KeysTellFields
  <2> QED
    BY <2>7
<1>9. ASSUME NEW f \in DOMAIN a PROVE f \in DOMAIN b /\ a[f] = b[f]
  <2>1. PICK m \in 1 .. Len(as) : as[m] = f
    BY <1>4
  <2>2. m \in 1 .. Len(bs) /\ as[m] = bs[m] /\ a[as[m]] = b[as[m]]
    BY <1>6, <1>8
  <2>3. bs[m] \in DOMAIN b
    BY <1>5, <2>2
  <2> QED
    BY <2>1, <2>2, <2>3
<1>10. ASSUME NEW f \in DOMAIN b PROVE f \in DOMAIN a
  <2>1. PICK m \in 1 .. Len(bs) : bs[m] = f
    BY <1>5
  <2>2. m \in 1 .. Len(as) /\ as[m] = bs[m]
    BY <1>6, <1>8
  <2>3. as[m] \in DOMAIN a
    BY <1>4, <2>2
  <2> QED
    BY <2>1, <2>2, <2>3
<1>11. a = b
  <2>1. DOMAIN a = DOMAIN b
    BY <1>9, <1>10
  <2>2. a = [f \in DOMAIN a |-> a[f]] /\ b = [f \in DOMAIN b |-> b[f]]
    BY <1>3
  <2> QED
    BY <1>9, <2>1, <2>2
<1> QED
  BY <1>1, <1>2, <1>11

-----------------------------------------------------------------------------
(* The sorted arrangements of some items, and the file they make.           *)

\* p sorts items.
SortedBy(its, n, p) ==
    /\ p \in Injection(1 .. n, 1 .. n)
    /\ InOrder(n, [k \in 1 .. n |-> OrderKey(its[k])], p, LexLe)

LEMMA KeysOfItems ==
    ASSUME NEW its \in Seq(Produced)
    PROVE  /\ Len(its) \in Nat /\ DOMAIN its = 1 .. Len(its)
           /\ \A k \in 1 .. Len(its) : its[k] \in Produced /\ OrderKey(its[k]) \in Keyed
<1>1. Len(its) \in Nat /\ DOMAIN its = 1 .. Len(its)
  BY LenProperties
<1>2. \A k \in 1 .. Len(its) : its[k] \in Produced
  BY ElementOfSeq
<1>3. \A i \in Produced : OrderKey(i) \in Keyed
  BY OrderKeyIs
<1> QED
  BY <1>1, <1>2, <1>3

\* Any sorted arrangement of any arrangement of the items sorts the items.
LEMMA SortedIs ==
    ASSUME NEW its \in Seq(Produced), NEW other \in Arrangements(its), NEW s \in SortItems(other)
    PROVE  /\ s \in Seq(Produced) /\ Len(s) = Len(its)
           /\ \E p : /\ SortedBy(its, Len(its), p)
                     /\ \A k \in 1 .. Len(its) : s[k] = its[p[k]]
<1> PICK n : n = Len(its)
  OBVIOUS
<1>1. /\ n \in Nat /\ DOMAIN its = 1 .. n
      /\ \A k \in 1 .. n : its[k] \in Produced /\ OrderKey(its[k]) \in Keyed
  BY KeysOfItems
<1>2. other \in Seq(Produced) /\ Len(other) = n
  BY ArrangementIs
<1>3. PICK q : Shuffle(q, n) /\ other = [k \in 1 .. n |-> its[q[k]]]
  BY ArrangementIs
<1>4. s \in Arrangements(other)
  BY DEF SortItems
<1>5. s \in Seq(Produced) /\ Len(s) = n
  BY <1>2, <1>4, ArrangementIs
<1>6. PICK r : Shuffle(r, n) /\ s = [k \in 1 .. n |-> other[r[k]]]
  BY <1>2, <1>4, ArrangementIs
<1>7. q \in [1 .. n -> 1 .. n] /\ \A j, k \in 1 .. n : q[j] = q[k] => j = k
  BY <1>1, <1>3, ShuffleOnto
<1>8. r \in [1 .. n -> 1 .. n] /\ \A j, k \in 1 .. n : r[j] = r[k] => j = k
  BY <1>1, <1>6, ShuffleOnto
<1> PICK p : p = [k \in 1 .. n |-> q[r[k]]]
  OBVIOUS
<1>9. /\ p \in [1 .. n -> 1 .. n] /\ \A j, k \in 1 .. n : p[j] = p[k] => j = k
      /\ \A k \in 1 .. n : p[k] \in 1 .. n /\ s[k] = its[p[k]]
  <2>1. p \in [1 .. n -> 1 .. n]
    BY <1>7, <1>8
  <2>2. \A k \in 1 .. n : p[k] = q[r[k]] /\ r[k] \in 1 .. n
    BY <1>8
  <2>3. \A j, k \in 1 .. n : p[j] = p[k] => j = k
    BY <1>7, <1>8, <2>2
  <2>4. \A k \in 1 .. n : p[k] \in 1 .. n /\ s[k] = its[p[k]]
    BY <1>3, <1>6, <2>1, <2>2
  <2> QED
    BY <2>1, <2>3, <2>4
<1>10. p \in Injection(1 .. n, 1 .. n)
  BY <1>9 DEF Injection, IsInjective
<1>11. DOMAIN s = 1 .. n
  BY <1>5, LenProperties
<1> PICK c : c = [k \in 1 .. n |-> OrderKey(its[k])]
  OBVIOUS
<1>12. ASSUME NEW j \in 1 .. n, NEW k \in 1 .. n, j < k PROVE <<c[p[j]], c[p[k]]>> \in LexLe
  <2>1. NotAfter(OrderKey(s[j]), OrderKey(s[k]))
    BY <1>11, <1>12 DEF SortItems
  <2>2. c[p[j]] = OrderKey(s[j]) /\ c[p[k]] = OrderKey(s[k])
    BY <1>9
  <2>3. OrderKey(s[j]) \in Keyed /\ OrderKey(s[k]) \in Keyed
    BY <1>1, <1>9
  <2> QED
    BY <2>1, <2>2, <2>3 DEF LexLe
<1>13. InOrder(n, c, p, LexLe)
  BY <1>12 DEF InOrder
<1>14. SortedBy(its, n, p)
  BY <1>10, <1>13 DEF SortedBy
<1> QED
  BY <1>5, <1>9, <1>14

SameKeys(its, n, p, q) == \A k \in 1 .. n : OrderKey(its[p[k]]) = OrderKey(its[q[k]])

LEMMA SortedSame ==
    ASSUME NEW its \in Seq(Produced), NEW n, n = Len(its),
           NEW p, SortedBy(its, n, p), NEW q, SortedBy(its, n, q)
    PROVE  SameKeys(its, n, p, q)
<1>1. n \in Nat /\ \A k \in 1 .. n : OrderKey(its[k]) \in Keyed
  BY KeysOfItems
<1> PICK c : c = [k \in 1 .. n |-> OrderKey(its[k])]
  OBVIOUS
<1>2. c \in [1 .. n -> Keyed]
  BY <1>1
<1>3. /\ p \in Injection(1 .. n, 1 .. n) /\ q \in Injection(1 .. n, 1 .. n)
      /\ InOrder(n, c, p, LexLe) /\ InOrder(n, c, q, LexLe)
  BY DEF SortedBy
<1>4. IsFiniteSet(1 .. n) /\ Cardinality(1 .. n) = n
  BY <1>1, SizeUpTo
<1>5. \A k \in 1 .. n : c[p[k]] = c[q[k]]
  BY <1>1, <1>2, <1>3, <1>4, LexOrders, SortedAlike, SMTT(30)
<1>6. \A k \in 1 .. n : p[k] \in 1 .. n /\ q[k] \in 1 .. n
  BY <1>3 DEF Injection
<1> QED
  BY <1>5, <1>6 DEF SameKeys

\* order.go:33-52: SortItems leaves the same keys at the same places, in
\* whatever order the workers delivered the items and however sort.Slice,
\* which is not stable, breaks its ties.
THEOREM OneOrder ==
    ASSUME NEW its \in Seq(Produced), NEW w \in SortItems(its),
           NEW other \in Arrangements(its), NEW s \in SortItems(other)
    PROVE  /\ w \in Seq(Produced) /\ s \in Seq(Produced) /\ Len(w) = Len(s)
           /\ \A k \in 1 .. Len(w) : OrderKey(w[k]) = OrderKey(s[k])
<1> PICK n : n = Len(its)
  OBVIOUS
<1>1. its \in Arrangements(its)
  <2>1. n \in Nat /\ DOMAIN its = 1 .. n
    BY LenProperties
  <2>2. Cardinality(1 .. n) = n
    BY <2>1, SizeUpTo
  <2> PICK p : p = [k \in 1 .. n |-> k]
    OBVIOUS
  <2>3. p \in SetToSeqs(1 .. n)
    BY <2>2 DEF SetToSeqs
  <2>4. its = [k \in 1 .. n |-> its[p[k]]]
    BY LenProperties
  <2> QED
    BY <2>1, <2>3, <2>4 DEF Arrangements
<1>2. w \in Seq(Produced) /\ Len(w) = n /\ s \in Seq(Produced) /\ Len(s) = n
  BY <1>1, SortedIs
<1>3. PICK p : SortedBy(its, n, p) /\ \A k \in 1 .. n : w[k] = its[p[k]]
  BY <1>1, SortedIs
<1>4. PICK q : SortedBy(its, n, q) /\ \A k \in 1 .. n : s[k] = its[q[k]]
  BY SortedIs
<1>5. SameKeys(its, n, p, q)
  BY <1>3, <1>4, SortedSame
<1> QED
  BY <1>2, <1>3, <1>4, <1>5 DEF SameKeys

\* l items are written before the first that cannot be.
Encodes(its, l) ==
    /\ l \in 0 .. Len(its) /\ \A k \in 1 .. l : Encodable(its[k])
    /\ l # Len(its) => ~ Encodable(its[l + 1])

LEMMA EncodedIs ==
    ASSUME NEW C, NEW its \in Seq(C)
    PROVE  /\ \E l : Encodes(its, l)
           /\ \A l : Encodes(its, l) =>
                 /\ Encoded(its) \in Seq(C) /\ Len(Encoded(its)) = l
                 /\ \A k \in 1 .. l : Encoded(its)[k] = its[k]
<1> PICK n : n = Len(its)
  OBVIOUS
<1>1. n \in Nat /\ DOMAIN its = 1 .. n
  BY LenProperties
<1> PICK bad : bad = {k \in 1 .. n : ~ Encodable(its[k])}
  OBVIOUS
<1> DEFINE first == CHOOSE k \in bad : \A j \in bad : k <= j
<1>2. Encoded(its) = IF bad = {} THEN its ELSE SubSeq(its, 1, first - 1)
  BY <1>1 DEF Encoded
<1>3. bad # {} => first \in bad /\ \A j \in bad : first <= j
  <2>1. bad \subseteq Nat
    BY <1>1
  <2>2. bad # {} => \E k \in bad : \A j \in bad : k <= j
    BY <2>1, Least
  <2> QED
    BY <2>2
<1> HIDE DEF first
<1>4. CASE bad = {}
  <2>1. Encodes(its, n)
    BY <1>1, <1>4 DEF Encodes
  <2>2. ASSUME NEW l, Encodes(its, l) PROVE l = n
    <3>1. l \in 0 .. n /\ (l # n => ~ Encodable(its[l + 1]))
      BY <2>2 DEF Encodes
    <3>2. l # n => l + 1 \in 1 .. n
      BY <1>1, <3>1
    <3> QED
      BY <1>4, <3>1, <3>2
  <2> QED
    BY <1>2, <1>4, <2>1, <2>2
<1>5. CASE bad # {}
  <2>1. first \in 1 .. n /\ ~ Encodable(its[first]) /\ \A j \in bad : first <= j
    BY <1>3, <1>5
  <2>2. first - 1 \in 0 .. n /\ first \in Nat /\ (first - 1) + 1 = first
    BY <1>1, <2>1
  <2>3. \A k \in 1 .. (first - 1) : k \in 1 .. n /\ ~ (first <= k)
    BY <1>1, <2>2
  <2>4. Encodes(its, first - 1)
    BY <1>1, <2>1, <2>2, <2>3 DEF Encodes
  <2>5. ASSUME NEW l, Encodes(its, l) PROVE l = first - 1
    <3>1. l \in 0 .. n /\ (l # n => ~ Encodable(its[l + 1])) /\ \A k \in 1 .. l : Encodable(its[k])
      BY <2>5 DEF Encodes
    <3>2. l \in Nat
      BY <1>1, <3>1
    <3>3. ~ (first <= l)
      <4>1. first <= l => first \in 1 .. l
        BY <2>2, <2>1, <3>2
      <4> QED
        BY <2>1, <3>1, <4>1
    <3>4. ~ (l + 1 < first)
      <4>1. l + 1 < first => l # n /\ l + 1 \in 1 .. n
        BY <1>1, <2>1, <3>1, <3>2
      <4>2. l + 1 < first => l + 1 \in bad
        BY <3>1, <4>1
      <4> QED
        BY <2>1, <2>2, <3>2, <4>2
    <3> QED
      BY <2>2, <3>2, <3>3, <3>4
  <2>6. /\ Encoded(its) \in Seq(C) /\ Len(Encoded(its)) = first - 1
        /\ \A k \in 1 .. (first - 1) : Encoded(its)[k] = its[k]
    BY <1>2, <1>5, <2>2, BeginningIs
  <2> QED
    BY <2>4, <2>5, <2>6
<1> QED
  BY <1>4, <1>5

Entered == {Entry(i) : i \in Produced}

LEMMA EntriesIs ==
    ASSUME NEW its \in Seq(Produced)
    PROVE  /\ Entries(its) \in Seq(Entered) /\ Len(Entries(its)) = Len(its)
           /\ \A k \in 1 .. Len(its) : Entries(its)[k] = Entry(its[k])
<1>1. /\ Len(its) \in Nat /\ DOMAIN its = 1 .. Len(its)
      /\ \A k \in 1 .. Len(its) : its[k] \in Produced
  BY KeysOfItems
<1> PICK n : n = Len(its)
  OBVIOUS
<1> PICK es : es = [k \in 1 .. n |-> Entry(its[k])]
  OBVIOUS
<1>2. es = Entries(its)
  BY <1>1 DEF Entries
<1>3. es \in [1 .. n -> Entered]
  BY <1>1 DEF Entered
<1> QED
  BY <1>1, <1>2, <1>3

\* The file of a buffered storage.
FileOf(type, s) == IF type = "ordered" \/ Encoded(s) = s THEN Entries(Encoded(s)) ELSE <<>>

LEMMA SameFile ==
    ASSUME KeysTellFields,
           NEW w \in Seq(Produced), NEW s \in Seq(Produced), Len(w) = Len(s),
           \A k \in 1 .. Len(w) : OrderKey(w[k]) = OrderKey(s[k]), NEW type
    PROVE  FileOf(type, w) = FileOf(type, s)
<1> PICK n : n = Len(w)
  OBVIOUS
<1>1. n \in Nat /\ \A k \in 1 .. n : w[k] \in Produced
  BY KeysOfItems
<1>2. \A k \in 1 .. n : s[k] \in Produced
  BY KeysOfItems
<1>3. ASSUME NEW k \in 1 .. n
      PROVE  Entry(w[k]) = Entry(s[k]) /\ (Encodable(w[k]) <=> Encodable(s[k]))
  <2>1. /\ w[k].time = s[k].time /\ w[k].url = s[k].url /\ w[k].spider = s[k].spider
        /\ w[k].fields = s[k].fields
    BY <1>1, <1>2, KeyTells
  <2>2. \A f : Column(w[k], f) = Column(s[k], f)
    BY <2>1 DEF Column
  <2> QED
    BY <2>1, <2>2 DEF Entry, Encodable
<1>4. PICK l : Encodes(w, l)
  BY EncodedIs
<1>5. l \in 0 .. n
  BY <1>4 DEF Encodes
<1>6. Encodes(s, l)
  <2>1. \A k \in 1 .. l : k \in 1 .. n
    BY <1>1, <1>5
  <2>2. l # n => l + 1 \in 1 .. n
    BY <1>1, <1>5
  <2> QED
    BY <1>3, <1>4, <1>5, <2>1, <2>2 DEF Encodes
<1> PICK ew : ew = Encoded(w)
  OBVIOUS
<1> PICK es : es = Encoded(s)
  OBVIOUS
<1>7. ew \in Seq(Produced) /\ Len(ew) = l /\ \A k \in 1 .. l : ew[k] = w[k]
  BY <1>4, EncodedIs
<1>8. es \in Seq(Produced) /\ Len(es) = l /\ \A k \in 1 .. l : es[k] = s[k]
  BY <1>6, EncodedIs
<1>9. ew = w <=> l = n
  BY <1>7, SeqEqual
<1>10. es = s <=> l = n
  BY <1>8, SeqEqual
<1>11. Entries(ew) = Entries(es)
  <2> PICK a : a = Entries(ew)
    OBVIOUS
  <2> PICK b : b = Entries(es)
    OBVIOUS
  <2>1. a \in Seq(Entered) /\ Len(a) = l /\ \A k \in 1 .. l : a[k] = Entry(ew[k])
    BY <1>7, EntriesIs
  <2>2. b \in Seq(Entered) /\ Len(b) = l /\ \A k \in 1 .. l : b[k] = Entry(es[k])
    BY <1>8, EntriesIs
  <2>3. \A k \in 1 .. l : k \in 1 .. n
    BY <1>1, <1>5
  <2>4. \A k \in 1 .. l : a[k] = b[k]
    BY <1>3, <1>7, <1>8, <2>1, <2>2, <2>3
  <2> QED
    BY <2>1, <2>2, <2>4, SeqEqual
<1> QED
  BY <1>9, <1>10, <1>11 DEF FileOf

LEMMA ItselfArranged == \A its \in Seq(Produced) : its \in Arrangements(its)
<1> SUFFICES ASSUME NEW its \in Seq(Produced) PROVE its \in Arrangements(its)
  OBVIOUS
<1> PICK n : n = Len(its)
  OBVIOUS
<1>1. n \in Nat /\ DOMAIN its = 1 .. n
  BY LenProperties
<1>2. Cardinality(1 .. n) = n
  BY <1>1, SizeUpTo
<1> PICK p : p = [k \in 1 .. n |-> k]
  OBVIOUS
<1>3. p \in SetToSeqs(1 .. n)
  BY <1>2 DEF SetToSeqs
<1>4. its = [k \in 1 .. n |-> its[p[k]]]
  BY LenProperties
<1> QED
  BY <1>1, <1>3, <1>4 DEF Arrangements

AllEncodable(its) == \A k \in 1 .. Len(its) : Encodable(its[k])

\* What a stream holds of the items it was given: all before the first that
\* cannot be encoded, and no more while there is none.
Streamed(t, r) ==
    /\ r \in Seq(Entered) /\ IsPrefix(Entries(Encoded(t)), r)
    /\ AllEncodable(t) => r = Entries(t)

LEMMA EntriesEncoded ==
    ASSUME NEW t \in Seq(Produced), NEW l, Encodes(t, l)
    PROVE  /\ l \in Nat /\ l <= Len(t)
           /\ Entries(Encoded(t)) \in Seq(Entered) /\ Len(Entries(Encoded(t))) = l
           /\ \A k \in 1 .. l : Entries(Encoded(t))[k] = Entry(t[k])
<1> PICK e : e = Encoded(t)
  OBVIOUS
<1>1. e \in Seq(Produced) /\ Len(e) = l /\ \A k \in 1 .. l : e[k] = t[k]
  BY EncodedIs
<1>2. Entries(e) \in Seq(Entered) /\ Len(Entries(e)) = l /\ \A k \in 1 .. l : Entries(e)[k] = Entry(e[k])
  BY <1>1, EntriesIs
<1>3. Len(t) \in Nat /\ l \in 0 .. Len(t)
  BY LenProperties DEF Encodes
<1> QED
  BY <1>1, <1>2, <1>3

LEMMA StreamBegins == Streamed(<<>>, <<>>)
<1>1. Encodes(<<>>, 0)
  BY DEF Encodes
<1>2. <<>> \in Seq(Produced) /\ <<>> \in Seq(Entered) /\ Len(<<>>) = 0
  OBVIOUS
<1> PICK e : e = Entries(Encoded(<<>>))
  OBVIOUS
<1>3. e \in Seq(Entered) /\ Len(e) = 0
  BY <1>1, <1>2, EntriesEncoded
<1>4. IsPrefix(e, <<>>)
  BY <1>2, <1>3, PrefixIs
<1>5. Entries(<<>>) = <<>>
  BY DEF Entries
<1> QED
  BY <1>2, <1>4, <1>5 DEF Streamed

LEMMA PrefixOn ==
    ASSUME NEW S, NEW a \in Seq(S), NEW r \in Seq(S), NEW x \in Seq(S), IsPrefix(a, r)
    PROVE  r \o x \in Seq(S) /\ IsPrefix(a, r \o x)
<1>1. Len(a) \in Nat /\ Len(r) \in Nat /\ Len(x) \in Nat
  BY LenProperties
<1>2. Len(a) <= Len(r) /\ \A k \in 1 .. Len(a) : a[k] = r[k]
  BY PrefixIs
<1> PICK y : y = r \o x
  OBVIOUS
<1>3. /\ y \in Seq(S) /\ Len(y) = Len(r) + Len(x)
      /\ \A k \in 1 .. Len(r) + Len(x) : y[k] = IF k <= Len(r) THEN r[k] ELSE x[k - Len(r)]
  BY ConcatProperties
<1>4. \A k \in 1 .. Len(a) : k \in 1 .. Len(r) + Len(x) /\ k <= Len(r)
  BY <1>1, <1>2
<1>5. Len(a) <= Len(y) /\ \A k \in 1 .. Len(a) : a[k] = y[k]
  BY <1>1, <1>2, <1>3, <1>4
<1>6. IsPrefix(a, y)
  BY <1>3, <1>5, PrefixIs
<1> QED
  BY <1>3, <1>6

LEMMA StreamGrows ==
    ASSUME NEW t \in Seq(Produced), NEW its \in Seq(Produced), NEW r, Streamed(t, r)
    PROVE  Streamed(t \o its, r \o Entries(Encoded(its)))
<1> PICK n : n = Len(t)
  OBVIOUS
<1> PICK i : i = Len(its)
  OBVIOUS
<1> PICK all : all = t \o its
  OBVIOUS
<1>1. n \in Nat /\ i \in Nat
  BY LenProperties
<1>2. /\ all \in Seq(Produced) /\ Len(all) = n + i
      /\ \A k \in 1 .. n + i : all[k] = IF k <= n THEN t[k] ELSE its[k - n]
  BY ConcatProperties
<1>3. PICK l : Encodes(t, l)
  BY EncodedIs
<1>4. PICK m : Encodes(its, m)
  BY EncodedIs
<1> PICK a : a = Entries(Encoded(t))
  OBVIOUS
<1> PICK b : b = Entries(Encoded(its))
  OBVIOUS
<1>5. l \in Nat /\ l <= n /\ a \in Seq(Entered) /\ Len(a) = l /\ \A k \in 1 .. l : a[k] = Entry(t[k])
  BY <1>3, EntriesEncoded
<1>6. m \in Nat /\ m <= i /\ b \in Seq(Entered) /\ Len(b) = m /\ \A k \in 1 .. m : b[k] = Entry(its[k])
  BY <1>4, EntriesEncoded
<1>7. r \in Seq(Entered) /\ IsPrefix(a, r) /\ (AllEncodable(t) => r = Entries(t))
  BY DEF Streamed
<1> PICK s : s = r \o b
  OBVIOUS
<1>8. s \in Seq(Entered) /\ IsPrefix(a, s)
  BY <1>5, <1>6, <1>7, PrefixOn
<1>9. CASE l = n
  <2>1. AllEncodable(t)
    BY <1>3, <1>9 DEF Encodes, AllEncodable
  <2>2. r = Entries(t)
    BY <1>7, <2>1
  <2>3. Len(r) = n /\ \A k \in 1 .. n : r[k] = Entry(t[k])
    BY <2>2, EntriesIs
  <2>4. Len(s) = n + m /\ \A k \in 1 .. n + m : s[k] = IF k <= n THEN r[k] ELSE b[k - n]
    <3>1. /\ Len(s) = Len(r) + Len(b)
          /\ \A k \in 1 .. Len(r) + Len(b) : s[k] = IF k <= Len(r) THEN r[k] ELSE b[k - Len(r)]
      BY <1>6, <1>7, ConcatProperties
    <3>2. Len(r) = n /\ Len(b) = m
      BY <1>6, <2>3
    <3> QED
      BY <3>1, <3>2
  <2>5. ASSUME NEW k \in 1 .. n + m PROVE k \in 1 .. n + i /\ s[k] = Entry(all[k])
    <3>1. k \in 1 .. n + i
      BY <1>1, <1>6
    <3>2. CASE k <= n
      <4>1. k \in 1 .. n
        BY <1>1, <1>6, <3>2
      <4> QED
        BY <1>2, <2>3, <2>4, <3>1, <3>2, <4>1
    <3>3. CASE ~ (k <= n)
      <4>1. k - n \in 1 .. m
        BY <1>1, <1>6, <3>3
      <4> QED
        BY <1>2, <1>6, <2>4, <3>1, <3>3, <4>1
    <3> QED
      BY <3>1, <3>2, <3>3
  <2>6. Encodes(all, n + m)
    <3>1. n + m \in 0 .. n + i
      BY <1>1, <1>6
    <3>2. ASSUME NEW k \in 1 .. n + m PROVE Encodable(all[k])
      <4>1. k \in 1 .. n + i
        BY <2>5
      <4>2. CASE k <= n
        <5>1. k \in 1 .. Len(t)
          BY <1>1, <1>6, <4>2
        <5> QED
          BY <1>2, <2>1, <4>1, <4>2, <5>1 DEF AllEncodable
      <4>3. CASE ~ (k <= n)
        <5>1. k - n \in 1 .. m
          BY <1>1, <1>6, <4>3
        <5> QED
          BY <1>2, <1>4, <4>1, <4>3, <5>1 DEF Encodes
      <4> QED
        BY <4>2, <4>3
    <3>3. m # i => ~ Encodable(all[n + m + 1])
      <4>1. m # i => ~ Encodable(its[m + 1])
        BY <1>4 DEF Encodes
      <4>2. n \in Nat /\ i \in Nat /\ m \in Nat /\ m <= i
        BY <1>1, <1>6
      <4>3. ~ (n + m + 1 <= n) /\ (n + m + 1) - n = m + 1
        BY <4>2
      <4>4. m # i => n + m + 1 \in 1 .. n + i
        BY <4>2
      <4> QED
        BY <1>2, <4>1, <4>3, <4>4
    <3>4. n + m # n + i => m # i
      BY <1>1, <1>6
    <3> QED
      BY <1>2, <3>1, <3>2, <3>3, <3>4 DEF Encodes
  <2> PICK e : e = Entries(Encoded(all))
    OBVIOUS
  <2>7. e \in Seq(Entered) /\ Len(e) = n + m /\ \A k \in 1 .. n + m : e[k] = Entry(all[k])
    BY <1>2, <2>6, EntriesEncoded
  <2>8. Len(e) <= Len(s) /\ \A k \in 1 .. Len(e) : e[k] = s[k]
    BY <1>1, <1>6, <2>4, <2>5, <2>7
  <2>9. IsPrefix(e, s)
    BY <1>8, <2>7, <2>8, PrefixIs
  <2>10. ASSUME AllEncodable(all) PROVE s = Entries(all)
    <3>1. m = i
      <4>1. m # i => n + m + 1 \in 1 .. Len(all) /\ ~ Encodable(all[n + m + 1])
        BY <1>1, <1>2, <1>6, <2>6 DEF Encodes
      <4> QED
        BY <2>10, <4>1 DEF AllEncodable
    <3> PICK f : f = Entries(all)
      OBVIOUS
    <3>2. f \in Seq(Entered) /\ Len(f) = n + i /\ \A k \in 1 .. n + i : f[k] = Entry(all[k])
      BY <1>2, EntriesIs
    <3>3. Len(s) = Len(f) /\ \A k \in 1 .. Len(s) : s[k] = f[k]
      BY <2>4, <2>5, <3>1, <3>2
    <3> QED
      BY <1>8, <3>2, <3>3, SeqEqual
  <2> QED
    BY <1>8, <2>9, <2>10 DEF Streamed
<1>10. CASE l # n
  <2>1. l < n /\ l + 1 \in 1 .. n /\ l + 1 \in 1 .. n + i /\ l + 1 <= n /\ ~ Encodable(t[l + 1])
    BY <1>1, <1>3, <1>5, <1>10 DEF Encodes
  <2>2. all[l + 1] = t[l + 1]
    BY <1>2, <2>1
  <2>3. ASSUME NEW k \in 1 .. l PROVE all[k] = t[k]
    <3>1. k \in 1 .. n + i /\ k <= n
      BY <1>1, <1>5
    <3> QED
      BY <1>2, <3>1
  <2>4. \A k \in 1 .. l : Encodable(t[k])
    BY <1>3 DEF Encodes
  <2>5. l \in 0 .. n + i
    BY <1>1, <1>5
  <2>6. Encodes(all, l)
    BY <1>2, <2>1, <2>2, <2>3, <2>4, <2>5 DEF Encodes
  <2> PICK e : e = Entries(Encoded(all))
    OBVIOUS
  <2>7. e \in Seq(Entered) /\ Len(e) = l /\ \A k \in 1 .. l : e[k] = Entry(all[k])
    BY <1>2, <2>6, EntriesEncoded, ZenonT(30)
  <2>8. e = a
    <3>1. \A k \in 1 .. l : e[k] = a[k]
      BY <1>5, <2>3, <2>7
    <3> QED
      BY <1>5, <2>7, <3>1, SeqEqual
  <2>9. ~ AllEncodable(all)
    BY <1>2, <2>1, <2>2 DEF AllEncodable
  <2> QED
    BY <1>8, <2>8, <2>9 DEF Streamed
<1> QED
  BY <1>9, <1>10

\* What a table holds of the items it was given.
Written(t, r) ==
    /\ \E S : r \in Seq(S)
    /\ Len(r) = Len(t)
    /\ \A k \in DOMAIN r : \A h \in DOMAIN r[k] \cap DOMAIN t[k].fields :
           r[k][h] \in {t[k].fields[h], Text(0)}

LEMMA CsvRowIs ==
    ASSUME NEW hs, NEW i
    PROVE  \A h \in DOMAIN CsvRow(hs, i) \cap DOMAIN i.fields : CsvRow(hs, i)[h] \in {i.fields[h], Text(0)}
<1> SUFFICES ASSUME NEW h \in hs, h \in DOMAIN i.fields
             PROVE  CsvRow(hs, i)[h] \in {i.fields[h], Text(0)}
  BY DEF CsvRow
<1>1. h \in DOMAIN ToFlatMap(i) /\ ToFlatMap(i)[h] = IF i.fields[h].kind = "channel" THEN Text(0) ELSE i.fields[h]
  BY DEF ToFlatMap
<1>2. CsvRow(hs, i)[h] = IF h \in DOMAIN ToFlatMap(i) THEN ToFlatMap(i)[h] ELSE Text(0)
  BY DEF CsvRow
<1> QED
  BY <1>1, <1>2

LEMMA CsvGrows ==
    ASSUME NEW t \in Seq(Produced), NEW its \in Seq(Produced), NEW r, Written(t, r), NEW hs
    PROVE  Written(t \o its, r \o [k \in DOMAIN its |-> CsvRow(hs, its[k])])
<1> PICK n : n = Len(t)
  OBVIOUS
<1> PICK i : i = Len(its)
  OBVIOUS
<1> PICK all : all = t \o its
  OBVIOUS
<1>1. n \in Nat /\ i \in Nat /\ DOMAIN its = 1 .. i
  BY LenProperties
<1>2. /\ Len(all) = n + i
      /\ \A k \in 1 .. n + i : all[k] = IF k <= n THEN t[k] ELSE its[k - n]
  BY ConcatProperties
<1> PICK new : new = [k \in 1 .. i |-> CsvRow(hs, its[k])]
  OBVIOUS
<1>3. PICK S : r \in Seq(S)
  BY DEF Written
<1> PICK T : T = S \cup {CsvRow(hs, its[k]) : k \in 1 .. i}
  OBVIOUS
<1>4. r \in Seq(T)
  BY <1>3
<1>5. new \in Seq(T) /\ Len(new) = i /\ \A k \in 1 .. i : new[k] = CsvRow(hs, its[k])
  <2>1. new \in [1 .. i -> T]
    OBVIOUS
  <2> QED
    BY <1>1, <2>1
<1> PICK s : s = r \o new
  OBVIOUS
<1>6. Len(r) = n
  BY DEF Written
<1>7. /\ s \in Seq(T) /\ Len(s) = n + i
      /\ \A k \in 1 .. n + i : s[k] = IF k <= n THEN r[k] ELSE new[k - n]
  <2>1. new \in Seq(T) /\ Len(new) = i
    BY <1>5
  <2>2. /\ s \in Seq(T) /\ Len(s) = Len(r) + Len(new)
        /\ \A k \in 1 .. Len(r) + Len(new) : s[k] = IF k <= Len(r) THEN r[k] ELSE new[k - Len(r)]
    BY <1>4, <2>1, ConcatProperties
  <2> QED
    BY <1>6, <2>1, <2>2
<1>8. DOMAIN s = 1 .. n + i /\ DOMAIN r = 1 .. n
  BY <1>4, <1>6, <1>7, LenProperties
<1>9. ASSUME NEW k \in DOMAIN s, NEW h \in DOMAIN s[k] \cap DOMAIN all[k].fields
      PROVE  s[k][h] \in {all[k].fields[h], Text(0)}
  <2>1. k \in 1 .. n + i
    BY <1>8
  <2>2. CASE k <= n
    <3>1. k \in DOMAIN r /\ s[k] = r[k] /\ all[k] = t[k]
      BY <1>1, <1>2, <1>7, <1>8, <2>1, <2>2
    <3> QED
      BY <1>9, <3>1 DEF Written
  <2>3. CASE ~ (k <= n)
    <3>1. k - n \in 1 .. i
      BY <1>1, <2>1, <2>3
    <3>2. s[k] = CsvRow(hs, its[k - n]) /\ all[k] = its[k - n]
      BY <1>2, <1>5, <1>7, <2>1, <2>3, <3>1
    <3> QED
      BY <1>9, <3>2, CsvRowIs, SMTT(30)
  <2> QED
    BY <2>2, <2>3
<1>10. Written(all, s)
  BY <1>2, <1>7, <1>9 DEF Written
<1> QED
  BY <1>1, <1>10

-----------------------------------------------------------------------------
(* The storages.                                                            *)

StorageOK ==
    /\ taken \in Seq(Produced) /\ buffered \in Seq(Produced)
    /\ status = "none" => taken = <<>> /\ buffered = <<>> /\ rows = <<>>

\* A buffered storage has all in memory, and writes it sorted when it closes.
BufferedOK ==
    storageType \in {"json", "ordered"} =>
        /\ status = "open" => buffered = taken
        /\ status # "closed" => rows = <<>>
        /\ status = "closed" => \E w \in SortItems(taken) : rows = FileOf(storageType, w)

\* A stream is complete while it is open; what closing adds comes after.
StreamOK ==
    storageType = "jsonl" =>
        /\ status \in {"none", "open"} => Streamed(taken, rows)
        /\ rows \in Seq(Entered) /\ IsPrefix(Entries(Encoded(taken)), rows)

TableOK == storageType = "csv" => Written(taken, rows)

StorageInv == StorageOK /\ BufferedOK /\ StreamOK /\ TableOK

Blank == taken = <<>> /\ buffered = <<>> /\ rows = <<>> /\ status \in {"none", "open"}

LEMMA BlankOK == ASSUME StorageOK, Blank PROVE StorageInv
<1>0. taken = <<>> /\ buffered = <<>> /\ rows = <<>> /\ status \in {"none", "open"}
  BY DEF Blank
<1>1. BufferedOK
  BY <1>0 DEF BufferedOK
<1>2. StreamOK
  <2>1. Streamed(taken, rows)
    BY <1>0, StreamBegins
  <2> QED
    BY <1>0, <2>1 DEF StreamOK, Streamed
<1>3. TableOK
  <2>1. Len(<<>>) = 0 /\ DOMAIN <<>> = {} /\ <<>> \in Seq(Nat)
    OBVIOUS
  <2>2. Written(<<>>, <<>>)
    BY <2>1 DEF Written
  <2> QED
    BY <1>0, <2>2 DEF TableOK
<1> QED
  BY <1>1, <1>2, <1>3 DEF StorageInv

LEMMA BlankNext == StorageOK' /\ Blank' => StorageInv'
<1>1. StorageOK /\ Blank => StorageInv
  BY BlankOK
<1> QED
  BY <1>1, PTL

LEMMA StorageStarts == InitOutput => StorageInv
<1> SUFFICES ASSUME InitOutput PROVE StorageInv
  OBVIOUS
<1>1. taken = <<>> /\ buffered = <<>> /\ rows = <<>> /\ status = "none"
  BY DEF InitOutput
<1>2. StorageOK
  BY <1>1 DEF StorageOK
<1> QED
  BY <1>1, <1>2, BlankOK DEF Blank

LEMMA OpenKeeps == ASSUME StorageInv, OpenStorage PROVE StorageInv'
<1>1. /\ taken = <<>> /\ buffered = <<>> /\ rows = <<>>
      /\ status' = "open" /\ UNCHANGED <<taken, buffered, headers, rows>>
  BY DEF StorageInv, StorageOK, OpenStorage
<1>2. StorageOK'
  BY <1>1 DEF StorageOK
<1> QED
  BY <1>1, <1>2, BlankNext DEF Blank

LEMMA StoreKeeps ==
    ASSUME StorageInv, NEW its \in Seq(Produced), StoreBatch(its)
    PROVE  StorageInv'
<1>1. /\ status = "open" /\ status' = "open" /\ storageType' = storageType /\ taken' = taken \o its
      /\ StoreBuffered(its) \/ StoreJSONL(its) \/ StoreCSV(its)
  BY DEF StoreBatch
<1>2. taken \in Seq(Produced) /\ buffered \in Seq(Produced)
  BY DEF StorageInv, StorageOK
<1>3. StorageOK'
  <2>1. taken' \in Seq(Produced)
    BY <1>1, <1>2, ConcatProperties
  <2>2. buffered' \in Seq(Produced)
    <3>1. buffered \o its \in Seq(Produced)
      BY <1>2, ConcatProperties
    <3> QED
      BY <1>1, <1>2, <3>1 DEF StoreBuffered, StoreJSONL, StoreCSV
  <2> QED
    BY <1>1, <2>1, <2>2 DEF StorageOK
<1>4. BufferedOK'
  <2>1. CASE storageType \in {"json", "ordered"}
    <3>1. StoreBuffered(its)
      BY <1>1, <2>1 DEF StoreJSONL, StoreCSV
    <3>2. buffered = taken /\ rows = <<>>
      BY <1>1, <2>1 DEF StorageInv, BufferedOK
    <3> QED
      BY <1>1, <3>1, <3>2 DEF StoreBuffered, BufferedOK
  <2> QED
    BY <1>1, <2>1 DEF BufferedOK
<1>5. StreamOK'
  <2>1. CASE storageType = "jsonl"
    <3>1. rows' = rows \o Entries(Encoded(its))
      BY <1>1, <2>1 DEF StoreBuffered, StoreJSONL, StoreCSV
    <3>2. Streamed(taken, rows)
      BY <1>1, <2>1 DEF StorageInv, StreamOK
    <3>3. Streamed(taken \o its, rows \o Entries(Encoded(its)))
      BY <1>2, <3>2, StreamGrows
    <3>4. Streamed(taken', rows')
      BY <1>1, <3>1, <3>3
    <3> QED
      BY <3>4 DEF StreamOK, Streamed
  <2> QED
    BY <1>1, <2>1 DEF StreamOK
<1>6. TableOK'
  <2>1. CASE storageType = "csv"
    <3> PICK hs : hs = headers'
      OBVIOUS
    <3>1. rows' = rows \o [k \in DOMAIN its |-> CsvRow(hs, its[k])]
      BY <1>1, <2>1 DEF StoreBuffered, StoreJSONL, StoreCSV
    <3>2. Written(taken, rows)
      BY <2>1 DEF StorageInv, TableOK
    <3>3. Written(taken \o its, rows \o [k \in DOMAIN its |-> CsvRow(hs, its[k])])
      BY <1>2, <3>2, CsvGrows
    <3>4. Written(taken', rows')
      BY <1>1, <3>1, <3>3
    <3> QED
      BY <3>4 DEF TableOK
  <2> QED
    BY <1>1, <2>1 DEF TableOK
<1> QED
  BY <1>3, <1>4, <1>5, <1>6 DEF StorageInv

LEMMA CloseKeeps == ASSUME StorageInv, CloseStorage PROVE StorageInv'
<1>1. /\ status = "open" /\ status' = "closed" /\ buffered' = <<>>
      /\ storageType' = storageType /\ taken' = taken
      /\ CloseJSON \/ CloseJSONL \/ CloseCSV
  BY DEF CloseStorage
<1>2. taken \in Seq(Produced) /\ buffered \in Seq(Produced)
  BY DEF StorageInv, StorageOK
<1>3. StorageOK'
  BY <1>1, <1>2 DEF StorageOK
<1>4. BufferedOK'
  <2>1. CASE storageType = "json"
    <3>1. buffered = taken /\ CloseJSON
      BY <1>1, <2>1 DEF StorageInv, BufferedOK, CloseJSONL, CloseCSV
    <3>2. PICK s \in SortItems(taken) : rows' = IF Encoded(s) = s THEN Entries(s) ELSE <<>>
      BY <3>1 DEF CloseJSON
    <3>3. rows' = FileOf("json", s)
      BY <3>2 DEF FileOf
    <3> QED
      BY <1>1, <2>1, <3>3 DEF BufferedOK
  <2>2. CASE storageType = "ordered"
    <3>1. buffered = taken /\ rows = <<>> /\ CloseJSONL
      BY <1>1, <2>2 DEF StorageInv, BufferedOK, CloseJSON, CloseCSV
    <3>2. PICK s \in SortItems(taken) : rows' = <<>> \o Entries(Encoded(s))
      BY <3>1 DEF CloseJSONL
    <3>3. s \in Seq(Produced)
      BY <1>2, ItselfArranged, SortedIs
    <3>4. PICK l : Encodes(s, l)
      BY <3>3, EncodedIs
    <3>5. Entries(Encoded(s)) \in Seq(Entered)
      BY <3>3, <3>4, EntriesEncoded
    <3>6. rows' = Entries(Encoded(s))
      BY <3>2, <3>5, ConcatEmptySeq
    <3>7. rows' = FileOf("ordered", s)
      BY <3>6 DEF FileOf
    <3> QED
      BY <1>1, <2>2, <3>7 DEF BufferedOK
  <2> QED
    BY <1>1, <2>1, <2>2 DEF BufferedOK
<1>5. StreamOK'
  <2>1. CASE storageType = "jsonl"
    <3>1. CloseJSONL /\ rows \in Seq(Entered) /\ IsPrefix(Entries(Encoded(taken)), rows)
      BY <1>1, <2>1 DEF StorageInv, StreamOK, CloseJSON, CloseCSV
    <3>2. PICK s \in SortItems(buffered) : rows' = rows \o Entries(Encoded(s))
      BY <3>1 DEF CloseJSONL
    <3>3. s \in Seq(Produced)
      BY <1>2, ItselfArranged, SortedIs
    <3>4. PICK l : Encodes(s, l)
      BY <3>3, EncodedIs
    <3>5. Entries(Encoded(s)) \in Seq(Entered)
      BY <3>3, <3>4, EntriesEncoded
    <3>6. PICK m : Encodes(taken, m)
      BY <1>2, EncodedIs
    <3>7. Entries(Encoded(taken)) \in Seq(Entered)
      BY <1>2, <3>6, EntriesEncoded
    <3>8. rows' \in Seq(Entered) /\ IsPrefix(Entries(Encoded(taken)), rows')
      BY <3>1, <3>2, <3>5, <3>7, PrefixOn
    <3>9. rows' \in Seq(Entered) /\ IsPrefix(Entries(Encoded(taken')), rows')
      BY <1>1, <3>8
    <3> QED
      BY <1>1, <3>9 DEF StreamOK
  <2> QED
    BY <1>1, <2>1 DEF StreamOK
<1>6. TableOK'
  <2>1. CASE storageType = "csv"
    <3>1. rows' = rows
      BY <1>1, <2>1 DEF CloseJSON, CloseJSONL, CloseCSV
    <3>2. Written(taken, rows)
      BY <2>1 DEF StorageInv, TableOK
    <3>3. Written(taken', rows')
      BY <1>1, <3>1, <3>2
    <3> QED
      BY <3>3 DEF TableOK
  <2> QED
    BY <1>1, <2>1 DEF TableOK
<1> QED
  BY <1>3, <1>4, <1>5, <1>6 DEF StorageInv

LEMMA CrashKeeps == ASSUME StorageInv, CrashStorage PROVE StorageInv'
<1>1. /\ status = "open" /\ status' = "gone" /\ buffered' = <<>>
      /\ storageType' = storageType /\ taken' = taken /\ rows' = rows
  BY DEF CrashStorage
<1>2. StorageOK'
  BY <1>1 DEF StorageInv, StorageOK
<1>3. BufferedOK'
  BY <1>1 DEF StorageInv, BufferedOK
<1>4. StreamOK'
  BY <1>1 DEF StorageInv, StreamOK
<1>5. TableOK'
  <2>1. storageType = "csv" => Written(taken, rows)
    BY DEF StorageInv, TableOK
  <2>2. storageType' = "csv" => Written(taken', rows')
    BY <1>1, <2>1
  <2> QED
    BY <2>2 DEF TableOK
<1> QED
  BY <1>2, <1>3, <1>4, <1>5 DEF StorageInv

LEMMA StorageStands == ASSUME StorageInv, UNCHANGED output PROVE StorageInv'
<1>1. /\ status' = status /\ buffered' = buffered
      /\ storageType' = storageType /\ taken' = taken /\ rows' = rows
  BY DEF output
<1>2. StorageOK'
  BY <1>1 DEF StorageInv, StorageOK
<1>3. BufferedOK'
  BY <1>1 DEF StorageInv, BufferedOK
<1>4. StreamOK'
  <2>1. storageType = "jsonl" =>
            /\ status \in {"none", "open"} => Streamed(taken, rows)
            /\ rows \in Seq(Entered) /\ IsPrefix(Entries(Encoded(taken)), rows)
    BY DEF StorageInv, StreamOK
  <2>2. storageType' = "jsonl" =>
            /\ status' \in {"none", "open"} => Streamed(taken', rows')
            /\ rows' \in Seq(Entered) /\ IsPrefix(Entries(Encoded(taken')), rows')
    BY <1>1, <2>1
  <2> QED
    BY <2>2 DEF StreamOK
<1>5. TableOK'
  <2>1. storageType = "csv" => Written(taken, rows)
    BY DEF StorageInv, TableOK
  <2>2. storageType' = "csv" => Written(taken', rows')
    BY <1>1, <2>1
  <2> QED
    BY <2>2 DEF TableOK
<1> QED
  BY <1>2, <1>3, <1>4, <1>5 DEF StorageInv

\* file.go: whatever the batches, and without a hypothesis on rules or pages, a
\* JSON or ordered file is a sorted arrangement of all items given once it is
\* closed and is empty before; a JSONL stream has all of them as they were
\* given, up to the first that JSON cannot encode; a CSV table a row for each.
THEOREM FileHoldsItems == StorageSpec => []StorageInv
<1>1. StorageInv /\ [NextStorage]_output => StorageInv'
  <2> SUFFICES ASSUME StorageInv, [NextStorage]_output PROVE StorageInv'
    OBVIOUS
  <2>1. CASE OpenStorage
    BY <2>1, OpenKeeps
  <2>2. CASE CloseStorage
    BY <2>2, CloseKeeps
  <2>3. CASE CrashStorage
    BY <2>3, CrashKeeps
  <2>4. CASE \E its \in Seq(Produced) : StoreBatch(its)
    BY <2>4, StoreKeeps
  <2>5. CASE UNCHANGED output
    BY <2>5, StorageStands
  <2> QED
    BY <2>1, <2>2, <2>3, <2>4, <2>5 DEF NextStorage
<1> QED
  BY <1>1, StorageStarts, PTL DEF StorageSpec

\* docs/REPLAY.md:102-116, order.go:11-31, derive.go:121-125: the file of an
\* ordered storage is determined by the items, and an item by its claims, for
\* rules that claim a field by one method only if they match the same texts, and
\* for names and values of which no two give the same name=text: no "=" in a
\* name makes it another's, and no text is what another value is in JSON. (Names
\* and texts hold no NUL, which separates them in a key.)
THEOREM FileDetermined ==
    ASSUME MethodsTellRules, KeysTellFields
    PROVE  StorageSpec => []OutputIsDetermined
<1>1. StorageInv => OutputIsDetermined
  <2> SUFFICES ASSUME StorageInv PROVE OutputIsDetermined
    OBVIOUS
  <2>1. taken \in Seq(Produced)
    BY DEF StorageInv, StorageOK
  <2>2. ASSUME NEW k \in DOMAIN taken, taken[k].claims # <<>>,
               NEW read \in Arrangements(taken[k].claims)
        PROVE  ItemFromAssertions(read) = taken[k].fields
    <3>1. taken[k] \in Produced
      BY <2>1, KeysOfItems
    <3> QED
      BY <2>2, <3>1, ProducedViews
  <2>3. ASSUME storageType \in {"json", "ordered"}, status = "closed",
               NEW other \in Arrangements(taken), NEW s \in SortItems(other)
        PROVE  rows = IF storageType = "ordered" \/ Encoded(s) = s THEN Entries(Encoded(s)) ELSE <<>>
    <3>1. PICK w \in SortItems(taken) : rows = FileOf(storageType, w)
      BY <2>3 DEF StorageInv, BufferedOK
    <3>2. /\ w \in Seq(Produced) /\ s \in Seq(Produced) /\ Len(w) = Len(s)
          /\ \A k \in 1 .. Len(w) : OrderKey(w[k]) = OrderKey(s[k])
      BY <2>1, OneOrder
    <3>3. FileOf(storageType, w) = FileOf(storageType, s)
      BY <3>2, SameFile
    <3> QED
      BY <3>1, <3>3 DEF FileOf
  <2>4. storageType \in {"json", "ordered"} /\ status # "closed" => rows = <<>>
    BY DEF StorageInv, BufferedOK
  <2>5. storageType = "jsonl" => IsPrefix(Entries(Encoded(taken)), rows)
    BY DEF StorageInv, StreamOK
  <2>6. storageType = "csv" =>
            /\ Len(rows) = Len(taken)
            /\ \A k \in DOMAIN rows : \A h \in DOMAIN rows[k] \cap DOMAIN taken[k].fields :
                   rows[k][h] \in {taken[k].fields[h], Text(0)}
    BY DEF StorageInv, TableOK, Written
  <2> QED
    BY <2>2, <2>3, <2>4, <2>5, <2>6 DEF OutputIsDetermined
<1> QED
  BY <1>1, FileHoldsItems, PTL
=============================================================================
