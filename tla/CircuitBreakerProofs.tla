------------------------ MODULE CircuitBreakerProofs ------------------------
(* The safety properties of CircuitBreaker, for any number of domains and  *)
(* workers, any threshold and any capacity.                                *)
EXTENDS CircuitBreaker, TLAPS

LEMMA FreshIsEntry == Fresh \in Entry
  BY BreakerAssumption, SMT DEF Fresh, Entry, State, BreakerAssumption

-----------------------------------------------------------------------------
(* What SetEntry does. *)

\* Evicting resets entries and touches nothing else.
LEMMA EvictType ==
    ASSUME NEW d \in Domain, NEW S, NEW f \in [Domain -> S], NEW x \in S
    PROVE  /\ Evict(d, f, x) \in [Domain -> S]
           /\ \A e \in Domain : Evict(d, f, x)[e] = f[e] \/ Evict(d, f, x)[e] = x
  BY DEF Evict

\* An evicted domain loses its entry and its history together.
LEMMA EvictTogether ==
    ASSUME NEW d \in Domain, NEW e \in Domain, e # d, TypeOK,
           NEW b \in Entry, NEW S \in SUBSET Worker, SetEntry(d, b, S)
    PROVE  \/ breaker'[e] = breaker[e] /\ since'[e] = since[e]
           \/ breaker'[e] = Fresh /\ since'[e] = {}
  <1>1. CASE Full(d)
    BY <1>1 DEF SetEntry, Evict, TypeOK
  <1>2. CASE ~Full(d)
    BY <1>2 DEF SetEntry, Evict, TypeOK
  <1> QED BY <1>1, <1>2

LEMMA SetOwnEntry ==
    ASSUME NEW d \in Domain, TypeOK,
           NEW b \in Entry, NEW S \in SUBSET Worker, SetEntry(d, b, S)
    PROVE  breaker'[d] = b /\ since'[d] = S
  <1>1. Evict(d, breaker, Fresh) \in [Domain -> Entry]
    BY EvictType, FreshIsEntry DEF TypeOK
  <1>2. Evict(d, since, {}) \in [Domain -> SUBSET Worker]
    BY EvictType DEF TypeOK
  <1> QED BY <1>1, <1>2 DEF SetEntry

\* The order keeps every entry that is not evicted, in at most MaxSize places.
LEMMA OrderType ==
    ASSUME NEW d \in Domain, TypeOK
    PROVE  /\ Order(d) \in Seq(Domain)
           /\ Len(Order(d)) <= MaxSize
           /\ \E i \in DOMAIN Order(d) : Order(d)[i] = d
           /\ \A e \in Known : (Full(d) /\ e = Head(order))
                                  \/ \E i \in DOMAIN Order(d) : Order(d)[i] = e
  <1>1. CASE d \in Known
    BY <1>1 DEF Order, TypeOK, Known, Full
  <1>2. CASE d \notin Known /\ ~Full(d)
    <2>1. Order(d) = Append(order, d)
      BY <1>2 DEF Order
    <2>2. Len(order) < MaxSize
      BY <1>2, BreakerAssumption DEF Full, TypeOK, BreakerAssumption
    <2>3. /\ Append(order, d) \in Seq(Domain)
          /\ Len(Append(order, d)) = Len(order) + 1
          /\ \A i \in 1 .. Len(order) : Append(order, d)[i] = order[i]
          /\ Append(order, d)[Len(order) + 1] = d
      BY DEF TypeOK
    <2>4. DOMAIN Append(order, d) = 1 .. Len(order) + 1 /\ DOMAIN order = 1 .. Len(order)
      BY <2>3 DEF TypeOK
    <2> QED BY <2>1, <2>2, <2>3, <2>4, BreakerAssumption DEF Known, TypeOK, BreakerAssumption
  <1>3. CASE d \notin Known /\ Full(d)
    <2> DEFINE rest == Tail(order)
    <2>1. Order(d) = Append(rest, d)
      BY <1>3 DEF Order
    <2>2. Len(order) = MaxSize /\ Len(order) > 0 /\ order # <<>>
      BY <1>3, BreakerAssumption DEF Full, TypeOK, BreakerAssumption
    <2>3. /\ rest \in Seq(Domain)
          /\ Len(rest) = Len(order) - 1
          /\ \A i \in 1 .. Len(rest) : rest[i] = order[i + 1]
          /\ Head(order) = order[1]
      BY <2>2 DEF TypeOK
    <2> HIDE DEF rest
    <2>4. /\ Append(rest, d) \in Seq(Domain)
          /\ Len(Append(rest, d)) = Len(order)
          /\ \A i \in 1 .. Len(rest) : Append(rest, d)[i] = rest[i]
          /\ Append(rest, d)[Len(order)] = d
          /\ DOMAIN Append(rest, d) = 1 .. Len(order)
          /\ DOMAIN order = 1 .. Len(order)
      BY <2>2, <2>3 DEF TypeOK
    <2>5. ASSUME NEW i \in DOMAIN order, i # 1
          PROVE  i - 1 \in DOMAIN Append(rest, d) /\ Append(rest, d)[i - 1] = order[i]
      BY <2>2, <2>3, <2>4, <2>5 DEF TypeOK
    <2>6. \A e \in Known : e = Head(order)
                              \/ \E i \in DOMAIN Append(rest, d) : Append(rest, d)[i] = e
      BY <2>3, <2>5 DEF Known
    <2> QED BY <1>3, <2>1, <2>2, <2>4, <2>6, BreakerAssumption DEF TypeOK, BreakerAssumption
  <1> QED BY <1>1, <1>2, <1>3

LEMMA SetEntryType ==
    ASSUME NEW d \in Domain, TypeOK,
           NEW b \in Entry, NEW S \in SUBSET Worker, SetEntry(d, b, S)
    PROVE  /\ breaker' \in [Domain -> Entry]
           /\ since' \in [Domain -> SUBSET Worker]
           /\ order' \in Seq(Domain) /\ Len(order') <= MaxSize
           /\ \A e \in Domain : breaker'[e] # Fresh => e \in Known'
  <1>1. breaker' \in [Domain -> Entry]
    <2>1. Evict(d, breaker, Fresh) \in [Domain -> Entry]
      BY EvictType, FreshIsEntry DEF TypeOK
    <2> QED BY <2>1 DEF SetEntry
  <1>2. since' \in [Domain -> SUBSET Worker]
    <2>1. Evict(d, since, {}) \in [Domain -> SUBSET Worker]
      BY EvictType DEF TypeOK
    <2> QED BY <2>1 DEF SetEntry
  <1>3. order' = Order(d)
    BY DEF SetEntry
  <1>4. ASSUME NEW e \in Domain, breaker'[e] # Fresh
        PROVE  e \in Known'
    <2>1. CASE e = d
      BY <2>1, <1>3, OrderType DEF Known
    <2>2. CASE e # d
      <3>1. breaker'[e] = breaker[e]
        BY <2>2, <1>4, EvictTogether
      <3>2. e \in Known
        BY <3>1, <1>4 DEF TypeOK
      <3>3. ~(Full(d) /\ e = Head(order))
        <4> SUFFICES ASSUME Full(d), e = Head(order) PROVE FALSE
          OBVIOUS
        <4>1. breaker' = [[breaker EXCEPT ![e] = Fresh] EXCEPT ![d] = b]
          BY DEF SetEntry, Evict
        <4> QED BY <4>1, <1>4, <2>2 DEF TypeOK
      <3>4. \E i \in DOMAIN Order(d) : Order(d)[i] = e
        BY <3>2, <3>3, OrderType
      <3> QED BY <1>3, <3>4 DEF Known
    <2> QED BY <2>1, <2>2
  <1> QED BY <1>1, <1>2, <1>3, <1>4, OrderType

-----------------------------------------------------------------------------
(* Every step sets one entry, or lets a cooldown elapse. *)

\* What a step may make of the entry of the domain it is about.
Admitted(b, c) ==
    \/ b.state = "closed" /\ c = b
    \/ b.state = "open" /\ c = [b EXCEPT !.state = "halfOpen", !.probing = TRUE]
    \/ b.state = "halfOpen" /\ ~b.probing /\ c = [b EXCEPT !.probing = TRUE]

\* The failures in a row after one more, as far as they are counted.
Run(b) == IF b.consecutive < Threshold THEN b.consecutive + 1 ELSE Threshold

OpenEntry(b) == [state |-> "open", consecutive |-> Run(b), probing |-> FALSE,
                 cooled |-> FALSE]

LEMMA RunType ==
    ASSUME NEW b \in Entry
    PROVE  /\ Run(b) \in 0 .. Threshold
           /\ OpenEntry(b) \in Entry
           /\ [b EXCEPT !.consecutive = Run(b), !.probing = FALSE] \in Entry
  <1>1. b.consecutive \in 0 .. Threshold /\ Threshold \in Nat
    BY BreakerAssumption DEF Entry, BreakerAssumption
  <1>2. Run(b) \in 0 .. Threshold
    BY <1>1 DEF Run
  <1> HIDE DEF Run
  <1>3. OpenEntry(b) \in Entry
    BY <1>2 DEF OpenEntry, Entry, State
  <1>4. [b EXCEPT !.consecutive = Run(b), !.probing = FALSE] \in Entry
    BY <1>2 DEF Entry
  <1> QED BY <1>2, <1>3, <1>4

\* Worker w starts a fetch from d, whose entry becomes c.
Starts(w, d, c) ==
    /\ fetching[w] = None /\ fetching' = [fetching EXCEPT ![w] = d]
    /\ Admitted(breaker[d], c)
    /\ SetEntry(d, c, IF c.state = "closed" THEN {} ELSE since[d] \cup {w})

\* What a report may make of it.
Reported(b, c) ==
    \/ c = Fresh
    \/ (b.state = "halfOpen" \/ Run(b) >= Threshold) /\ c = OpenEntry(b)
    \/ /\ b.state # "halfOpen" /\ Run(b) < Threshold
       /\ c = [b EXCEPT !.consecutive = Run(b), !.probing = FALSE]

\* Worker w ends its fetch from d; only a failure short of the threshold
\* leaves the history as it was.
Ends(w, d, c) ==
    /\ fetching[w] = d /\ fetching' = [fetching EXCEPT ![w] = None]
    /\ Reported(breaker[d], c)
    /\ \/ SetEntry(d, c, {})
       \/ /\ c.state = breaker[d].state /\ c.state # "halfOpen"
          /\ SetEntry(d, c, since[d])

LEMMA StepCases ==
    ASSUME TypeOK, Next
    PROVE  \/ \E w \in Worker, d \in Domain, c \in Entry : Starts(w, d, c)
           \/ \E w \in Worker, d \in Domain, c \in Entry : Ends(w, d, c)
           \/ \E d \in Domain : Cool(d)
  <1>1. ASSUME NEW w \in Worker, NEW d \in Domain, Allow(w, d)
        PROVE  \E c \in Entry : Starts(w, d, c)
    <2>1. breaker[d] \in Entry
      BY DEF TypeOK
    <2>2. \E c \in Entry : Admitted(breaker[d], c) /\ Admit(w, d, c)
      <3>1. CASE breaker[d].state = "closed" /\ Admit(w, d, breaker[d])
        BY <2>1, <3>1 DEF Admitted
      <3> DEFINE h == [breaker[d] EXCEPT !.state = "halfOpen", !.probing = TRUE]
                 p == [breaker[d] EXCEPT !.probing = TRUE]
      <3>2. h \in Entry /\ p \in Entry
        BY <2>1 DEF Entry, State
      <3>3. CASE breaker[d].state = "open" /\ Admit(w, d, h)
        BY <3>2, <3>3 DEF Admitted
      <3>4. CASE breaker[d].state = "halfOpen" /\ ~breaker[d].probing /\ Admit(w, d, p)
        BY <3>2, <3>4 DEF Admitted
      <3> QED BY <1>1, <3>1, <3>3, <3>4 DEF Allow
    <2>3. PICK c \in Entry : Admitted(breaker[d], c) /\ Admit(w, d, c)
      BY <2>2
    <2>4. fetching[w] = None
      BY <1>1 DEF Allow
    <2> QED BY <2>3, <2>4 DEF Admit, Starts
  <1>2. ASSUME NEW w \in Worker, RecordSuccess(w)
        PROVE  \E d \in Domain, c \in Entry : Ends(w, d, c)
    <2>1. fetching[w] \in Domain
      BY <1>2 DEF RecordSuccess, TypeOK
    <2>2. Ends(w, fetching[w], Fresh)
      BY <1>2 DEF RecordSuccess, Ends, Reported
    <2> QED BY <2>1, <2>2, FreshIsEntry
  <1>3. ASSUME NEW w \in Worker, RecordFailure(w)
        PROVE  \E d \in Domain, c \in Entry : Ends(w, d, c)
    <2> DEFINE d == fetching[w]
               b == breaker[d]
               c == [b EXCEPT !.consecutive = Run(b), !.probing = FALSE]
    <2>1. d \in Domain /\ fetching' = [fetching EXCEPT ![w] = None]
      BY <1>3 DEF RecordFailure, TypeOK
    <2>2. b \in Entry
      BY <2>1 DEF TypeOK
    <2>3. Run(b) \in 0 .. Threshold /\ OpenEntry(b) \in Entry /\ c \in Entry
      BY <2>2, RunType
    <2>4. IF b.state = "halfOpen" \/ Run(b) >= Threshold
          THEN SetEntry(d, OpenEntry(b), {})
          ELSE SetEntry(d, c, since[d])
      BY <1>3 DEF RecordFailure, Run, OpenEntry
    <2>5. CASE b.state = "halfOpen" \/ Run(b) >= Threshold
      <3>1. Ends(w, d, OpenEntry(b))
        BY <2>1, <2>4, <2>5 DEF Ends, Reported
      <3> QED BY <2>1, <2>3, <3>1
    <2>6. CASE ~(b.state = "halfOpen" \/ Run(b) >= Threshold)
      <3>1. Threshold \in Nat
        BY BreakerAssumption DEF BreakerAssumption
      <3>2. Run(b) < Threshold
        <4> DEFINE n == Run(b)
        <4>1. n \in 0 .. Threshold /\ ~(n >= Threshold)
          BY <2>3, <2>6
        <4> HIDE DEF n
        <4>2. n < Threshold
          BY <3>1, <4>1
        <4> QED BY <4>2 DEF n
      <3>3. c.state = b.state
        BY <2>2 DEF Entry
      <3>4. Ends(w, d, c)
        BY <2>1, <2>4, <2>6, <3>2, <3>3 DEF Ends, Reported
      <3> QED BY <2>1, <2>3, <3>4
    <2> QED BY <2>5, <2>6
  <1>4. ASSUME NEW w \in Worker, Report(w)
        PROVE  \E d \in Domain, c \in Entry : Ends(w, d, c)
    BY <1>2, <1>3, <1>4 DEF Report
  <1> QED BY <1>1, <1>4 DEF Next

-----------------------------------------------------------------------------
(* Type correctness. *)

LEMMA TypeStep ==
    ASSUME TypeOK, [Next]_vars
    PROVE  TypeOK'
  <1>1. CASE UNCHANGED vars
    BY <1>1 DEF vars, TypeOK, Known
  <1>2. ASSUME NEW w \in Worker, NEW d \in Domain, NEW c \in Entry, Starts(w, d, c)
        PROVE  TypeOK'
    <2> DEFINE S == IF c.state = "closed" THEN {} ELSE since[d] \cup {w}
    <2>1. S \in SUBSET Worker /\ SetEntry(d, c, S)
      BY <1>2 DEF Starts, TypeOK
    <2>2. fetching' \in [Worker -> Domain \cup {None}]
      BY <1>2 DEF Starts, TypeOK
    <2> HIDE DEF S
    <2> QED BY <2>1, <2>2, SetEntryType DEF TypeOK
  <1>3. ASSUME NEW w \in Worker, NEW d \in Domain, NEW c \in Entry, Ends(w, d, c)
        PROVE  TypeOK'
    <2>1. PICK S \in SUBSET Worker : SetEntry(d, c, S)
      BY <1>3 DEF Ends, TypeOK
    <2>2. fetching' \in [Worker -> Domain \cup {None}]
      BY <1>3 DEF Ends, TypeOK
    <2> QED BY <2>1, <2>2, SetEntryType DEF TypeOK
  <1>4. ASSUME NEW d \in Domain, Cool(d)
        PROVE  TypeOK'
    <2>1. breaker[d] \in Entry /\ breaker[d].state = "open"
      BY <1>4 DEF Cool, TypeOK
    <2>2. [breaker[d] EXCEPT !.cooled = TRUE] \in Entry
      BY <2>1 DEF Entry
    <2>3. breaker' = [breaker EXCEPT ![d] = [breaker[d] EXCEPT !.cooled = TRUE]]
      BY <1>4 DEF Cool
    <2>4. breaker[d] # Fresh
      BY <2>1 DEF Fresh
    <2> QED BY <1>4, <2>2, <2>3, <2>4 DEF Cool, TypeOK, Known
  <1> QED BY <1>1, <1>2, <1>3, <1>4, StepCases

(* The entries, their order, and who is fetching stay well formed; no more  *)
(* than MaxSize domains are remembered.                                     *)
THEOREM TypeCorrect == Spec => []TypeOK
  <1>1. Init => TypeOK
    <2> SUFFICES ASSUME Init PROVE TypeOK
      OBVIOUS
    <2>1. order \in Seq(Domain) /\ Len(order) = 0
      BY DEF Init
    <2> QED BY <2>1, FreshIsEntry, BreakerAssumption DEF Init, TypeOK, BreakerAssumption
  <1> QED BY <1>1, TypeStep, PTL DEF Spec

-----------------------------------------------------------------------------
(* The circuit and the failure run. *)

StateOf(b) == b.state = "closed" <=> b.consecutive < Threshold

LEMMA StateKept ==
    ASSUME NEW b \in Entry, NEW c \in Entry, StateOf(b),
           Admitted(b, c) \/ Reported(b, c)
    PROVE  StateOf(c)
  <1>1. b.consecutive \in 0 .. Threshold /\ Threshold \in Nat \ {0}
    BY BreakerAssumption DEF Entry, BreakerAssumption
  <1>2. CASE Admitted(b, c)
    BY <1>2 DEF Admitted, StateOf, Entry
  <1>3. CASE c = Fresh
    BY <1>1, <1>3 DEF StateOf, Fresh
  <1>4. CASE (b.state = "halfOpen" \/ Run(b) >= Threshold) /\ c = OpenEntry(b)
    <2>1. Run(b) = Threshold
      BY <1>1, <1>4 DEF StateOf, Run
    <2>2. c.consecutive = Threshold /\ c.state = "open"
      BY <1>4, <2>1 DEF OpenEntry
    <2> QED BY <1>1, <2>2 DEF StateOf
  <1>5. CASE /\ b.state # "halfOpen" /\ Run(b) < Threshold
             /\ c = [b EXCEPT !.consecutive = Run(b), !.probing = FALSE]
    <2>1. b.consecutive < Threshold
      BY <1>1, <1>5 DEF Run
    <2>2. c.state = b.state /\ c.consecutive = Run(b)
      BY <1>5 DEF Entry
    <2> QED BY <1>5, <2>1, <2>2 DEF StateOf
  <1> QED BY <1>2, <1>3, <1>4, <1>5 DEF Reported

LEMMA StateStep ==
    ASSUME TypeOK, StateByRun, [Next]_vars
    PROVE  StateByRun'
  <1> SUFFICES ASSUME NEW e \in Domain
               PROVE  StateOf(breaker'[e])
    BY DEF StateByRun, StateOf
  <1>0. StateOf(breaker[e]) /\ breaker[e] \in Entry
    BY DEF StateByRun, StateOf, TypeOK
  <1>1. CASE UNCHANGED vars
    BY <1>0, <1>1 DEF vars
  <1>2. ASSUME NEW d \in Domain, NEW c \in Entry, NEW S \in SUBSET Worker,
               SetEntry(d, c, S), Admitted(breaker[d], c) \/ Reported(breaker[d], c)
        PROVE  StateOf(breaker'[e])
    <2>1. CASE e = d
      BY <1>0, <1>2, <2>1, SetOwnEntry, StateKept
    <2>2. CASE e # d
      <3>1. StateOf(Fresh)
        BY BreakerAssumption DEF BreakerAssumption, StateOf, Fresh
      <3>2. breaker'[e] = breaker[e] \/ breaker'[e] = Fresh
        BY <1>2, <2>2, EvictTogether
      <3> QED BY <1>0, <3>1, <3>2
    <2> QED BY <2>1, <2>2
  <1>3. ASSUME NEW w \in Worker, NEW d \in Domain, NEW c \in Entry, Starts(w, d, c)
        PROVE  StateOf(breaker'[e])
    <2> DEFINE S == IF c.state = "closed" THEN {} ELSE since[d] \cup {w}
    <2>1. S \in SUBSET Worker /\ SetEntry(d, c, S) /\ Admitted(breaker[d], c)
      BY <1>3 DEF Starts, TypeOK
    <2> HIDE DEF S
    <2> QED BY <2>1, <1>2
  <1>4. ASSUME NEW w \in Worker, NEW d \in Domain, NEW c \in Entry, Ends(w, d, c)
        PROVE  StateOf(breaker'[e])
    <2>1. PICK S \in SUBSET Worker : SetEntry(d, c, S)
      BY <1>4 DEF Ends, TypeOK
    <2> QED BY <2>1, <1>2, <1>4 DEF Ends
  <1>5. ASSUME NEW d \in Domain, Cool(d)
        PROVE  StateOf(breaker'[e])
    BY <1>0, <1>5 DEF Cool, TypeOK, Entry, StateOf
  <1> QED BY <1>1, <1>3, <1>4, <1>5, StepCases

(* However many stale results arrive, in whatever state, a circuit is       *)
(* closed exactly while its failures in a row are below the threshold.      *)
THEOREM ClosedBelowThreshold == Spec => []StateByRun
  <1>1. Init => StateByRun
    <2>1. Fresh.state = "closed" /\ Fresh.consecutive = 0
      BY DEF Fresh
    <2>2. Init => \A d \in Domain : breaker[d] = Fresh
      BY DEF Init
    <2>3. StateOf(Fresh)
      BY <2>1, BreakerAssumption DEF StateOf, BreakerAssumption
    <2> QED BY <2>2, <2>3 DEF StateByRun, StateOf
  <1> QED BY <1>1, TypeCorrect, StateStep, PTL DEF Spec

-----------------------------------------------------------------------------
(* The probe. *)

\* What makes HalfOpenIsOneProbe inductive: the history of an open circuit is
\* empty, so the request that half-opens it is the only one in it.
ProbeOf(d) ==
    /\ breaker[d].probing <=> breaker[d].state = "halfOpen"
    /\ breaker[d].state = "halfOpen" =>
          \E w \in Worker : since[d] = {w} /\ fetching[w] = d
    /\ breaker[d].state = "open" => since[d] = {}

ProbeInv == \A d \in Domain : ProbeOf(d)

\* A domain the step is not about keeps its probe, which is not the worker
\* that starts or ends a fetch elsewhere.
LEMMA OtherProbe ==
    ASSUME TypeOK, NEW d \in Domain, NEW e \in Domain, e # d, ProbeOf(e),
           NEW w \in Worker, fetching[w] \in {d, None},
           NEW x, fetching' = [fetching EXCEPT ![w] = x],
           NEW c \in Entry, NEW S \in SUBSET Worker, SetEntry(d, c, S)
    PROVE  ProbeOf(e)'
  <1>1. CASE breaker'[e] = Fresh /\ since'[e] = {}
    BY <1>1 DEF ProbeOf, Fresh
  <1>2. CASE breaker'[e] = breaker[e] /\ since'[e] = since[e]
    <2>1. ASSUME NEW v \in Worker, fetching[v] = e
          PROVE  fetching'[v] = e
      <3>1. v # w
        BY <2>1, BreakerAssumption DEF BreakerAssumption
      <3> QED BY <2>1, <3>1 DEF TypeOK
    <2> QED BY <1>2, <2>1 DEF ProbeOf
  <1> QED BY <1>1, <1>2, EvictTogether

LEMMA ProbeStep ==
    ASSUME TypeOK, ProbeInv, [Next]_vars
    PROVE  ProbeInv'
  <1>1. CASE UNCHANGED vars
    BY <1>1 DEF vars, ProbeInv, ProbeOf
  <1>2. ASSUME NEW w \in Worker, NEW d \in Domain, NEW c \in Entry, Starts(w, d, c)
        PROVE  ProbeInv'
    <2> DEFINE S == IF c.state = "closed" THEN {} ELSE since[d] \cup {w}
    <2>1. S \in SUBSET Worker /\ SetEntry(d, c, S) /\ Admitted(breaker[d], c)
      BY <1>2 DEF Starts, TypeOK
    <2>2. fetching[w] = None /\ fetching' = [fetching EXCEPT ![w] = d]
      BY <1>2 DEF Starts
    <2>3. fetching'[w] = d
      BY <2>2 DEF TypeOK
    <2>4. breaker'[d] = c /\ since'[d] = S
      BY <2>1, SetOwnEntry
    <2>5. breaker[d] \in Entry /\ ProbeOf(d)
      BY DEF TypeOK, ProbeInv
    <2>6. ProbeOf(d)'
      <3>1. CASE breaker[d].state = "closed" /\ c = breaker[d]
        BY <2>4, <2>5, <3>1 DEF ProbeOf
      <3>2. CASE breaker[d].state = "open"
                 /\ c = [breaker[d] EXCEPT !.state = "halfOpen", !.probing = TRUE]
        <4>1. c.state = "halfOpen" /\ c.probing
          BY <2>5, <3>2 DEF Entry
        <4>2. S = {w}
          BY <2>5, <3>2, <4>1 DEF ProbeOf
        <4> QED BY <2>3, <2>4, <4>1, <4>2 DEF ProbeOf
      <3>3. CASE breaker[d].state = "halfOpen" /\ ~breaker[d].probing
        BY <2>5, <3>3 DEF ProbeOf
      <3> QED BY <2>1, <3>1, <3>2, <3>3 DEF Admitted
    <2> HIDE DEF S
    <2>7. ASSUME NEW e \in Domain, e # d
          PROVE  ProbeOf(e)'
      BY <2>1, <2>2, <2>7, OtherProbe DEF ProbeInv
    <2> QED BY <2>6, <2>7 DEF ProbeInv
  <1>3. ASSUME NEW w \in Worker, NEW d \in Domain, NEW c \in Entry, Ends(w, d, c)
        PROVE  ProbeInv'
    <2>1. PICK S \in SUBSET Worker :
              /\ SetEntry(d, c, S)
              /\ \/ S = {}
                 \/ S = since[d] /\ c.state = breaker[d].state /\ c.state # "halfOpen"
      BY <1>3 DEF Ends, TypeOK
    <2>2. fetching[w] = d /\ fetching' = [fetching EXCEPT ![w] = None]
      BY <1>3 DEF Ends
    <2>3. breaker'[d] = c /\ since'[d] = S
      BY <2>1, SetOwnEntry
    <2>4. breaker[d] \in Entry /\ ProbeOf(d)
      BY DEF TypeOK, ProbeInv
    <2>5. c.state # "halfOpen" /\ ~c.probing
      <3>1. CASE c = Fresh
        BY <3>1 DEF Fresh
      <3>2. CASE c = OpenEntry(breaker[d])
        BY <3>2 DEF OpenEntry
      <3>3. CASE /\ breaker[d].state # "halfOpen"
                 /\ c = [breaker[d] EXCEPT !.consecutive = Run(breaker[d]), !.probing = FALSE]
        BY <2>4, <3>3 DEF Entry
      <3> QED BY <1>3, <3>1, <3>2, <3>3 DEF Ends, Reported
    <2>6. c.state = "open" => S = {}
      BY <2>1, <2>4 DEF ProbeOf
    <2>7. ProbeOf(d)'
      BY <2>3, <2>5, <2>6 DEF ProbeOf
    <2>8. ASSUME NEW e \in Domain, e # d
          PROVE  ProbeOf(e)'
      BY <2>1, <2>2, <2>8, OtherProbe DEF ProbeInv
    <2> QED BY <2>7, <2>8 DEF ProbeInv
  <1>4. ASSUME NEW d \in Domain, Cool(d)
        PROVE  ProbeInv'
    <2>1. \A e \in Domain : /\ breaker'[e].state = breaker[e].state
                            /\ breaker'[e].probing = breaker[e].probing
      BY <1>4 DEF Cool, TypeOK, Entry
    <2>2. since' = since /\ fetching' = fetching
      BY <1>4 DEF Cool
    <2> QED BY <2>1, <2>2 DEF ProbeInv, ProbeOf
  <1> QED BY <1>1, <1>2, <1>3, <1>4, StepCases

(* A half-open circuit always rests on one request that will report.        *)
THEOREM OneProbe == Spec => []HalfOpenIsOneProbe
  <1>1. Init => ProbeInv
    <2>1. Fresh.state = "closed" /\ ~Fresh.probing
      BY DEF Fresh
    <2>2. Init => \A d \in Domain : breaker[d] = Fresh
      BY DEF Init
    <2> QED BY <2>1, <2>2 DEF ProbeInv, ProbeOf
  <1>2. ProbeInv => HalfOpenIsOneProbe
    BY DEF ProbeInv, ProbeOf, HalfOpenIsOneProbe
  <1> QED BY <1>1, <1>2, TypeCorrect, ProbeStep, PTL DEF Spec
=============================================================================
