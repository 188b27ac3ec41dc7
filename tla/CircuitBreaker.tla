--------------------------- MODULE CircuitBreaker ---------------------------
(***************************************************************************)
(* internal/engine/backoff.go: the per-domain circuit breaker, with the    *)
(* workers of scheduler.go that ask it before a fetch and report to it     *)
(* after. A result may come back long after the circuit has changed state, *)
(* or after the domain's entry has been evicted and made anew.             *)
(*                                                                         *)
(* Time is kept as far as Allow looks at it: whether the cooldown of an    *)
(* open circuit has elapsed. The failure count is kept up to the threshold *)
(* it is compared with.                                                    *)
(***************************************************************************)
EXTENDS Naturals, Sequences

CONSTANTS
    Domain,
    Worker,
    Threshold,  \* cfg.Engine.CircuitBreakerThreshold; 0 would disable it
    MaxSize,    \* the domains it keeps an entry for
    None

ASSUME BreakerAssumption ==
    /\ Threshold \in Nat \ {0}
    /\ MaxSize \in Nat \ {0}
    /\ None \notin Domain

VARIABLES
    breaker,   \* each domain's entry; Fresh if it has none
    order,     \* the domains that have one, oldest first
    fetching,  \* the domain each worker is fetching from
    since      \* history: workers admitted to a domain since its circuit opened

vars == <<breaker, order, fetching, since>>

State == {"closed", "open", "halfOpen"}
Entry == [state : State, consecutive : 0 .. Threshold, probing : BOOLEAN,
          cooled : BOOLEAN]
Fresh == [state |-> "closed", consecutive |-> 0, probing |-> FALSE, cooled |-> FALSE]

Known == {order[i] : i \in DOMAIN order}

TypeOK ==
    /\ breaker \in [Domain -> Entry]
    /\ order \in Seq(Domain)
    /\ Len(order) <= MaxSize
    /\ \A d \in Domain : breaker[d] # Fresh => d \in Known
    /\ fetching \in [Worker -> Domain \cup {None}]
    /\ since \in [Domain -> SUBSET Worker]

Init ==
    /\ breaker = [d \in Domain |-> Fresh]
    /\ order = <<>>
    /\ fetching = [w \in Worker |-> None]
    /\ since = [d \in Domain |-> {}]

-----------------------------------------------------------------------------
Full(d) == d \notin Known /\ Len(order) >= MaxSize

\* get: a new domain's entry pushes the oldest out.
Evict(d, f, none) == IF Full(d) THEN [f EXCEPT ![Head(order)] = none] ELSE f

Order(d) == IF d \in Known THEN order
            ELSE Append(IF Full(d) THEN Tail(order) ELSE order, d)

\* The entry get(d) returns becomes b; S have been admitted since it opened.
SetEntry(d, b, S) ==
    /\ breaker' = [Evict(d, breaker, Fresh) EXCEPT ![d] = b]
    /\ since' = [Evict(d, since, {}) EXCEPT ![d] = S]
    /\ order' = Order(d)

Admit(w, d, b) ==
    /\ SetEntry(d, b, IF b.state = "closed" THEN {} ELSE since[d] \cup {w})
    /\ fetching' = [fetching EXCEPT ![w] = d]

\* Mutant: a half-open circuit admits whoever asks.
AllowAnyProbe(w, d) ==
    LET b == breaker[d] IN
    /\ fetching[w] = None
    /\ \/ b.state = "closed" /\ Admit(w, d, b)
       \/ b.state = "open" /\ b.cooled
          /\ Admit(w, d, [b EXCEPT !.state = "halfOpen", !.probing = TRUE])
       \/ b.state = "halfOpen"
          /\ Admit(w, d, [b EXCEPT !.probing = TRUE])

\* Allow, where it returns true. Where it returns false nothing changes.
Allow(w, d) ==
    LET b == breaker[d] IN
    /\ fetching[w] = None
    /\ \/ b.state = "closed" /\ Admit(w, d, b)
       \/ b.state = "open" /\ b.cooled
          /\ Admit(w, d, [b EXCEPT !.state = "halfOpen", !.probing = TRUE])
       \/ b.state = "halfOpen" /\ ~b.probing
          /\ Admit(w, d, [b EXCEPT !.probing = TRUE])

RecordSuccess(w) ==
    /\ fetching[w] # None
    /\ SetEntry(fetching[w], Fresh, {})
    /\ fetching' = [fetching EXCEPT ![w] = None]

\* Mutant: returns early, without a word to the breaker, from a half-open domain.
RecordFailureUnlessProbing(w) ==
    /\ fetching[w] # None
    /\ LET d == fetching[w]
           b == breaker[d]
           run == IF b.consecutive < Threshold THEN b.consecutive + 1 ELSE Threshold
       IN  IF b.probing
           THEN UNCHANGED <<breaker, order, since>>
           ELSE IF run >= Threshold
           THEN SetEntry(d, [state |-> "open", consecutive |-> run,
                             probing |-> FALSE, cooled |-> FALSE], {})
           ELSE SetEntry(d, [b EXCEPT !.consecutive = run], since[d])
    /\ fetching' = [fetching EXCEPT ![w] = None]

\* A failure in a half-open circuit, or one that completes the run, opens the
\* circuit and starts the cooldown, even if the circuit is open already.
RecordFailure(w) ==
    /\ fetching[w] # None
    /\ LET d == fetching[w]
           b == breaker[d]
           run == IF b.consecutive < Threshold THEN b.consecutive + 1 ELSE Threshold
       IN  IF b.state = "halfOpen" \/ run >= Threshold
           THEN SetEntry(d, [state |-> "open", consecutive |-> run,
                             probing |-> FALSE, cooled |-> FALSE], {})
           ELSE SetEntry(d, [b EXCEPT !.consecutive = run, !.probing = FALSE], since[d])
    /\ fetching' = [fetching EXCEPT ![w] = None]

\* Time passes: an open circuit's cooldown elapses.
Cool(d) ==
    /\ breaker[d].state = "open" /\ ~breaker[d].cooled
    /\ breaker' = [breaker EXCEPT ![d].cooled = TRUE]
    /\ UNCHANGED <<order, fetching, since>>

Report(w) == RecordSuccess(w) \/ RecordFailure(w)

Next ==
    \/ \E w \in Worker : Report(w) \/ \E d \in Domain : Allow(w, d)
    \/ \E d \in Domain : Cool(d)

Spec == Init /\ [][Next]_vars

\* processRequest reports every fetch it was allowed, and a fetch ends.
FairSpec == Spec /\ \A w \in Worker : WF_vars(Report(w))

-----------------------------------------------------------------------------
(* Properties. *)

(* A half-open circuit rests on exactly one request: of those admitted     *)
(* since it opened, one and only one, still being fetched, so the circuit  *)
(* neither lets a second probe through (backoff.go:139-143) nor waits for  *)
(* a probe that has already reported and will never report again, and a    *)
(* result sent before the circuit opened or an eviction changes nothing    *)
(* about it.                                                               *)
HalfOpenIsOneProbe ==
    \A d \in Domain :
        /\ breaker[d].probing <=> breaker[d].state = "halfOpen"
        /\ breaker[d].state = "halfOpen" =>
              \E w \in Worker : since[d] = {w} /\ fetching[w] = d

(* The circuit is closed exactly while the failures in a row are fewer     *)
(* than the threshold, however many stale results arrive and whatever      *)
(* state they find it in: in particular a closed circuit never reopens at  *)
(* the first failure after a recovery (backoff.go:175-211).                *)
StateByRun ==
    \A d \in Domain :
        breaker[d].state = "closed" <=> breaker[d].consecutive < Threshold

(* No domain stays half-open: the probe's answer always comes.             *)
ProbeIsAnswered ==
    \A d \in Domain : breaker[d].state = "halfOpen" ~> breaker[d].state # "halfOpen"
=============================================================================
