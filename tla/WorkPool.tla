------------------------------ MODULE WorkPool ------------------------------
(***************************************************************************)
(* What the frontier promises its callers, with no lock, channel, heap or  *)
(* rate limiter in it: a pool of requests handed out to one worker at a    *)
(* time, which loses nothing while it is open.                             *)
(*                                                                         *)
(* A request is "arriving" while some caller has still to push it: a seed, *)
(* a discovered link, or a retry waiting out its backoff.                  *)
(***************************************************************************)
CONSTANT Req

VARIABLES status, open

poolVars == <<status, open>>

Stage == {"arriving", "queued", "held", "finished", "dropped"}

PoolInit ==
    /\ status = [r \in Req |-> "arriving"]
    /\ open = TRUE

Move(r, from, to) ==
    /\ status[r] = from
    /\ status' = [status EXCEPT ![r] = to]
    /\ UNCHANGED open

\* An open pool keeps what it is given; a closed one may refuse it.
Accept(r) == open /\ Move(r, "arriving", "queued")
Refuse(r) == ~open /\ \E from \in {"arriving", "queued"} : Move(r, from, "dropped")

\* A request is handed to one holder, who either finishes it or has it
\* pushed again later.
HandOut(r) == Move(r, "queued", "held")
Finish(r)  == Move(r, "held", "finished")
Again(r)   == Move(r, "held", "arriving")

Shut == open /\ open' = FALSE /\ UNCHANGED status

PoolNext ==
    \/ Shut
    \/ \E r \in Req : Accept(r) \/ Refuse(r) \/ HandOut(r) \/ Finish(r) \/ Again(r)

PoolSpec == PoolInit /\ [][PoolNext]_poolVars
=============================================================================
