----------------------------- MODULE MCCheckpoint -----------------------------
(* One worker, a seed and a page behind it, and one restart.               *)
EXTENDS CrawlCheckpoint, TLC

CONSTANTS w1, s, a

MCOneWorker == {w1}
MCUrl == {s, a}
MCSeeds == {s}
MCLinks == (s :> {a}) @@ (a :> {s})
MCOutcomes == (s :> {"page"}) @@ (a :> {"page", "retryable"})
MCMaxRetries == (s :> 0) @@ (a :> 1)
=============================================================================
