------------------------------ MODULE MCCrawl ------------------------------
(* Two workers on a site of three pages: two seeds that link to each other *)
(* and to a third page, which links back.                                   *)
EXTENDS Crawl, TLC

CONSTANTS w1, w2, s, a, b

MCWorker == {w1, w2}
MCUrl == {s, a, b}
MCSeeds == {s, a}
MCLinks == (s :> {b}) @@ (a :> {b, s}) @@ (b :> {a})
MCOutcomes == (s :> {"page"})
           @@ (a :> {"page", "retryable"})
           @@ (b :> {"page", "unchanged", "permanent", "circuitOpen", "retryable"})
MCMaxRetries == (s :> 0) @@ (a :> 1) @@ (b :> 1)

=============================================================================
