----------------------------- MODULE MCFrontier -----------------------------
(* Two workers and two requests of one throttled domain, so that a claim   *)
(* can fail, each of which may be retried once, so that a request can come *)
(* back while its last holder is still releasing it.                       *)
EXTENDS Frontier, TLC

CONSTANTS w1, w2, a, b, slow

MCWorker == {w1, w2}
MCReq == {a, b}
MCDomain == {slow}
MCHost == (a :> slow) @@ (b :> slow)
MCPriority == (a :> 0) @@ (b :> 2)
MCThrottled == {slow}
MCMaxRetries == (a :> 1) @@ (b :> 1)
=============================================================================
