----------------------------- MODULE MCLifecycle -----------------------------
(* Two workers, two requests, and two goroutines that call the engine     *)
(* three times each: enough for a Pause and a Resume to overlap, and for    *)
(* one of them to stop or wait meanwhile.                                   *)
EXTENDS Lifecycle

CONSTANTS w1, w2, c1, c2

MCWorker == {w1, w2}
MCCaller == {c1, c2}
=============================================================================
