-------------------------- MODULE MCCircuitBreaker --------------------------
(* Three domains and room for two, so that a report can find its domain's  *)
(* entry evicted; three workers, so that a stale result, a probe and a      *)
(* third request can be out at once.                                        *)
EXTENDS CircuitBreaker

CONSTANTS d1, d2, d3, w1, w2, w3

MCDomain == {d1, d2, d3}
MCWorker == {w1, w2, w3}
=============================================================================
