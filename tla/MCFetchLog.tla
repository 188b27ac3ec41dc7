------------------------------ MODULE MCFetchLog ------------------------------
(* Two workers and two URLs, two recordings, two attempts at each URL: a       *)
(* second run can find a torn line, and a URL fail before it succeeds.         *)
EXTENDS FetchLog

CONSTANTS u1, u2, b1, w1, w2

MCUrl == {u1, u2}
MCBody == {b1}
MCWorker == {w1, w2}
Symmetry == Permutations(MCUrl) \cup Permutations(MCWorker)
=============================================================================
