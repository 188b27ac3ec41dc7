----------------------------- MODULE MCApiServer ------------------------------
(* Five requests under one key, a client that watches the first one's job.    *)
(* The others come only where the first makes no job, and the last two only to *)
(* a server that nothing else happens to: they are there for the rate limit.   *)
(*                                                                             *)
(* Beside it, an MCP server with four calls: one or two batches of two URLs,    *)
(* calls that ask after them, a long one, and ones that are answered at once.  *)
EXTENDS ApiServer, McpServer

CONSTANTS r1, r2, r3, r4, r5, c1, key, m1, m2, m3, m4

MCRequest == {r1, r2, r3, r4, r5}
MCClient == {c1}
MCKeyOf == [r \in MCRequest |-> key]
MCKind == [r \in MCRequest |-> IF r = r1 THEN Kinds \ {"fetch"} ELSE {"fetch"}]
MCWatches == [c \in MCClient |-> r1]

MCCall == {m1, m2, m3, m4}
MCAsks == [c \in MCCall |-> CASE c = m1 -> {"batch"}
                               [] c = m2 -> {"batch", "status", "notification"}
                               [] c = m3 -> {"status", "crawl"}
                               [] c = m4 -> {"ping", "malformed"}]

OneAtATime ==
    /\ run[r1] = "none" \/ \A r \in MCRequest \ {r1} : at[r] = "new"
    /\ \/ up = "serving" /\ restarts = 0 /\ busy = 0 /\ kind[r1] = "crawl"
       \/ \A r \in {r4, r5} : at[r] = "new"

\* The two share nothing: each moves while the other is at its start.
MCNext ==
    \/ InitMcp /\ transport = "stdio" /\ Next /\ OneAtATime' /\ UNCHANGED mcp
    \/ Init /\ kind[r1] = "crawl" /\ NextMcp /\ UNCHANGED vars
MCInit == Init /\ InitMcp
MCSpec == MCInit /\ [][MCNext]_<<vars, mcp>> /\ Fairness
===============================================================================
