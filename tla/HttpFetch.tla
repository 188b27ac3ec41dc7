------------------------------ MODULE HttpFetch -------------------------------
(***************************************************************************)
(* HTTPFetcher.Fetch (internal/fetcher/http.go) and the guard its client   *)
(* dials through (internal/safety/guard.go), as a function of what the     *)
(* network did. An exchange is                                             *)
(*   hops      the URLs asked for, the first and one per redirect, each a  *)
(*             scheme, a host and the addresses its name resolved to       *)
(*   fault     None, or what broke the connection                          *)
(*   status, retryAfter, encoding                                          *)
(*   broken        None, or where the body breaks off, corrupt, reset or   *)
(*                 late: in the header of a gzip stream, or in its middle  *)
(*   wire, plain   the body's size as sent, and decompressed, so far       *)
(* An address is public or not, and may embed another (inside).            *)
(***************************************************************************)
EXTENDS Integers, Sequences, FiniteSets

CONSTANTS
    None,
    Schemes, Exempt, AllowPrivate,  \* the safety settings
    MaxRedirects, FollowRedirects,
    MaxBody, MaxRatio, MinRatioCheck

ASSUME HttpFetchAssumption ==
    /\ MaxRedirects \in Nat /\ {MaxBody, MaxRatio, MinRatioCheck} \subseteq Nat \ {0}
    /\ {AllowPrivate, FollowRedirects} \subseteq BOOLEAN

Addresses == [net : STRING, inside : {None} \cup STRING]
Hops == [scheme : STRING, host : {None} \cup STRING, addresses : SUBSET Addresses]
Exchanges == [hops : Seq(Hops), fault : {None} \cup STRING, status : Nat,
              retryAfter : {None} \cup Int, encoding : {"identity", "gzip", "deflate", "br"},
              broken : {None, "header", "middle"}, wire : Nat, plain : Nat]

Final(e) == [kind |-> "final", cause |-> e, after |-> 0, body |-> 0, status |-> 0]
Retryable(e, after) == [kind |-> "retry", cause |-> e, after |-> after, body |-> 0, status |-> 0]
Body(n, s) == [kind |-> "ok", cause |-> None, after |-> 0, body |-> n, status |-> s]

ValidURL(hop) == hop.scheme \in Schemes /\ hop.host # None

\* Mutant: the addresses embedded in others are not looked at.
BlockedOuter(a) == a.net # "public"

\* blockReason: an address is judged on the one inside it too.
Blocked(a) == a.net # "public" \/ (a.inside # None /\ a.inside # "public")

\* DialContext: the addresses it may connect to. One lookup, and one address
\* that is not public spoils them all.
Dial(hop) ==
    IF AllowPrivate \/ hop.host \in Exempt THEN hop.addresses
    ELSE IF \E a \in hop.addresses : Blocked(a) THEN {}
    ELSE hop.addresses

\* CheckRedirect, before the hop with number i is made.
Redirects(x, i) == FollowRedirects /\ i - 1 < MaxRedirects /\ ValidURL(x.hops[i])

\* The hops that are dialled: each when the one before was and led on.
Reached(x, i) ==
    /\ ValidURL(x.hops[1])
    /\ \A j \in 1..i : /\ j > 1 => Redirects(x, j)
                       /\ j < i => Dial(x.hops[j]) # {}

Connections(x) ==
    UNION {{[host |-> x.hops[i].host, address |-> a] : a \in Dial(x.hops[i])} :
               i \in {i \in DOMAIN x.hops : Reached(x, i)}}

\* isRetryableError. A timeout is a context.DeadlineExceeded as well.
IsRetryable(fault) == fault \in {"reset", "refused", "eof", "tls-timeout"}

\* parseRetryAfter, in seconds; "none" and what it cannot parse wait five.
ParseRetryAfter(h) ==
    IF h \notin Int THEN 5 ELSE IF h < 0 THEN 0 ELSE IF h > 120 THEN 120 ELSE h

\* decompressReader: of the three, only gzip reads a header at once.
Opens(x) == x.encoding = "gzip" => x.broken # "header"

\* Mutant: what was read before the body broke off is taken for the body.
ReadBodyBroken(x) ==
    IF ~Opens(x) THEN Final("encoding")
    ELSE IF x.encoding = "identity" /\ x.plain >= MaxBody THEN Body(MaxBody, x.status)
    ELSE IF x.plain > MaxBody /\ x.plain > x.wire THEN Final("too large")
    ELSE IF x.encoding # "identity" /\ x.wire > MaxBody THEN Retryable("cut", 0)
    ELSE IF x.encoding # "identity" /\ x.wire >= MinRatioCheck /\ x.plain \div x.wire > MaxRatio
         THEN Final("ratio")
    ELSE Body(x.plain, x.status)

\* The body under its caps. What breaks it off is an error of the read, which
\* is retried. The cap on what is read off the wire ends a plain body quietly,
\* hiding a break beyond it, and a compressed one in the middle.
ReadBody(x) ==
    IF ~Opens(x) THEN Final("encoding")
    ELSE IF x.encoding = "identity" /\ x.plain >= MaxBody THEN Body(MaxBody, x.status)
    ELSE IF x.plain > MaxBody /\ x.plain > x.wire THEN Final("too large")
    ELSE IF x.encoding # "identity" /\ x.wire > MaxBody THEN Retryable("cut", 0)
    ELSE IF x.broken # None THEN Retryable("broken", 0)
    ELSE IF x.encoding # "identity" /\ x.wire >= MinRatioCheck /\ x.plain \div x.wire > MaxRatio
         THEN Final("ratio")
    ELSE Body(x.plain, x.status)

\* A redirect not followed is a response like another.
Responded(x) ==
    IF x.status = 429 THEN Retryable("429", ParseRetryAfter(x.retryAfter))
    ELSE IF x.status >= 500 THEN Retryable("5xx", 0)
    ELSE ReadBody(x)

Fetch(x) ==
    LET last == Len(x.hops)
    IN IF ~ValidURL(x.hops[1]) THEN Final("scheme")
       ELSE IF ~FollowRedirects /\ last > 1 /\ Dial(x.hops[1]) # {}
            THEN ReadBody([x EXCEPT !.status = 302])
       ELSE IF \E i \in 2..last : Reached(x, i - 1) /\ Dial(x.hops[i - 1]) # {} /\ ~Redirects(x, i)
            THEN Final("redirect")
       ELSE IF ~Reached(x, last) \/ Dial(x.hops[last]) = {} THEN Final("address")
       ELSE IF x.fault # None
            THEN IF IsRetryable(x.fault) THEN Retryable(x.fault, 0) ELSE Final(x.fault)
       ELSE Responded(x)
===============================================================================
