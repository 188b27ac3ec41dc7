------------------------------ MODULE MCFetching ------------------------------
(* Two workers, and four URLs of two domains that share one limiter: two on a  *)
(* host with a robots.txt, one on a host the domain lists keep out, one of the *)
(* other domain. A page is fetched again after a retry.                        *)
(*                                                                            *)
(* Beside it, the deduplicators with seven URLs of four pages: cases, default    *)
(* ports, an IPv6 literal, a host with two ports, slashes at the end, escaped  *)
(* and not, parameters reordered and one that does not parse; a filter small   *)
(* enough to take new pages for old.                                          *)
EXTENDS Fetching, Dedup

CONSTANTS w1, w2, u1, u2, u3, u4, h1, h2, h3, d1, d2

Symmetry == {(w1 :> a @@ w2 :> b) : <<a, b>> \in {<<w1, w2>>, <<w2, w1>>}}

MCHostOf == (u1 :> h1 @@ u2 :> h1 @@ u3 :> h2 @@ u4 :> h3)
MCDomainOf == (h1 :> d1 @@ h2 :> d1 @@ h3 :> d2)
MCLabels == (h1 :> <<"a", "com">> @@ h2 :> <<"www", "a", "com">> @@ h3 :> <<"b", "com">>)
MCPublicSuffix == {<<"com">>}
MCDisallowed == {<<"com">>, <<"www", "a", "com">>}
MCPathOf == (u1 :> <<"a", "b">> @@ u2 :> <<"a", "c", "b">> @@ u3 :> <<"b">> @@ u4 :> <<"b", "b", "a">>)

ua(a) == [key |-> "user-agent", value |-> a]
no(p) == [key |-> "disallow", value |-> p]
yes(p) == [key |-> "allow", value |-> p]
MCRobotsFile ==
    (h1 :> <<no(<<"a">>), ua("other"), no(<<"a", "b">>), ua("any"), no(<<"a", "*", "b">>),
             yes(<<"a", "b", "$">>)>>
     @@ h2 :> None
     @@ h3 :> <<ua("us"), no(<<"b", "*", "a">>), [key |-> "sitemap", value |-> <<"a">>],
                [key |-> "crawl-delay", value |-> 1], ua("other"), yes(<<"b">>)>>)

public == [net |-> "public", inside |-> None]
mapped == [net |-> "public", inside |-> "loopback"]
private == [net |-> "private", inside |-> None]
Hop(scheme, addresses) == [scheme |-> scheme, host |-> "host", addresses |-> addresses]
Ok == [hops |-> <<Hop("http", {public})>>, fault |-> None, status |-> 200,
       retryAfter |-> None, encoding |-> "identity", broken |-> None,
       wire |-> 3, plain |-> 3]
Sized(e, w, p) == [Ok EXCEPT !.encoding = e, !.wire = w, !.plain = p]
Via(second) == [Ok EXCEPT !.hops = <<Hop("http", {public}), second>>]
MCExchange ==
    {Sized("identity", n, n) : n \in 3..5} \cup
    {Sized("gzip", 1, 4), Sized("gzip", 2, 5), Sized("gzip", 5, 5)} \cup
    {[Sized("gzip", 2, 0) EXCEPT !.broken = "header"]} \cup
    {[Sized(e, 2, 3) EXCEPT !.broken = "middle"] : e \in {"identity", "gzip", "deflate", "br"}} \cup
    {[Sized("identity", 5, 5) EXCEPT !.broken = "middle"],
     [Sized("br", 5, 4) EXCEPT !.broken = "middle"],
     [Ok EXCEPT !.status = 503, !.broken = "middle"]} \cup
    {[Ok EXCEPT !.status = 429, !.retryAfter = h] : h \in {None, -1, 300}} \cup
    {[Ok EXCEPT !.status = 503], [Ok EXCEPT !.fault = "timeout"], [Ok EXCEPT !.fault = "reset"],
     Via(Hop("http", {public, private})), Via(Hop("file", {public})), Via(Hop("http", {mapped})),
     [Ok EXCEPT !.hops = <<Hop("http", {public}), Hop("http", {public}), Hop("http", {public})>>]}

MCLower == [s \in {"http", "https", "a", "0", "80", "::1", "[::1]"} |-> s] @@ ("HTTP" :> "http" @@ "A" :> "a")
MCBracketed == ("::1" :> "[::1]")
MCParamOrder == <<"p=1", "q=1">>
Link(scheme, host, path, query) ==
    [scheme |-> scheme, host |-> host, path |-> path, query |-> query, fragment |-> "top"]
MCAddress ==
    {Link("http", <<"a">>, <<>>, <<"p=1", "q=1">>),
     Link("HTTP", <<"A", "80">>, <<"/">>, <<"q=1", "p=1", "p;1">>),
     Link("http", <<"[::1]", "80">>, <<"/", "x">>, <<>>),
     Link("http", <<"[::1]">>, <<"/", "x", "/", "/">>, <<>>),
     Link("http", <<"0", "80", "80">>, <<"/">>, <<>>),
     Link("http", <<"a">>, <<"/", "x", "%2F", "y">>, <<>>),
     Link("http", <<"a">>, <<"/", "x", "%2F", "y", "%2F">>, <<>>)}

Keys == {CanonicalizeURL(u) : u \in MCAddress}
MCHashA == [k \in Keys |-> 7 * Len(k.path) + 5 * Len(k.query) + 26 * Len(k.host)]
MCHashB == [k \in Keys |-> 3 * Len(k.query) + Len(k.path)]

\* The two share nothing: each moves while the other is at its start.
MCNext ==
    \/ InitDedup /\ strategy = "exact" /\ Next /\ UNCHANGED dedup
    \/ Init /\ NextDedup /\ UNCHANGED vars
MCInit == Init /\ InitDedup
MCSpec == MCInit /\ [][MCNext]_<<vars, dedup>>
===============================================================================
