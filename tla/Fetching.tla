------------------------------- MODULE Fetching -------------------------------
(***************************************************************************)
(* What stands between a discovered URL and its page: robots.txt with its  *)
(* cache (internal/engine/robots.go), the domain lists (domain.go), the    *)
(* politeness limiters with their LRU (throttle.go), and the exchange      *)
(* itself (HttpFetch). Workers check the links they find, then claim URLs  *)
(* and fetch them.                                                         *)
(*                                                                         *)
(* A worker (at): idle, missing (robots.txt is not in the cache, and is    *)
(* being fetched), fetching.                                               *)
(***************************************************************************)
EXTENDS RobotsRules, HttpFetch

CONSTANTS
    Worker, Url, Host, Domain,
    HostOf, PathOf,
    Labels,          \* of a host's name, the top-level domain last
    DomainOf,        \* a host's registrable domain
    AllowedDomains, DisallowedDomains, PublicSuffix,  \* names, as labels
    RobotsFile,      \* the lines of each host's robots.txt, or None
    Unread,          \* a host whose robots.txt is not in the cache
    Exchange,        \* what may come of fetching a page
    MaxSlots,        \* limiters kept
    Delay            \* ticks between two requests to a domain

ASSUME FetchingAssumption ==
    /\ HostOf \in [Url -> Host] /\ DomainOf \in [Host -> Domain]
    /\ PathOf \in [Url -> Seq(Letter)] /\ RobotsFile \in [Host -> Seq(Lines) \cup {None}]
    /\ None \notin Rules
    /\ MaxSlots \in Nat \ {0} /\ Delay \in Nat
    /\ Exchange \subseteq Exchanges

VARIABLES
    cache,           \* RobotsManager.cache: Unread, None or the rules
    at, url,         \* workers
    queued, refused, done,   \* URLs let in, kept out, fetched
    lru, wait,       \* the limiters, last used first, and the ticks to a token
    page,            \* what the last step fetched, and the exchange it was
    failed,          \* history: the hosts whose robots.txt could not be got,
    touched,         \* the domains, last looked at first,
    due, early       \* the ticks left of the Delay after a claim, unless as many
                     \* domains as there are slots came between; those asked then

robots == <<cache, failed>>
workers == <<at, url>>
urls == <<queued, refused, done>>
throttle == <<lru, wait, touched, due, early>>
vars == <<robots, workers, urls, throttle, page>>

Init ==
    /\ cache = [h \in Host |-> Unread]
    /\ at = [w \in Worker |-> "idle"] /\ url = [w \in Worker |-> None]
    /\ queued = {} /\ refused = {} /\ done = {}
    /\ lru = <<>> /\ wait = [d \in Domain |-> 0]
    /\ page = None /\ failed = {} /\ touched = <<>>
    /\ due = [d \in Domain |-> 0] /\ early = {}

-----------------------------------------------------------------------------
(* Robots. *)

\* No rules to be had allow everything.
IsAllowed(rules, u) == rules = None \/ RulesAllow(rules, PathOf[u])

\* domainMatches: a rule covers its subdomains, unless it is a public suffix.
DomainMatches(rule, host) ==
    rule = host \/ (rule \notin PublicSuffix /\ IsSuffix(rule, host))

IsDomainAllowed(host) ==
    IF AllowedDomains # {} THEN \E rule \in AllowedDomains : DomainMatches(rule, host)
    ELSE \A rule \in DisallowedDomains : ~DomainMatches(rule, host)

Fetched == {url[w] : w \in {w \in Worker : at[w] = "fetching"}}
Seen == queued \cup done \cup Fetched

\* The rest of AddRequest: the lists, MarkIfUnseen and Push.
Decide(u, rules) ==
    IF IsAllowed(rules, u) /\ IsDomainAllowed(Labels[HostOf[u]])
    THEN /\ queued' = IF u \in Seen THEN queued ELSE queued \cup {u}
         /\ UNCHANGED <<refused, done>>
    ELSE refused' = refused \cup {u} /\ UNCHANGED <<queued, done>>

\* AddRequest of a link: the cache is read under the read lock. What was
\* refused may be found again.
Check(w, u) ==
    /\ at[w] = "idle" /\ u \notin Seen
    /\ IF cache[HostOf[u]] = Unread
       THEN /\ at' = [at EXCEPT ![w] = "missing"] /\ url' = [url EXCEPT ![w] = u]
            /\ UNCHANGED urls
       ELSE Decide(u, cache[HostOf[u]]) /\ UNCHANGED <<at, url>>
    /\ page' = None
    /\ UNCHANGED <<robots, throttle>>

\* What fetchRobotsTxt makes of a host's file: nothing when it has none, or it
\* could not be got.
RobotsTxt(h, got) == IF got /\ RobotsFile[h] # None THEN ParseRobots(RobotsFile[h]) ELSE None

\* getRobotsData, when its fetch ends: the cache takes the last answer, the
\* caller goes by its own.
StoreRobots(w, got) ==
    LET h == HostOf[url[w]]
        data == RobotsTxt(h, got)
    IN /\ at[w] = "missing"
       /\ cache' = [cache EXCEPT ![h] = data]
       /\ failed' = IF got \/ RobotsFile[h] = None THEN failed ELSE failed \cup {h}
       /\ Decide(url[w], data)
       /\ at' = [at EXCEPT ![w] = "idle"] /\ url' = [url EXCEPT ![w] = None]
       /\ page' = None
       /\ UNCHANGED throttle

-----------------------------------------------------------------------------
(* Throttle. *)

\* MoveToFront, or PushFront of what is not in the list.
ToFront(d, seq) == <<d>> \o RemoveFirst(seq, d)

\* The slots left when one more is needed: the least recently used go.
Evict(slots) == IF Len(slots) < MaxSlots THEN slots ELSE SubSeq(slots, 1, MaxSlots - 1)

\* limiterFor. A limiter made anew is full.
Touch(d) ==
    /\ lru' = ToFront(d, IF d \in Range(lru) THEN lru ELSE Evict(lru))
    /\ touched' = ToFront(d, touched)

Full(d) == d \notin Range(lru) \/ wait[d] = 0

\* What is left to wait of the limiters kept.
Kept(left) == [d \in Domain |-> IF d \in Range(lru') THEN left[d] ELSE 0]

\* As many domains as there are slots were looked at since d was.
LongAgo(d) == \E i \in DOMAIN touched : touched[i] = d /\ i > MaxSlots

\* Delay, Ready and Reserve: the scan looks at a queued request's domain and
\* spends nothing.
Probe(d) ==
    /\ \E u \in queued : DomainOf[HostOf[u]] = d
    /\ Touch(d) /\ lru' # lru
    /\ wait' = Kept([wait EXCEPT ![d] = IF Full(d) THEN 0 ELSE @])
    /\ due' = IF LongAgo(d) THEN [due EXCEPT ![d] = 0] ELSE due
    /\ page' = None
    /\ UNCHANGED <<robots, workers, urls, early>>

\* Mutant: the token is looked at, and not spent.
ClaimUnspent(w, u) ==
    LET d == DomainOf[HostOf[u]]
    IN /\ at[w] = "idle" /\ u \in queued /\ Full(d)
       /\ at' = [at EXCEPT ![w] = "fetching"] /\ url' = [url EXCEPT ![w] = u]
       /\ queued' = queued \ {u}
       /\ Touch(d) /\ wait' = Kept(wait)
       /\ early' = IF due[d] > 0 /\ ~LongAgo(d) THEN early \cup {d} ELSE early
       /\ due' = [due EXCEPT ![d] = Delay]
       /\ page' = None
       /\ UNCHANGED <<robots, refused, done>>

\* Claim and Allow, for a request whose token is there: the token is spent.
Claim(w, u) ==
    LET d == DomainOf[HostOf[u]]
    IN /\ at[w] = "idle" /\ u \in queued /\ Full(d)
       /\ at' = [at EXCEPT ![w] = "fetching"] /\ url' = [url EXCEPT ![w] = u]
       /\ queued' = queued \ {u}
       /\ Touch(d) /\ wait' = Kept([wait EXCEPT ![d] = Delay])
       /\ early' = IF due[d] > 0 /\ ~LongAgo(d) THEN early \cup {d} ELSE early
       /\ due' = [due EXCEPT ![d] = Delay]
       /\ page' = None
       /\ UNCHANGED <<robots, refused, done>>

Less(left) == [d \in Domain |-> IF left[d] > 0 THEN left[d] - 1 ELSE 0]

Tick ==
    /\ wait' = Less(wait) /\ due' = Less(due) /\ page' = None
    /\ UNCHANGED <<robots, workers, urls, lru, touched, early>>

-----------------------------------------------------------------------------

\* HTTPFetcher.Fetch; a retry puts the request back (Frontier.tla).
FetchPage(w) ==
    /\ at[w] = "fetching"
    /\ \E x \in Exchange :
          LET r == Fetch(x)
          IN /\ page' = [x |-> x, result |-> r, connections |-> Connections(x)]
             /\ IF r.kind = "retry" THEN queued' = queued \cup {url[w]} /\ UNCHANGED done
                ELSE done' = done \cup {url[w]} /\ UNCHANGED queued
    /\ at' = [at EXCEPT ![w] = "idle"] /\ url' = [url EXCEPT ![w] = None]
    /\ UNCHANGED <<robots, refused, throttle>>

Next ==
    \/ Tick
    \/ \E d \in Domain : Probe(d)
    \/ \E w \in Worker :
          \/ FetchPage(w)
          \/ \E got \in BOOLEAN : StoreRobots(w, got)
          \/ \E u \in Url : Check(w, u) \/ Claim(w, u)

Spec == Init /\ [][Next]_vars

-----------------------------------------------------------------------------
(* Properties. *)

\* The rules as parseRobotsTxt misreads them: a user-agent line forgets the
\* ones above it, and a "$" behind a star asks for the first place its text
\* occurs to be the last.
Misread(lines) ==
    \/ \E j, l \in AgentsAt(lines) : j < l /\ ~Apart(lines, j, l)
    \/ \E l \in Range(lines) :
           l.key \in {"allow", "disallow"} /\ Anchored(l.value) /\ Stars(l.value) # {}

Clear == {u \in Url : RobotsFile[HostOf[u]] = None \/ ~Misread(RobotsFile[HostOf[u]])}
Meant == {u \in Url : \/ RobotsFile[HostOf[u]] = None
                      \/ MeansAllowed(RobotsFile[HostOf[u]], PathOf[u])}

\* A URL is let in or kept out as its host's robots.txt means it, unless a
\* fetch of that file failed, or its form is one the parser misreads
\* (robots.go: IsAllowed, getRobotsData, parseRobotsTxt, matchWildcard).
RobotsAreObeyed ==
    \A u \in Clear :
        /\ u \in Seen /\ HostOf[u] \notin failed => u \in Meant
        /\ u \in refused => u \notin Meant \/ ~IsDomainAllowed(Labels[HostOf[u]])

\* Two requests to a domain are Delay apart, unless the limiter was given up
\* in between, and then as many other domains as there are slots had been
\* looked at since (throttle.go: limiterFor, Allow, Reserve).
SpacedOrForgotten == early = {}

\* A body that is accepted did not break off and is the whole of it, or, sent
\* uncompressed and no smaller than the cap, its first max_body_size bytes.
\* What cannot succeed a second time is not retried, but for a corrupt body,
\* which is not told from one that was reset or late, and a compressed body
\* over the cap (http.go).
BodyIsWholeOrCut ==
    page # None =>
        LET x == page.x  r == page.result IN
        /\ r.kind = "ok" =>
               /\ \/ r.body = x.plain /\ x.broken = None
                  \/ r.body = MaxBody /\ x.encoding = "identity" /\ x.plain >= MaxBody
               /\ r.body <= MaxBody
        /\ r.kind = "retry" =>
               \/ x.status = 429 \/ x.status >= 500 \/ x.fault # None \/ x.broken # None
               \/ x.encoding # "identity" /\ x.wire > MaxBody

\* No connection is made to an address that is not public, over however many
\* redirects, but to an exempt host (guard.go: DialContext, CheckRedirect).
ConnectionsArePublic ==
    page # None =>
        \A c \in page.connections :
            AllowPrivate \/ c.host \in Exempt
            \/ (c.address.net = "public" /\ c.address.inside \in {None, "public"})
===============================================================================
