-------------------------------- MODULE Dedup ---------------------------------
(***************************************************************************)
(* Which URLs are one page to the crawl: the canonical form of a URL and   *)
(* the two deduplicators, exact and Bloom (internal/engine/dedup.go,       *)
(* bloom.go), with what a checkpoint carries over a restart.               *)
(*                                                                         *)
(* A URL is a record. Its host is a sequence, the names and ports between  *)
(* its colons; its path one of slashes ("/", or escaped, "%2F") and names; *)
(* its query one of parameters. Letters that differ in case only are       *)
(* different names, told apart by Lower.                                   *)
(***************************************************************************)
EXTENDS Naturals, SequencesExt

CONSTANTS
    Address,          \* the URLs found
    Lower,            \* strings.ToLower, of schemes and names
    Bracketed,        \* the IPv6 literals, without their brackets, and with
    ParamOrder,       \* the parameters that parse, in their order when escaped
    HashA, HashB,     \* the two hashes of a key
    Word,             \* integers go from 0 to Word - 1
    NumBits, NumHash

ASSUME DedupAssumption ==
    /\ {Word, NumBits, NumHash} \subseteq Nat \ {0}
    /\ ParamOrder \in Seq(STRING) /\ IsInjective(ParamOrder)
    /\ \A s \in DOMAIN Lower : Lower[s] \in DOMAIN Lower /\ Lower[Lower[s]] = Lower[s]
    /\ \A u \in Address :
          /\ u.scheme \in DOMAIN Lower
          /\ u.host \in Seq(DOMAIN Lower) \ {<<>>}
          \* a host is parted at its colons, but for those between brackets
          /\ Lower[u.host[1]] \notin DOMAIN Bracketed
          /\ u.path \in Seq(STRING) /\ u.query \in Seq(STRING)

VARIABLES
    strategy,         \* "exact" or "bloom"
    seen,             \* the keys marked, if exact
    bits, count,      \* the filter and its counter, if not
    saved,            \* what the checkpoint holds
    claimed, carried  \* history: the URLs claimed since the process started,
                      \* and those claimed before and exported

dedup == <<strategy, seen, bits, count, saved, claimed, carried>>

InitDedup ==
    /\ strategy \in {"exact", "bloom"}
    /\ seen = {} /\ bits = {} /\ count = 0
    /\ saved = {} /\ claimed = {} /\ carried = {}

-----------------------------------------------------------------------------
(* The canonical form. *)

Port(host) == IF Len(host) > 1 THEN Last(host) ELSE ""
Unbracket(name) ==
    LET bare == {b \in DOMAIN Bracketed : Bracketed[b] = name}
    IN IF bare = {} THEN name ELSE CHOOSE b \in bare : TRUE
Hostname(host) ==
    LET names == IF Len(host) > 1 THEN Front(host) ELSE host
    IN [i \in DOMAIN names |-> Unbracket(names[i])]

\* Mutant: the host name is taken as it comes.
HostWithoutPortBare(hostname) == hostname

\* hostWithoutPort: <<>> when more than one colon is left.
HostWithoutPort(hostname) ==
    IF Len(hostname) > 1 THEN <<>>
    ELSE IF hostname[1] \in DOMAIN Bracketed THEN <<Bracketed[hostname[1]]>>
    ELSE hostname

DefaultPort == [http |-> "80", https |-> "443"]

CanonicalHost(scheme, host) ==
    LET bare == HostWithoutPort(Hostname(host))
    IN IF scheme \in DOMAIN DefaultPort /\ Port(host) = DefaultPort[scheme] /\ bare # <<>>
       THEN bare ELSE host

Times(query, p) == Cardinality({i \in DOMAIN query : query[i] = p})

\* Sorted by key, then by value, each as often as it comes; what does not
\* parse is left out.
CanonicalQuery(query) ==
    FlattenSeq([n \in DOMAIN ParamOrder |->
                   [k \in 1 .. Times(query, ParamOrder[n]) |-> ParamOrder[n]]])

Unescaped(path) == [i \in DOMAIN path |-> IF path[i] = "%2F" THEN "/" ELSE path[i]]

\* What is left without the slashes at the end.
Trimmed(path) ==
    LET named == {i \in DOMAIN path : path[i] # "/"}
    IN SubSeq(path, 1, IF named = {} THEN 0 ELSE Max(named))

\* The slashes at the end go, escaped ones too; a path changed so is written
\* out anew, and none of its slashes is escaped then.
CanonicalPath(path) ==
    LET plain == Unescaped(path)
        slashed == plain # <<"/">> /\ plain # <<>> /\ Last(plain) = "/"
    IN IF (IF slashed THEN Trimmed(plain) ELSE plain) = <<>> THEN <<"/">>
       ELSE IF slashed THEN Trimmed(plain) ELSE path

Lowered(host) == [i \in DOMAIN host |-> Lower[host[i]]]

\* CanonicalizeURL.
CanonicalizeURL(u) ==
    LET scheme == Lower[u.scheme]
    IN [scheme |-> scheme, host |-> CanonicalHost(scheme, Lowered(u.host)), path |-> CanonicalPath(u.path),
        query |-> CanonicalQuery(u.query), fragment |-> ""]

-----------------------------------------------------------------------------
(* The Bloom filter. *)

\* fnvHash and hashes: two hashes of a key, the second seeded with the first.
Positions(key) == {((HashA[key] + i * HashB[key]) % Word) % NumBits : i \in 0..(NumHash - 1)}

Add(key) == bits' = bits \cup Positions(key) /\ count' = count + 1
MayContain(key) == Positions(key) \subseteq bits
ResetBloom == bits' = {} /\ count' = 0

-----------------------------------------------------------------------------
(* The deduplicators. *)

IsSeen(u) ==
    LET key == CanonicalizeURL(u)
    IN IF strategy = "bloom" THEN MayContain(key) ELSE key \in seen

\* Deduplicator.MarkIfUnseen, in one step under the lock.
MarkExact(u) ==
    /\ strategy = "exact" /\ ~IsSeen(u)
    /\ seen' = seen \cup {CanonicalizeURL(u)}
    /\ claimed' = claimed \cup {u}
    /\ UNCHANGED <<strategy, bits, count, saved, carried>>

\* BloomDeduplicator.MarkIfUnseen.
MarkBloom(u) ==
    /\ strategy = "bloom" /\ ~IsSeen(u)
    /\ Add(CanonicalizeURL(u))
    /\ claimed' = claimed \cup {u}
    /\ UNCHANGED <<strategy, seen, saved, carried>>

\* Into the checkpoint: the exact keys, and of a filter nothing.
Export ==
    /\ saved' = IF strategy = "bloom" THEN {} ELSE seen
    /\ carried' = IF strategy = "bloom" THEN {} ELSE carried \cup claimed
    /\ UNCHANGED <<strategy, seen, bits, count, claimed>>

\* newDeduper in the next process, and Import of what was saved.
Restart ==
    /\ seen' = saved /\ ResetBloom
    /\ claimed' = {}
    /\ UNCHANGED <<strategy, saved, carried>>

NextDedup == Export \/ Restart \/ \E u \in Address : MarkExact(u) \/ MarkBloom(u)

DedupSpec == InitDedup /\ [][NextDedup]_dedup

-----------------------------------------------------------------------------
(* Properties. *)

\* The page a URL means: the host and port, the path and the parameters, in
\* whatever case, order or form they are written.
PageOf(u) ==
    LET scheme == Lower[u.scheme]
        port == IF Len(u.host) > 1 THEN Lowered(Tail(u.host))
                ELSE IF scheme \in DOMAIN DefaultPort THEN <<DefaultPort[scheme]>> ELSE <<>>
    IN [scheme |-> scheme, name |-> Lower[u.host[1]], port |-> port,
        path |-> Trimmed(u.path),
        query |-> {<<p, Times(u.query, p)>> : p \in Range(ParamOrder)}]

\* A slash that is escaped is not kept apart from others once the path is
\* trimmed: such URLs are left out of the comparison.
Plain(u) == "%2F" \notin Range(u.path)
SamePage(u, v) == Plain(u) /\ Plain(v) /\ PageOf(u) = PageOf(v)

\* A page is claimed once per process, under whatever URL, and with the exact
\* strategy once until a checkpoint is left behind; a URL it turns away is of
\* a page that was claimed. A canonical URL is its own canonical form.
OneClaimPerPage ==
    /\ \A u \in claimed : CanonicalizeURL(CanonicalizeURL(u)) = CanonicalizeURL(u)
    /\ \A u \in claimed, v \in claimed \cup (IF strategy = "exact" THEN carried ELSE {}) :
           SamePage(u, v) => u = v
    /\ \A key \in seen, u \in Address :
           (CanonicalizeURL(u) = key /\ Plain(u)) =>
               \E v \in claimed \cup carried : SamePage(u, v) \/ ~Plain(v)
=============================================================================
