------------------------------- MODULE Signals -------------------------------
(***************************************************************************)
(* What a page and its site said about reuse, and what is counted of it:   *)
(* the pure part of internal/provenance. A statement is one of a few       *)
(* values; None is silence, which the code keeps apart from permission.    *)
(***************************************************************************)
EXTENDS Naturals, FiniteSets, FiniteSetsExt, Sequences, SequencesExt

CONSTANT None

Licences == {"link", "meta", "header"}

\* PageSignals, as one source (the headers, or the document) states them.
Statement == [noai : BOOLEAN, noimageai : BOOLEAN,
              tdm : {None, 0, 1}, licence : Licences \cup {None}]

Silent == [noai |-> FALSE, noimageai |-> FALSE, tdm |-> None, licence |-> None]

Opting == {"noai", "noimageai"}
Reservations == Seq({"0", "1", "other"})

\* An X-Robots-Tag is the directives between its commas, each of them scoped by
\* what stands before a colon ("gptbot: noai", "max-snippet: 50") or not.
RobotsTag == Seq([scoped : BOOLEAN, says : Opting \cup {"other"}])

\* A response's headers: its X-Robots-Tags, its TDM-Reservations in their order,
\* and whether a Link names a licence.
Headers == [robots : SUBSET RobotsTag, tdm : Reservations, licence : BOOLEAN]

\* A page's meta tags: the directives for robots or one AI crawler, whether one
\* tells an AI crawler "noindex", the reservations in their order; its licences.
Markup == [robots : SUBSET Opting, noindex : BOOLEAN, tdm : Reservations,
           licence : SUBSET {"link", "meta"}]

\* What is read of a tag: it is cut at its first colon, and what stood before is
\* lost, a directive too; behind it no scoped one is understood.
RobotsTokens(tag) ==
    {tag[i].says : i \in {i \in DOMAIN tag :
        IF tag[i].scoped THEN \A j \in DOMAIN tag : tag[j].scoped => i <= j
        ELSE \A j \in DOMAIN tag : tag[j].scoped => \E k \in DOMAIN tag : k < i /\ tag[k].scoped}}

\* tdmValue: anything but 0 and 1 counts as unsaid.
TDMValue(v) == IF v = "1" THEN 1 ELSE IF v = "0" THEN 0 ELSE None

\* licenceFromLinkHeader.
HeaderLicence(h) == IF h.licence THEN "header" ELSE None

\* Of several reservations in the headers, the first is looked at and no other.
FromHeaders(h) ==
    [noai |-> \E tag \in h.robots : "noai" \in RobotsTokens(tag),
     noimageai |-> \E tag \in h.robots : "noimageai" \in RobotsTokens(tag),
     tdm |-> IF h.tdm = <<>> THEN None ELSE TDMValue(h.tdm[1]),
     licence |-> HeaderLicence(h)]

\* v is said, and nothing that counts is said after it.
SaidLast(tdm, v) ==
    \E i \in DOMAIN tdm :
        tdm[i] = v /\ \A j \in DOMAIN tdm : j > i => TDMValue(tdm[j]) = None

\* A meta tag for one AI crawler that says noindex is an opt-out; of several
\* reservations the last that counts stands; a link element states a licence
\* more explicitly than a meta tag.
FromDocument(d) ==
    [noai |-> "noai" \in d.robots \/ d.noindex, noimageai |-> "noimageai" \in d.robots,
     tdm |-> IF SaidLast(d.tdm, "1") THEN 1 ELSE IF SaidLast(d.tdm, "0") THEN 0 ELSE None,
     licence |-> IF "link" \in d.licence THEN "link"
                 ELSE IF "meta" \in d.licence THEN "meta" ELSE None]

Prefer(a, b) == IF a # None THEN a ELSE b

\* A reservation wins over a permission, and either over silence.
MergeTDM(h, d) == IF 1 \in {h, d} THEN 1 ELSE Prefer(h, d)

\* Restrictions union; the document's licence wins over the Link header's.
Merge(h, d) ==
    [noai |-> h.noai \/ d.noai, noimageai |-> h.noimageai \/ d.noimageai,
     tdm |-> MergeTDM(h.tdm, d.tdm), licence |-> Prefer(d.licence, h.licence)]

PageRestrictive(s) == s.noai \/ s.noimageai \/ s.tdm = 1

\* A line of robots.txt: a user-agent an AI crawler goes by, another one, a
\* rule that allows something, that disallows everything or something else.
RobotsLine == {"ua:ai", "ua:other", "allow", "disallow:all", "disallow"}

NewGroup == [agents |-> {}, allow |-> FALSE, all |-> FALSE, open |-> TRUE]

\* ParseRobots, a line: user-agent lines in a row share a group, one after a
\* rule begins the next, and a rule before any group applies to nobody.
ReadLine(groups, line) ==
    LET g == IF groups = <<>> THEN NewGroup ELSE Last(groups)
        replaced(h) == Append(Front(groups), h)
    IN IF line \in {"ua:ai", "ua:other"}
       THEN IF groups # <<>> /\ g.open THEN replaced([g EXCEPT !.agents = @ \cup {line}])
            ELSE Append(groups, [NewGroup EXCEPT !.agents = {line}])
       ELSE IF groups = <<>> THEN groups
            ELSE replaced([g EXCEPT !.open = FALSE, !.allow = @ \/ line = "allow",
                                    !.all = @ \/ line = "disallow:all"])

\* A blanket disallow allows nothing back.
Blanket(g) == g.all /\ ~g.allow

\* What the site told AI crawlers; None if it has no robots.txt.
SummariseDirectives(txt) ==
    IF txt = None THEN None
    ELSE LET groups == FoldLeft(ReadLine, <<>>, txt)
         IN IF \E i \in DOMAIN groups : "ua:ai" \in groups[i].agents /\ Blanket(groups[i])
            THEN "blocks" ELSE "silent"

Restrictive(r) == PageRestrictive(r.signals) \/ r.ai = "blocks"

-----------------------------------------------------------------------------
(* The Parquet columns of a record, and the record made of them again.      *)

ToColumns(r) ==
    [r EXCEPT !.signals = [noai |-> r.signals.noai, noimageai |-> r.signals.noimageai,
                           tdm |-> IF r.signals.tdm = None THEN {} ELSE {r.signals.tdm},
                           licence |-> IF r.signals.licence = None THEN "" ELSE r.signals.licence],
              !.ai = IF r.ai = None THEN [present |-> {}, blocked |-> {}]
                     ELSE [present |-> {TRUE}, blocked |-> IF r.ai = "blocks" THEN {"agent"} ELSE {}]]

FromColumns(p) ==
    [p EXCEPT !.signals = [noai |-> p.signals.noai, noimageai |-> p.signals.noimageai,
                           tdm |-> IF p.signals.tdm = {} THEN None ELSE CHOOSE x \in p.signals.tdm : TRUE,
                           licence |-> IF p.signals.licence = "" THEN None ELSE p.signals.licence],
              !.ai = IF p.ai.present = {} THEN None
                     ELSE IF p.ai.blocked # {} THEN "blocks" ELSE "silent"]

-----------------------------------------------------------------------------
(* The summary printed after a crawl, and the compliance report: two counts *)
(* of one corpus, by rules written down separately. rs is its set of rows.  *)

Count(rs, P(_)) == Cardinality({r \in rs : P(r)})

Summarise(rs) ==
    [records |-> Cardinality(rs), restrictive |-> Count(rs, Restrictive),
     licensed |-> Count(rs, LAMBDA r : r.signals.licence # None),
     sitewide |-> Count(rs, LAMBDA r : r.ai = "blocks")]

Reasons(r) ==
    {x \in {"page-noai", "page-noimageai", "tdm-reservation", "robots-blocks-ai-crawlers"} :
        \/ x = "page-noai" /\ r.signals.noai
        \/ x = "page-noimageai" /\ r.signals.noimageai
        \/ x = "tdm-reservation" /\ r.signals.tdm = 1
        \/ x = "robots-blocks-ai-crawlers" /\ r.ai = "blocks"}

\* The listing is cut at maxListed (0: never), and the warnings say so.
BuildComplianceReport(rs, maxListed) ==
    LET restricted == {r \in rs : Reasons(r) # {}}
        n == Cardinality(restricted)
        listed == IF maxListed = 0 \/ n < maxListed THEN n ELSE maxListed
    IN [records |-> Cardinality(rs), restricted |-> n, listed |-> listed,
        licensed |-> Count(rs, LAMBDA r : r.signals.licence # None),
        reserved |-> Count(rs, LAMBDA r : r.signals.tdm = 1),
        permitted |-> Count(rs, LAMBDA r : r.signals.tdm = 0),
        unstated |-> Count(rs, LAMBDA r : r.signals.tdm = None),
        sitewide |-> Count(rs, LAMBDA r : r.ai = "blocks"),
        truncated |-> maxListed > 0 /\ n > listed, empty |-> rs = {}]
=============================================================================
