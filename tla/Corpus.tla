-------------------------------- MODULE Corpus --------------------------------
(***************************************************************************)
(* The corpus a crawl leaves behind: the records and claims the scheduler  *)
(* writes per response, the two buffered files of internal/provenance, the *)
(* refresh of an earlier corpus with --since, the replay of a recorded     *)
(* crawl, and the report read back from the file. One command runs at a    *)
(* time and may be killed; --resume takes up a crawl that was.             *)
(*                                                                         *)
(* A body is the version of a page it has; times are counted in commands.  *)
(***************************************************************************)
EXTENDS Signals

CONSTANTS
    Url, Version,
    Seed, Link,        \* the command's URLs, and the links on each page
    Validated,         \* the pages served with an ETag or Last-Modified
    Parsed,            \* the pages of which the parser makes claims
    HeaderSays, PageSays,  \* what a version states about reuse
    RobotsTxt,         \* the lines of the site's robots.txt, or None
    Format,            \* the formats a corpus may have: "jsonl", "parquet"
    MaxCommands, MaxChanges, MaxListed

ASSUME CorpusAssumption ==
    /\ Seed \subseteq Url /\ Link \in [Url -> SUBSET Url]
    /\ Validated \subseteq Url /\ Parsed \subseteq Url
    /\ HeaderSays \in [Version -> Headers] /\ PageSays \in [Version -> Markup]
    /\ RobotsTxt \in Seq(RobotsLine) \cup {None}
    /\ Format \subseteq {"jsonl", "parquet"}
    /\ {MaxCommands, MaxChanges, MaxListed} \subseteq Nat
    /\ Version # {} /\ None \notin {0, 1}

VARIABLES
    format,              \* of the corpus at --output, by its extension
    site, changes,       \* the version of each page, and the changes so far
    file, sealed,        \* the corpus at --output, and whether it was closed
    claims,              \* the claims next to it
    kept,                \* a corpus an earlier command left elsewhere
    log,                 \* what the fetch log of the last recorded crawl serves
    phase, command, now, \* the command that runs, and its number
    buf, claimBuf,       \* the writers' buffers
    prior,               \* PriorCorpus, by URL
    queue, visited,      \* queued URLs, and those done with
    report,              \* the printed summary and the compliance report
    held, answered, failed, original  \* history, see Open, Answer and Report

files == <<file, sealed, claims>>
progress == <<queue, visited, answered, failed>>
corpus == <<format, site, changes, files, kept, log, phase, command, now, buf, claimBuf,
          prior, progress, report, held, original>>

Kind == {"crawl", "resume", "replay"}
Command == [kind : Kind, since : {"nothing", "kept", "output"}]

InitCorpus ==
    /\ format \in Format
    /\ site \in [Url -> {CHOOSE v \in Version : TRUE}] /\ changes = 0
    /\ file = <<>> /\ sealed = FALSE /\ claims = {} /\ kept = <<>>
    /\ log = [u \in Url |-> None]
    /\ phase = "none" /\ command = None /\ now = 0
    /\ buf = <<>> /\ claimBuf = {} /\ prior = [u \in Url |-> None]
    /\ queue = {} /\ visited = {} /\ report = None
    /\ held = {} /\ answered = {} /\ failed = {} /\ original = None

Urls(rs) == {r.url : r \in rs}

\* Record, as far as the report depends on it.
Row == [url : Url, hash : Version, at : 1..MaxCommands, validator : BOOLEAN,
        ai : {None, "blocks", "silent"}, signals : Statement]

-----------------------------------------------------------------------------
(* What a response becomes. *)

\* provenance.Build.
Build(u, v, at) ==
    [url |-> u, hash |-> v, at |-> at, validator |-> u \in Validated,
     ai |-> SummariseDirectives(RobotsTxt),
     signals |-> Merge(FromHeaders(HeaderSays[v]), FromDocument(PageSays[v]))]

\* Refreshed: everything derived stays, the moment moves.
Refreshed(r, at) == [r EXCEPT !.at = at]

\* A claim names the page, the bytes it was found in, and its method. The
\* main text's claims go out with the parser's, or not at all.
ClaimsOf(u, v) ==
    IF u \notin Parsed THEN {}
    ELSE {[url |-> u, hash |-> v, method |-> m] : m \in {"css", "density:main"}}

ReadCorpus == file

\* A Parquet file has no rows before its footer.
ReadParquetCorpus ==
    IF sealed THEN [i \in DOMAIN file |-> FromColumns(ToColumns(file[i]))] ELSE <<>>

\* ReadAnyCorpus of the file at --output.
ReadOutput == IF format = "parquet" THEN ReadParquetCorpus ELSE ReadCorpus

\* NewPriorCorpus: the last record of a URL wins.
Index(rs) ==
    [u \in Url |-> LET at == {i \in DOMAIN rs : rs[i].url = u}
                   IN IF at = {} THEN None ELSE rs[Max(at)]]

-----------------------------------------------------------------------------
(* The command. *)

\* The files, created empty, and closed with what their buffers hold.
NewCorpusWriter == file' = <<>> /\ sealed' = FALSE /\ buf' = <<>>
NewAssertionWriter == claims' = {} /\ claimBuf' = {}
CloseCorpus == file' = file \o buf /\ buf' = <<>> /\ sealed' = TRUE
CloseAssertions == claims' = claims \cup claimBuf /\ claimBuf' = {}

\* openCorpus creates both files anew, before --since is read. A resumed
\* crawl has its visited pages and its queue from the checkpoint.
Open(c) ==
    /\ phase = "none" /\ now < MaxCommands
    /\ c.kind = "resume" => command # None /\ command.kind # "replay" /\ queue # {}
    /\ c.kind = "replay" => c.since = "nothing" /\ original # None
    /\ phase' = "opened" /\ command' = c /\ now' = now + 1
    /\ held' = CASE c.since = "output" -> Urls(Range(ReadOutput))
                 [] c.since = "kept" -> Urls(Range(kept))
                 [] OTHER -> {}
    /\ NewCorpusWriter /\ NewAssertionWriter
    /\ report' = None
    /\ IF c.kind = "resume" THEN UNCHANGED <<progress, log, original>>
       ELSE /\ queue' = {} /\ visited' = {} /\ answered' = {} /\ failed' = {}
            /\ IF c.kind = "replay" THEN UNCHANGED <<log, original>>
               ELSE log' = [u \in Url |-> None] /\ original' = None
    /\ UNCHANGED <<format, site, changes, kept, prior>>

\* Mutant: the prior corpus answers, but queues nothing.
AttachPriorUnseeded ==
    /\ phase = "opened"
    /\ LET rs == CASE command.since = "kept" -> kept
                   [] command.since = "output" -> file
                   [] OTHER -> <<>>
       IN /\ ~(command.since = "output" /\ format = "parquet")
          /\ prior' = Index(rs)
          /\ queue' = queue \cup (Seed \ visited)
    /\ phase' = "crawling"
    /\ UNCHANGED <<format, site, changes, files, kept, log, command, now, buf, claimBuf,
                   visited, answered, failed, report, held, original>>

\* attachPriorCorpus, the seeds, and seedFromPriorCorpus.
AttachPrior ==
    /\ phase = "opened"
    /\ LET rs == CASE command.since = "kept" -> kept
                   [] command.since = "output" -> file
                   [] OTHER -> <<>>
       IN /\ ~(command.since = "output" /\ format = "parquet")
          /\ prior' = Index(rs)
          /\ queue' = queue \cup ((Seed \cup Urls(Range(rs))) \ visited)
    /\ phase' = "crawling"
    /\ UNCHANGED <<format, site, changes, files, kept, log, command, now, buf, claimBuf,
                   visited, answered, failed, report, held, original>>

\* A Parquet file just created cannot be read back: the command fails.
AttachFails ==
    /\ phase = "opened" /\ command.since = "output" /\ format = "parquet"
    /\ phase' = "none"
    /\ UNCHANGED <<format, site, changes, files, kept, log, command, now, buf, claimBuf,
                   prior, progress, report, held, original>>

\* The conditional request of a page the prior corpus has a validator for.
Asks(u) == prior[u] # None /\ prior[u].validator

\* Mutant: a replayed response is dated by the replay.
ResponseNow(u) ==
    IF command.kind = "replay" THEN IF log[u] = None THEN None ELSE [log[u] EXCEPT !.at = now]
    ELSE IF Asks(u) /\ prior[u].hash = site[u]
         THEN [status |-> 304, hash |-> None, at |-> now]
         ELSE [status |-> 200, hash |-> site[u], at |-> now]

\* What a fetch brings: a body, a 304, or (None) a failure for good.
Response(u) ==
    IF command.kind = "replay" THEN log[u]
    ELSE IF Asks(u) /\ prior[u].hash = site[u]
         THEN [status |-> 304, hash |-> None, at |-> now]
         ELSE [status |-> 200, hash |-> site[u], at |-> now]

Logged(u, r) == IF command.kind = "replay" THEN UNCHANGED log ELSE log' = [log EXCEPT ![u] = r]

\* recordProvenance, and the links of the page.
Answer(u) ==
    /\ phase = "crawling" /\ u \in queue
    /\ LET r == Response(u) IN
        /\ r # None /\ r.status = 200
        /\ buf' = Append(buf, Build(u, r.hash, r.at))
        /\ claimBuf' = claimBuf \cup ClaimsOf(u, r.hash)
        /\ Logged(u, r)
    /\ queue' = (queue \cup Link[u]) \ (visited \cup {u})
    /\ visited' = visited \cup {u} /\ answered' = answered \cup {u}
    /\ UNCHANGED <<format, site, changes, files, kept, phase, command, now, prior, failed,
                   report, held, original>>

\* recordUnchanged: a 304 renews what the prior corpus has of the page.
AnswerUnchanged(u) ==
    /\ phase = "crawling" /\ u \in queue
    /\ LET r == Response(u) IN
        /\ r # None /\ r.status = 304
        /\ buf' = IF prior[u] = None THEN buf ELSE Append(buf, Refreshed(prior[u], r.at))
        /\ answered' = IF prior[u] = None THEN answered ELSE answered \cup {u}
        /\ Logged(u, r)
    /\ queue' = queue \ {u} /\ visited' = visited \cup {u}
    /\ UNCHANGED <<format, site, changes, files, kept, phase, command, now, claimBuf, prior,
                   failed, report, held, original>>

FetchFails(u) ==
    /\ phase = "crawling" /\ u \in queue
    /\ command.kind = "replay" => Response(u) = None
    /\ queue' = queue \ {u} /\ visited' = visited \cup {u}
    /\ failed' = failed \cup {u}
    /\ UNCHANGED <<format, site, changes, files, kept, log, phase, command, now, buf, claimBuf,
                   prior, answered, report, held, original>>

\* A full buffer is written through, each file by itself.
FlushRecords ==
    /\ phase = "crawling" /\ buf # <<>>
    /\ file' = file \o buf /\ buf' = <<>>
    /\ UNCHANGED <<format, site, changes, sealed, claims, kept, log, phase, command, now, claimBuf,
                   prior, progress, report, held, original>>

FlushClaims ==
    /\ phase = "crawling" /\ claimBuf # {}
    /\ claims' = claims \cup claimBuf /\ claimBuf' = {}
    /\ UNCHANGED <<format, site, changes, file, sealed, kept, log, phase, command, now, buf,
                   prior, progress, report, held, original>>

\* Mutant: the file is read back before the writer is closed.
ReportUnflushed ==
    /\ phase = "crawling" /\ queue = {}
    /\ sealed' = TRUE
    /\ CloseAssertions
    /\ phase' = "reported"
    /\ UNCHANGED <<format, site, changes, file, buf, kept, log, command, now, prior, progress,
                   report, held, original>>

\* Mutant: reportCorpus returns before the claims are closed.
ReportWithoutClaims ==
    /\ phase = "crawling" /\ queue = {}
    /\ CloseCorpus
    /\ phase' = "reported"
    /\ UNCHANGED <<format, site, changes, claims, claimBuf, kept, log, command, now, prior,
                   progress, report, held, original>>

\* reportCorpus: both writers are closed and the file is read back. The log
\* of a crawl that ran to its end is what a replay is measured against.
Report ==
    /\ phase = "crawling" /\ queue = {}
    /\ CloseCorpus /\ CloseAssertions
    /\ phase' = "reported"
    /\ UNCHANGED <<format, site, changes, kept, log, command, now, prior, progress, report, held, original>>

WriteReports ==
    /\ phase = "reported" /\ report = None
    /\ report' = [summary |-> Summarise(Range(ReadOutput)),
                  audit |-> BuildComplianceReport(Range(ReadOutput), MaxListed)]
    /\ original' = IF command.kind = "crawl" THEN [rows |-> Range(file), since |-> command.since]
                   ELSE IF command.kind = "resume" THEN None ELSE original
    /\ UNCHANGED <<format, site, changes, files, kept, log, phase, command, now, buf, claimBuf, prior, progress, held>>

Exit ==
    /\ report # None /\ phase = "reported"
    /\ phase' = "none"
    /\ kept' \in {kept, ReadOutput}
    /\ UNCHANGED <<format, site, changes, files, log, command, now, buf, claimBuf, prior, progress,
                   report, held, original>>

\* Killed: the buffers are gone, and a Parquet file has no footer.
Crash ==
    /\ phase \in {"opened", "crawling"}
    /\ phase' = "none"
    /\ buf' = <<>> /\ claimBuf' = {}
    /\ UNCHANGED <<format, site, changes, files, kept, log, command, now, prior, progress, report, held, original>>

SiteChanges(u, v) ==
    /\ changes < MaxChanges /\ site[u] # v
    /\ changes' = changes + 1
    /\ site' = [site EXCEPT ![u] = v]
    /\ UNCHANGED <<format, files, kept, log, phase, command, now, buf, claimBuf, prior, progress,
                   report, held, original>>

NextCorpus ==
    \/ \E c \in Command : Open(c)
    \/ AttachPrior \/ AttachFails \/ FlushRecords \/ FlushClaims
    \/ Report \/ WriteReports \/ Exit \/ Crash
    \/ \E u \in Url : Answer(u) \/ AnswerUnchanged(u) \/ FetchFails(u)
    \/ \E u \in Url, v \in Version : SiteChanges(u, v)

SpecCorpus == InitCorpus /\ [][NextCorpus]_corpus

-----------------------------------------------------------------------------
(* Properties. *)

\* A version is restricted by any directive or reservation among those that
\* are read at all: of an X-Robots-Tag what RobotsTokens leaves of it, of
\* reservations the first header and the last meta tag.
AsksToBeLeftOut(v) ==
    LET h == HeaderSays[v]  d == PageSays[v] IN
    \/ Opting \cap (d.robots \cup UNION {RobotsTokens(tag) : tag \in h.robots}) # {}
    \/ d.noindex \/ (h.tdm # <<>> /\ h.tdm[1] = "1") \/ SaidLast(d.tdm, "1")
    \/ SummariseDirectives(RobotsTxt) = "blocks"

\* What is printed and audited is the corpus and all of it: a row for every
\* page the crawl got an answer for (a resumed crawl only since it resumed),
\* the two restriction rules agreeing with each other and with what was read
\* of headers, page and site, every row placed under one reservation and a
\* shortened list admitted.
ReportIsTheCorpus ==
    report # None =>
        LET s == report.summary
            a == report.audit
        IN /\ Range(ReadOutput) \subseteq Row
           /\ command.kind # "resume" => s.records = Cardinality(answered)
           /\ s.records = a.records /\ s.restrictive = a.restricted
           /\ s.restrictive = Cardinality({r \in Range(file) : AsksToBeLeftOut(r.hash)})
           /\ s.licensed = a.licensed /\ s.sitewide = a.sitewide
           /\ a.reserved + a.permitted + a.unstated = a.records
           /\ a.truncated = (a.listed < a.restricted)

\* A refresh against a corpus kept elsewhere ends with a row for every page
\* of it that could still be fetched, though a page that has not changed brings
\* no links to the others. (A refresh that is killed and resumed starts its
\* file over.)
RefreshCoversPrior ==
    (report # None /\ command = [kind |-> "crawl", since |-> "kept"]) =>
        held \subseteq Urls(Range(file)) \cup failed

\* Once both files are closed they join: a claim's page and bytes are a row's,
\* and every page parsed by this command has its claims. (A row renewed by a
\* 304 has none: its claims stay in the refreshed corpus's file.)
ClaimsJoinRows ==
    phase = "reported" =>
        /\ \A c \in claims : \E r \in Range(file) : r.url = c.url /\ r.hash = c.hash
        /\ command.kind # "resume" =>
               \A u \in answered \cap Parsed :
                   log[u].status = 200 => ClaimsOf(u, log[u].hash) \subseteq claims

\* The replay of a crawl that ran to its end writes the crawl's rows again,
\* dates included; of a refreshed corpus, the rows that were downloaded.
ReplayRebuildsCorpus ==
    (report # None /\ command.kind = "replay") =>
        /\ Range(file) \subseteq original.rows
        /\ original.since = "nothing" => Range(file) = original.rows

\* README.md:103 gives --since the file that --output names, and :118 says it
\* queues every URL that file holds. The code has truncated it by then.
SinceCoversPrior ==
    (report # None /\ command.kind = "crawl" /\ command.since # "nothing") =>
        held \subseteq Urls(Range(file)) \cup failed
=============================================================================
