# A formal model of ScrapeGoat

ScrapeGoat is a web crawler in Go. Its core, `internal/engine`, is a small
concurrent system: worker goroutines share a frontier, retry goroutines push
requests back after a backoff, an idle monitor decides when the crawl is over,
a checkpoint goroutine saves the state, and callers start, pause, stop, resume
and wait for all of it. Around it are the way to a page (robots.txt, politeness,
the HTTP exchange and the address guard), the files a crawl leaves behind (items,
the recorded exchanges, the corpus and its claims) and two servers that run
crawls for others. This directory holds TLA+ modules of these parts, the
configurations TLC checks them with, and theorems that TLAPS checks.

`PROJECT.json` lists the components, the runs, for each property a mutation of
the model that must violate it, the source lines behind every definition, the
hazards, the findings and the theorems.

    tlc -workers 2 -config MCFrontier.cfg MCFrontier     # a run
    tlapm FrontierProofs.tla                             # a module of proofs

## 1. The system

| Component | State it keeps | Operations | What makes it correct |
|---|---|---|---|
| Frontier (`engine/frontier.go`) | heap of requests, in-flight set, closed flag, one-slot wakeup channel | Push, PopReady, TryPop, Done, Close, Snapshot, Outstanding | no request lost, duplicated or stranded; no lost wakeup; Close reaches all |
| Scheduler (`engine/scheduler.go`) | paused flag and gate, pending retries | workers, processRequest, handleFetchError, requeueAfter, idleMonitor, Pause, Resume | each page once; ends when, and only when, nothing is left |
| Engine (`engine/engine.go`) | state, context, stats, item and result channels | AddSeed, AddRequest, Start, Stop, Pause, Resume, Wait, autoCheckpoint, processItems | admission claims a URL once; every Wait returns; items reach storage |
| Checkpoint (`engine/checkpoint.go`) | `checkpoint.json` | Save, Load | a resumed crawl owes what the dead one owed |
| Circuit breaker (`engine/backoff.go`) | per-domain state, bounded | Allow, RecordSuccess, RecordFailure | one probe per half-open domain; never stuck |
| Throttler (`engine/throttle.go`) | per-domain limiters in an LRU | Ready, Claim, Delay | two fetches of a domain are a delay apart |
| Deduplication (`engine/dedup.go`, `bloom.go`) | claimed URLs, or a filter | CanonicalizeURL, MarkIfUnseen, Export, Import | the claim is atomic; the URLs of one page are one claim |
| Robots (`engine/robots.go`), domains (`domain.go`) | cache of rules | IsAllowed, Report | the rules obeyed are the file's |
| HTTP fetcher (`fetcher/http.go`), guard (`safety/guard.go`) | none between fetches | Fetch, CheckRedirect, DialContext | no connection to an address that is not public; a body whole or cut at its cap; retries only of what may succeed |
| Fetch log (`fetchlog/`) | objects by digest, ledger, manifest | Put, Append, Fetch (recording, replaying), Verify | what was recorded is what is replayed |
| Provenance (`provenance/`) | corpus and claims files, prior corpus | Write, Renew, Close, Ground, Summarise, Audit | one complete record per page; a claim is grounded in bytes that make it |
| Pipeline, storage (`pipeline/`, `storage/`) | middlewares, batch, files | Process, Store, Close | every accepted item is written once, in an order the items determine |
| Parsers (`parser/`) | none | Parse, Assertions, Items | an item is a view of the page's claims |
| API server (`apiserver/`) | jobs in SQLite, limiters, WebSocket clients | create, run, cancel, poll, broadcast, restart | answers, events and the job table agree |
| MCP server (`mcp/`) | batch jobs in memory | read, dispatch, crawl, batch, status | a job said to be completed comes with all its items |
| Config, metrics, monitor, transforms, middleware | mostly none | | |

How they interact. A worker takes a request from the frontier (which consults
the throttler under its own lock), asks the circuit breaker, fetches, reports
back to the breaker, and on success runs the callbacks and the parser, writes
the page's record and claims, sends items into a channel, and calls AddRequest
for each link, which consults the domain lists, robots and the deduper and
pushes to the frontier. A failed fetch is handed to a retry goroutine. The
fetcher may be wrapped by the recorder or replaced by the player. The idle
monitor polls two counters every 200 ms and closes the frontier after three
quiet ticks. The checkpoint goroutine reads the frontier and the deduper while
all this goes on. Stop closes the frontier and cancels the context; Wait joins
the workers, then the item and checkpoint goroutines; the command then closes
the storage and the corpus, and reads the corpus back to report on it. The API
and MCP servers make an engine per job and run it in a goroutine of its own; its
storage writes rows and sends events.

Where it is hard: the frontier's put-back after a failed claim takes two steps
under two locks; one wakeup slot serves many waiters; work moves between the
queue, the in-flight set, a worker's hands, AddRequest's two steps and a
backoff timer, and completion, checkpoints and shutdown all reason about where
it is from reads that are not one atomic look; a result reaches the circuit
breaker long after the state it was asked under; engine state, pause gate,
frontier and context are changed one after the other by calls that overlap;
files are appended to by a process that may die and by the next one; a refresh
opens the file it may be reading from; a job's status, its rows and its events
are three things written one after the other. `PROJECT.json` lists each hazard
at its line.

## 2. The modules

### The crawl

**`WorkPool`** is what the frontier promises, with no lock, channel, heap or rate
limiter in it: a request is arriving, queued, held, finished or dropped; an open
pool refuses and drops nothing; a request has one holder.

**`Frontier`** is `frontier.go` at the granularity of its locks and channel
operations, with the workers around it. `PopReady` is a dozen actions: the scan
that takes (`TakeRunnable`) or finds nothing (`FindNothing`), the claim outside
the lock (`Claim`), the put-back in three steps (`PutBackDone`, `PutBackPush`,
`PutBackWake`), the baton (`HandBaton`), the four arms of the select
(`TakeToken`, `TimerFires`, `SeeClosed`, `SeeCancelled`), and `Drain` on a
closed frontier. `Push` and the wake that follows its unlock are separate
steps. A domain's limiter is one token that `Claim` spends and `Refill`
restores; time is otherwise left out, so a timer may fire early, which only
costs a scan. `First` picks any of the best requests: which of several equals
comes first depends on the heap's layout. A retry may be pushed before or after
its worker's `Done`.

**`Crawl`** is one crawl seen from the scheduler and the engine: seeds, workers
through processRequest, links admitted in two steps (`MarkLink`, `PushLink`),
retries with their counter, the idle monitor with its two reads per tick,
MaxRequests, Stop at any moment, and Wait. Taking a request is a single step
here, as `WorkPool` allows; the put-back keeps its two steps (`LoseClaim`,
`PutBack`), because what the idle monitor sees in between matters. Of the
monitor, the history `blink` says that a request may be in neither read of the tick
under way, and `blind` counts such ticks in the streak under way. A page is
its set of links, a fetch is one of the outcomes `Outcomes[u]` allows.

**`CrawlCheckpoint`** extends `Crawl` with the checkpoint goroutine, whose Save
reads the frontier (`BeginSave`) and then the deduper (`FinishSave`), with
crashes at any moment, and with resumption. The rename makes the file appear
whole, so it is one assignment. A retry's count does not survive (Load makes
new requests); its depth does.

**`CircuitBreaker`** is `backoff.go`'s breaker with its bounded table and the
workers that are still fetching: a report may find its domain's circuit in any
state, or its entry gone. Time is whether the cooldown has elapsed. A threshold
of zero disables the breaker; the model assumes it is enabled.

**`Lifecycle`** is the engine's state machine and the scheduler's pause gate,
called by several goroutines at once, with every call split where another can
come in between (state first, scheduler after). The crawl is only a count of
queued requests. Gates are numbered, and closing one adds it to `shut`.

### The way to a page

**`RobotsRules`** parses robots.txt (`ReadRule` per line) and matches paths
against its patterns, cut into parts at their wildcards (`Matching` finds the
parts one after the other, the first place for each); a path is a sequence of
letters. **`HttpFetch`** is one
`HTTPFetcher.Fetch` as a function of what the network did: the hops with the
addresses each name resolved to, the fault, the status and headers, the body's
size on the wire and decompressed, and where the body breaks off, if it does: corrupt,
reset and late are one to `io.ReadAll`, and only gzip finds a corrupt header before it
reads (`Opens`). `Connections` are what was dialled. Both are pure.

**`Fetching`** puts them between a discovered link and its page, with the state
that workers share: the cache of rules (a miss, the fetch of robots.txt and the
store are separate steps, so two workers may miss together and the last writer
wins), the domain lists, and the limiters in their LRU. Time advances in ticks;
a limiter holds when its token is back. A fetch of robots.txt may fail, and then
everything is allowed.

**`Dedup`** is the canonical form of a URL and the two deduplicators. A URL is a
record of scheme, host with its colons, path and query, made of names and not of
characters; `Word` is the width the Bloom filter's arithmetic wraps at (32 for
2^64: the bit positions are `(h1 + i * h2)` at that width modulo the filter's
size).

### What a crawl leaves behind

**`Delivery`** is the way of an item from its worker to the storage and the
subscribers: `emitItem`, `itemChan`, `processItems` with the pipeline,
`resultChan`, `fanOut`, `storeResults` with its batches, and the closes in
`Wait`. A channel is a bounded sequence; each send, receive and close is an
action, and the two arms of `emitItem`'s select are `Emit` and `Abandon`. The
pipeline is its verdict on each item, a subscriber a program that registers at
any moment, reads at its own pace and may give up. The histories `sent`,
`given`, `passed`, `got` and `joined` record what the properties compare.

**`Output`** is both ends of that way: how the composite parser turns rule
matches and structured data into claims and an item derived from them, and what
a storage does with a batch (`StoreBatch`, `CloseStorage`, and a process that
dies) in each of four formats. A value is a record with its kind, among them one
that JSON cannot encode; names and texts are numbers in the order of their
strings, which is all that sorting looks at. Sorting itself is `ByRank`, each
element at the place given by the number of those below it, where the code's sort is
stable or has no ties, and `SortItems`, any of the sorted arrangements, where it
is not stable. Of the parts of an item's key, `name=text` with no escape between the two,
only their order matters: `Joined` gives it, and may give two fields the same.

**`FetchLog`** is the object store, the ledger, the recorder, the manifest and
the player. `Put` finds the body present or takes two steps (temporary file, rename), an append may be
cut anywhere by a crash, and `cut` says that the next append continues the torn
line. A directory may be recorded into again. A body is its digest.

**`Signals`** is the pure part of `provenance` on reuse: what headers, document
and robots.txt state, how they are merged, and the two rules by which the summary
and the compliance report count a row as restricted. Directives and reservations keep
their order, on which the readings differ: an X-Robots-Tag loses what stands before its
first colon (`RobotsTokens`), of several reservations in headers the first counts, in
the markup the last (`SaidLast`). **`Corpus`** runs commands
one after the other over a site that changes: crawl, crawl with `--since` (against a
corpus kept elsewhere, or the very file `--output` names), a recorded crawl's
replay, `--resume`. Rows and claims are buffered and flushed, a 304 renews
the earlier row, and the process may be killed; `Report` reads the corpus back
once its files are closed. **`Evidence`** is the grounding of claims: the two
renderings of a body with the source range of every rendered byte
(`BuildProjection`, over tags, comments, scripts and references), the three
searches, and the reader's own check. Its state is the page an extractor has read,
which grows fragment by fragment, and the index made of it; everything else is a
function of these. A rendering is made in three passes: a token for each place of
the body (`Tokens`), the walk from each to the one that begins where it ends
(`Walk`), and the runs of white space between them (`Collapse`).

### The servers

**`ApiServer`** has per request the handler and the goroutine it starts, with
each SQLite statement, reads included, a step that may find the database locked or closed, the
limiter's check-then-create, broadcasts that send to one client after the other
and wait for each (`Write`),
cancellation, a synchronous caller's poll and deadline, shutdown, crash and restart.
The engine inside a job is its items, one by one, and its end. **`McpServer`** has calls in the
order they are sent (stdio) or each with its handler (HTTP), the batch goroutine
with its jobs, the status handler's two reads, and signals.

### How they compose

`Frontier`, `CircuitBreaker`, `Lifecycle` and `Delivery` look at one mechanism each in
detail and `Crawl` assumes of them only what they are shown to do: `Frontier`
implements `WorkPool`, and every step of `Crawl` is one of the pool's moves or
leaves the pool alone (`UsesPool`, a theorem); a breaker may at most skip a request (`Skip`), and a worker that emits a page's
items is freed by Stop (`Delivery`'s `StopFreesWorkers`), so that `Crawl` may
leave the items out. `Crawl`'s fetch outcomes are `HttpFetch`'s three kinds
(page, retry, final).

`Fetching` extends `RobotsRules` and `HttpFetch`, `Corpus` extends `Signals`,
and `MCDelivery` joins `Output` to `Delivery`: the storage is given exactly the
batches `storeResults` gave it. It is looked at once the crawl is over, since
what a storage writes depends on the calls it got and not on when it got them.

Three runs host two components that share no state: `MCCorpus` the corpus and
the grounding of claims, `MCFetching` the fetches and the deduplicators,
`MCApiServer` the two servers. In each of them one component moves only while the other
is in an initial state, so that the states add up instead of multiplying; each
component has all its behaviours.

Bounds that TLC needs in the modules: `Crawl`'s `MaxPutBacks` bounds how many
claims fail in a process, `CrawlCheckpoint`'s `MaxRestarts` how often the
process is run again, `Lifecycle`'s `MaxCalls` how many calls each goroutine
makes, `FetchLog`'s `MaxAttempts`, `MaxEntries` and `MaxRuns` a recording's
attempts at a URL, the ledger's lines and the recordings, `Corpus`'s
`MaxCommands` and `MaxChanges` the commands and the changes of the site,
`Evidence`'s `MaxFragments` the length of a page, `ApiServer`'s `MaxBusy` and
`MaxRestarts` how often the database is found locked and the restarts. Nothing else is bounded: retries are
bounded by `MaxRetries`, limiters by `MaxSlots`, bodies by `MaxBody` and so on, as in the
code. `sent` is counted only when there is a limit to compare it with.

### Timing assumptions

`Crawl` leaves time out but for two places:

* `RetryPush` comes after the same worker's Done unless `ZeroBackoff`: a backoff is taken to
  outlast the few instructions from requeueAfter to Done. No delay promises this, as the
  jitter may take nearly all of it away (backoff.go:51-53), but a delay of a second does with
  odds of about a million to one; `ZeroBackoff` models what happens otherwise (see the
  divergences below). The theorems that need it say so;
* the two reads of a tick are two steps, any number of steps apart, and so are any two ticks.
  In reality reads are microseconds apart and ticks 200 ms, so that three ticks in a
  row, each with a put-back or a retry in its gap, are next to impossible; to the model they are not.
  `IdleCloseIsSound`, `CompleteAtEnd` and `ResumeCompletes` are therefore claimed of every idle
  close but one on a streak that was blind at each tick (`blind < IdleStreak`). What happened in
  ticks before the streak, and in the ticks of a streak that was broken, does not
  count: the crawl may have any number of retries and put-backs. TLC shows
  the condition is needed: without it `IdleCloseIsSound` is violated by a request
  that slips past every tick.

## 3. The runs

| Run | Instance | Distinct states | What it shows |
|---|---|---|---|
| `frontier` | 2 workers, 2 requests of one throttled domain, 1 retry each | 150,097 | no lost wakeup, refinement of `WorkPool` (nothing lost, held twice or dropped while open), Close releases all and a queued request is handed out |
| `crawl` | 2 workers, 3 pages (2 seeds), depth 1, limit 3, streak 3, 1 failed claim | 534,624 | idle close sound and complete, each page once, termination |
| `checkpoint` | 1 worker, 2 pages, streak 2, 1 failed claim per process, 1 restart | 710,660 | losses only in the known gaps, resumption completes, pages once across restarts, an end |
| `circuit_breaker` | 3 domains, room for 2, 3 workers, threshold 2 | 7,663 | one probe, a probe is answered |
| `lifecycle` | 2 workers, 2 callers with 3 calls each, 2 requests | 114,545 | no stale gate, pauses take hold, resumes release, Stop ends every Wait |
| `delivery` | 2 workers, 4 items, 2 subscribers, channels of 1, batches of 2; 4 storage formats | 171,344 | items stored once and in order, subscribers see the full stream, closes after the last send, Stop frees workers, the crawl ends while its readers read; the file is determined by the items |
| `fetch_log` | 2 URLs, 2 workers, 2 attempts, 4 entries, 2 recordings | 678,490 | entries have bodies, sequence is file order, losses only behind a tear, a whole recording replays as it was |
| `corpus` | 2 pages in 2 versions, 4 commands, 1 change; every page of up to 3 of 15 fragments | 104,783 | report is the corpus, a refresh covers the prior corpus, claims join rows, replay rebuilds; citations stand alone |
| `fetching` | 2 workers, 4 URLs of 3 hosts, 2 domains on 1 limiter, delay 2; 7 addresses of 4 pages | 509,861 | robots obeyed, domains spaced, bodies whole or cut, connections public; one claim per page |
| `api_server` | 5 requests of one key, burst 2, 1 client, batch of 2, 2 items per engine, database locked once, 1 restart; 4 MCP calls | 395,416 | counts, answers and events agree with the job table, the burst, jobs settle; MCP statuses are whole |

Why these bounds are enough to be interesting.

*`frontier`*: a claim can only fail when two workers want one throttled domain;
two requests make the baton matter; one retry lets a request come back while its
last holder is still releasing it. *`crawl`*: the two seeds link to the same
page and back, so both workers can discover one link at once; a retry, a 304, a
permanent failure and an open circuit all occur; the streak is the code's, and
a put-back and a retry leave room for one tick of it that sees. *`checkpoint`*: a streak of 2
can be blind in one tick and not in the other; one worker and the checkpoint
goroutine already interleave at every step of Save, and one restart is a crash
followed by a resumption that goes to its end. A second worker takes the
instance out of reach of a run of minutes. *`circuit_breaker`*: three domains in
a table of two let a result find its entry evicted; three workers let a stale
result, a probe and a third request be out at once. *`lifecycle`*: three calls
each are enough for two pauses and a resume to overlap with a stop or a wait.

*`delivery`*: with channels of one item, four items are what it takes for a
subscriber that gave up to block every sender up to a worker in `emitItem`;
batches of two leave a last batch full, half full or empty; one subscriber is
there from the start and one comes at any moment; one item fails in the
pipeline. The stored items tie in every key but their fields, come of one page
whose rules match twice, never or under a name the page itself uses, or hold a
value that JSON cannot encode.

*`fetch_log`*: two recordings let the second find a torn line or a leftover
temporary file; two attempts let a URL fail before it succeeds; both workers
may file the same body at once. One body is enough to be shared, and a failure
is what is not one. *`corpus`*: the second page is found only through the first,
so a 304 for the first hides it; the two versions are restricted in their headers
and in their markup, where the other says otherwise; four commands are a recorded
crawl, a refresh that is killed, its resumption and a replay, in any order; a
report lists one row of the two that may be restricted. The fragments are letters,
a quote, a space, a two-byte character, references to one, to two and to a blank
character, a tag with a quoted ">", a script, a comment, and what breaks a page:
tags and elements never closed, a stray byte, a reference that decodes in part.
Three of them are what it takes to put two kinds of markup side by side, or one
in another; all claims that can be cut from a page or a rendering of it are tried.

*`fetching`*: two domains on one slot evict each other's limiter; two workers
may miss the cache of one host together, one of them with a failed fetch; the
robots files have groups for others, wildcards and the forms the parser
misreads; the exchanges stand at, one below and one above each limit on bodies,
use up the redirects, and lead to addresses that are private or embed one that is;
bodies of each encoding break off in the middle, and one of gzip in its header.
The addresses differ in case, default ports, brackets, slashes, escapes
and the order of parameters, and the filter of 7 bits takes new pages for old.
*`api_server`*: five requests under one key can exceed a burst of two, one after
the other, and also the four that two may admit who miss the limiter together; the database
may be locked for any one statement, a read of a finished job's items too; one restart is a crash or a shutdown at any moment
and what a caller finds after it; a batch of two is what it takes for a count to
span engines, two items for an answer to be a page of them. One request makes a job, and the
others come only where it makes none, the last two to a server that nothing else happens to
(`OneAtATime`): jobs share the process and the job table, each with rows of its own; that
another job's insert locks the database is any statement finding it locked. For MCP, two batches and two calls that ask
after them let a status fall between any two steps of a batch.

Deadlock is not checked in `lifecycle` (its callers may have made all their
calls with the engine paused or never started), `delivery` (the crawl ends, or it
stalls behind a subscriber that gave up, which `fanOut`'s comment calls its
contract), `fetch_log`, `corpus` and `api_server` (their bounds on recordings,
commands and calls are used up, or a process is gone): each is a legitimate end.

The symmetries of `fetch_log` (URLs, workers) and `fetching` (workers) are used
with invariants only.

### Divergences found

Two runs find what a document or a test says to be false of the code
(`findings` in `PROJECT.json` quotes the lines):

* `since_own_corpus`: the refresh command of README.md:103 gives `--since` the
  file `--output` names, which is truncated before it is read: the refresh covers
  nothing that the first page does not link to anew;
* `span_of_reference`: a claim that spells a character reference is grounded in
  the bytes that have it verbatim, and those bytes render to another text, which
  the fuzz test of spans forbids.

The others were met while modelling and are part of the models; each is in the comment
of the action or property it concerns, and a property of a passing run says how
far it goes:

* the put-back's Done-then-Push (frontier.go:190) leaves the window that the
  comments at frontier.go:38-39 and 187-188 say it avoids: between `PutBackDone` and
  `PutBackPush` a request is neither queued nor in flight. `IdleCloseIsSound` and
  `LossOnlyInGaps` bound the harm;
* with no retry delay, or one that jitter makes next to nothing (backoff.go:51-53), two workers may hold one request, the first Done erases the
  second's in-flight entry (scheduler.go:715, frontier.go:122), and the idle monitor closes the
  crawl during a fetch. With `ZeroBackoff = TRUE` in `MCCrawl.cfg` TLC finds
  `IdleCloseIsSound` violated;
* a request in a backoff is in no checkpoint and a resumed crawl refuses its URL
  as seen (frontier.go:339, against the comment at 325; engine.go:654), and so is a
  link claimed between Save's two reads. They are among the gaps `LossOnlyInGaps` names;
* after Stop the workers use up the queue on fetches that fail at once, before
  or while the last checkpoint is taken (engine.go:628, against SRS.md:399 and
  docs/architecture.md:72). Another of the gaps;
* Stop on a paused engine is silently ignored (engine.go:451, against 443 and
  sdk.go:317): in `Lifecycle` it is a call that changes nothing, and a caller
  of Wait goes on waiting. `StopEndsWait` speaks of a Stop that took effect;
* an item that a middleware drops by returning nil is stored and handed to subscribers
  (engine.go:568, against pipeline.go:13), and the storage dereferences it.
  the verdict "nil" of `Delivery`, which no installed middleware gives;
* MaxRequests may be overshot by one request less than there are workers
  (scheduler.go:213-219), and nothing calls ClearCheckpoint (engine.go:676);
* `--resume` creates its corpus anew (corpus.go:56): rows written before the
  crash are gone. Rows renewed by a 304 have no claims in the refreshed corpus,
  and the replay of a recorded refresh does not rebuild them;
* a temporary file that a crash leaves in the object store fails `verify` for
  good, and the ledger's first line after a torn one is lost with it;
* a character reference that decodes to two characters has a span wider than a
  claim of one of them; a valid character followed by a stray continuation byte
  is never grounded; a claim matched verbatim across a reference is not confirmed by the reader's
  check (which is why `StandsAlone` locates the claim in the cut again, and
  `Whole` keeps to whole characters);
* `/a%2Fb/` is canonicalised to `/a/b` and `/a%2Fb` keeps its escape
  (`Plain` leaves both out); a Bloom filter exports nothing, so a resumed
  crawl starts with an empty one;
* in robots.txt a second user-agent line forgets the one before if no rule is
  between them, a pattern with `*` and `$` takes the first occurrence of its last
  part (`Misread` names both), and a transient failure to fetch the file allows everything for the
  rest of the crawl, also when it overwrites rules that another worker fetched (robots.go:188).
  `RobotsAreObeyed` leaves these forms and hosts out;
* an uncompressed body over the cap is cut silently where errors.go:22 and
  decompress_test.go:134-135 speak of an error, and a compressed one is asked for
  again; so is a corrupt body, which no second request mends, but for a gzip stream whose
  header is corrupt (http.go:227-231, 244-247); a client timeout is not retried though the doc comment says so;
* a completion overwrites a cancellation, cancelling does not stop the engine, a
  synchronous caller of a cancelled job waits for its deadline, and replies after
  120 s are cut by the server's write timeout; the job table is closed before
  the handlers are done, so their jobs stay "running", and no restart takes them
  up; inserts take no lock, so a locked database loses an item that is counted, and a
  finished job's answer may have its count and no items, since the error of reading them
  is dropped (handlers.go:136). `CountAccountsForRows`, `StreamFollowsTable` and
  `AnswersAreWhole` count these in: they say that nothing else is missing;
* a WebSocket client that stops reading holds the goroutine of its job, which stays
  "running": a write to it has no deadline (server.go:380). `JobsSettle` has it as its hypothesis that such
  writes return;
* "noai, max-snippet:50" in an X-Robots-Tag loses its noai, which stood before the colon
  (signals.go:113-118), and of two reservations a site states the first counts in headers and the last in markup:
  the report counts what was read, not what was stated;
* on stdio a signal does not wake the reader, and the next line is read and
  dropped unanswered; a batch whose URLs all fail ends as "completed"; a ping waits behind a
  long crawl;
* one item that JSON cannot encode loses the rest of its JSONL batch, the rest of
  an ordered file, or the whole of a JSON file.

### Fairness

Weak fairness of each worker, of the retry goroutines, of the monitor, of
processItems and storeResults, of a Stop or a call that has begun and of the
caller blocked in Wait: the Go scheduler runs every runnable goroutine, timers
fire, and a fetch ends because processRequest gives it a deadline
(`scheduler.go:244-248`). Nothing is fair about the environment: nobody need
push, stop, pause, resume or cancel, claims need not fail, and a save may fail
forever. `Delivery` assumes that a subscriber reads as long as it has not given
up, and nobody need give up or not: `EndsWhileRead` has "all subscribers go on
reading" as its hypothesis, and `StopFreesWorkers` has none. `CrawlCheckpoint`
has one strong fairness condition, on the last Save: the checkpoint goroutine's
select has the cancelled context and the ticker both ready again and again, and
Go picks among ready cases at random, so it takes the context's in the end.
`ApiServer` assumes that a job's goroutine runs, that the engine it waits for
ends (the `crawl` run's `Terminates`), and that a waiting caller's ticker fires. It does not
assume that a write to a WebSocket client returns (`Write` is not among the fair
actions): `JobsSettle` says that a job settles if its writes return, again and again.
The other modules state safety only: their processes may stop anywhere.

## 4. The proofs

TLAPS proves, for every value of the constants that satisfies the stated
assumptions (any number of workers, requests, domains, clients, commands and
restarts; any throttling, any links, any retry budgets, any robots.txt):

| Theorem | Says |
|---|---|
| `FrontierProofs!TypeCorrect` | `Spec => []TypeOK` |
| `FrontierProofs!Conservation` | `Spec => []OnePlace` |
| `FrontierProofs!OpenDropsNothing` | `Spec => []DropOnlyWhenClosed` |
| `FrontierProofs!NoWakeupIsLost` | `Spec => []NoLostWakeup` |
| `FrontierProofs!FrontierImplementsPool` | `Spec => ImplementsPool` |
| `CircuitBreakerProofs!TypeCorrect` | `Spec => []TypeOK` |
| `CircuitBreakerProofs!ClosedBelowThreshold` | `Spec => []StateByRun` |
| `CircuitBreakerProofs!OneProbe` | `Spec => []HalfOpenIsOneProbe` |
| `LifecycleProofs!TypeCorrect` | `Spec => []TypeOK` |
| `LifecycleProofs!ParksOnLiveGate` | `Spec => []NoStaleGate` |
| `LifecycleProofs!PauseHolds` | `Spec => []PauseTakesHold` |
| `LifecycleProofs!QuietWhenStopped` | `Spec => []StoppedIsQuiet` |
| `CrawlProofs!CrawlTypeCorrect` | `Spec => []TypeOK` |
| `CrawlProofs!PageDeliveredOnce` | `Spec => PageOnce` |
| `CrawlProofs!IdleCloseSound` | `Spec => []IdleCloseIsSound`, with a backoff |
| `CrawlProofs!CrawlComplete` | `Spec => []CompleteAtEnd`, with a backoff |
| `CrawlProofs!CrawlUsesPool` | `Spec => UsesPool` |
| `CrawlProofs!CheckpointTypeCorrect` | `CheckpointSpec => []CheckpointTypeOK` |
| `CrawlProofs!ResumedPageOnce` | `CheckpointSpec => PageOnce` |
| `CrawlProofs!CheckpointLosesOnlyGaps` | `CheckpointSpec => []LossOnlyInGaps`, with a backoff |
| `CrawlProofs!ResumedCrawlCompletes` | `CheckpointSpec => []ResumeCompletes`, with a backoff |
| `FetchingProofs!SpacedUnlessForgotten` | `Spec => []SpacedOrForgotten` |
| `FetchingProofs!BodyWholeOrCut` | `Spec => []BodyIsWholeOrCut` |
| `FetchingProofs!OnlyPublicConnections` | `Spec => []ConnectionsArePublic` |
| `FetchingProofs!RobotsObeyed` | `Spec => []RobotsAreObeyed` |
| `FetchingProofs!OnceClaimed` | `DedupSpec => []OneClaimPerPage` |
| `DeliveryProofs!TypeCorrect` | `Spec => []TypeOK` |
| `DeliveryProofs!ClosedAfterLastSend` | `Spec => []SendsWhileOpen` |
| `DeliveryProofs!FullStream` | `Spec => []SubscriberSeesAll` |
| `DeliveryProofs!StoredInTheirOrder` | `Spec => []StoredInOrder` |
| `DeliveryProofs!CorpusTypeCorrect` | `SpecCorpus => []CorpusTypeInv` |
| `DeliveryProofs!ReportTrue` | `SpecCorpus => []ReportIsTheCorpus` |
| `DeliveryProofs!RefreshCovers` | `SpecCorpus => []RefreshCoversPrior` |
| `DeliveryProofs!ClaimsJoin` | `SpecCorpus => []ClaimsJoinRows` |
| `DeliveryProofs!ReplayRebuilds` | `SpecCorpus => []ReplayRebuildsCorpus` |
| `DeliveryProofs!ItemIsAView` | an item is the same of its claims in any order |
| `DeliveryProofs!OneOrder` | any two sorted arrangements have the same keys in the same places |
| `DeliveryProofs!FileHoldsItems` | `StorageSpec => []StorageInv` |
| `DeliveryProofs!FileDetermined` | `StorageSpec => []OutputIsDetermined`, under two hypotheses |
| `FetchLogProofs!LogTypeCorrect` | `Spec => []LogType` |
| `FetchLogProofs!LogSound` | `Spec => []LogIsSound` |
| `FetchLogProofs!ReplayIsFaithful` | `Spec => []ReplaysTheCrawl` |
| `FetchLogProofs!ClaimsGrounded` | `EvidenceSpec =>` always: readings are grounded, citations lie in the page, verbatim ones stand alone |
| `ServerProofs!ServerTypeCorrect` | `Spec => [](PlaceInv /\ TableInv)` |
| `ServerProofs!CountSound` | `Spec => []CountAccountsForRows` |
| `ServerProofs!AnswersWhole` | `Spec => []AnswersAreWhole` |
| `ServerProofs!StreamTrue` | `Spec => []StreamFollowsTable` |
| `ServerProofs!StreamGapless` | `Spec => []StreamHasNoGap` |
| `ServerProofs!AdmittedBounded` | `Spec => []AdmittedWithinBurst` |
| `ServerProofs!McpStatusWhole` | `InitMcp /\ [][NextMcp]_mcp => []StatusIsWhole` |

The type invariants, the frontier's `OnePlace` and `DropOnlyWhenClosed`, `StateByRun`,
`StoppedIsQuiet`, `UsesPool` and `StorageInv` are proved and not run: the proofs cover
every instance. The runs
that host two components check each against a joint specification of which it
takes all its steps; the theorems are about the component's own.

### The arguments

*Frontier*: `TypeOK` is strengthened to `TypeInv`, which also
says that a worker at a pc that carries a request holds one. With it `OnePlace`
is inductive: each action takes a request out of exactly one of the sets
(arrivals, queue, carried, finished, dropped) and puts it into exactly one, and
only `TakeRunnable` and `Drain` make a worker a holder, of a request no one
carried. `NoLostWakeup` is inductive with it: a worker parks only from a scan
that found nothing runnable, which leaves either an empty queue or a timer; an
empty queue becomes non-empty only through a Push, whose wake is then due; and
the wakeup is used up only by a worker that then scans. The refinement maps a
request to its stage by the set it is in; the claim and its put-back are
stutters, `HandOut` is the step at which the claim has succeeded.

*Circuit breaker*: `SetEntry` changes the reporting domain's entry and resets the
evicted one, so each property is proved once for `SetEntry` and then for each
of the three operations; `HalfOpenIsOneProbe` needs the history `since`, the
workers admitted since the circuit opened, to tell the probe from late results.

*Lifecycle*: `GateInv` adds to `NoStaleGate` that a worker between its load of
`paused` and its read of the gate will find the pause on or the gate closed.
`HoldInv` says that during a pause the gate in force is open and a worker that
took its one request is past the pop until it parks on that very gate; it is
needed because `PauseTakesHold` alone does not say why such a worker stays
parked. `QuietInv` ties `stopped` to the shutdown body, which found every worker
gone, and a waiting caller to an engine that was started.

*Crawl*: `PlaceInv` says where a claimed URL can be: no URL is in two places
that lead to a fetch of it (`OnePlace`), and what is still to be fetched has no
result yet (`Unanswered`). `PageOnce` follows from it at each step. That the
idle close is sound is a matter of looking at one tick. A tick sees no work though there is
some only if a request was moved past it: a put-back under the first read, or a retry pushed
between the two. `blink` records either. Without it, a first read of nothing leaves at most
what is in a backoff, and a second read of nothing not even that (`IdleTick`); and then
nothing can come, as only a worker or a retry makes work. `StreakPaid` says the same of the
streak: while there is work, all of its ticks were blind.
This needs `Exclusive` (one worker at a time has a URL, and the
frontier knows), which holds only when a failed worker is past its Done before
its retry is pushed. `Accounted(E)` and `LinksFollowed(E)` say that every URL
claimed, apart from those in `E`, is somewhere or has its result, and that a page's
links are claimed or still in its worker's hands; with a sound close
they give `CompleteAtEnd`. For a crawl that is resumed, `E` is the set of URLs that
are excused by the checkpoint it began from: the invariants are proved once, for any
`E`. `SaveInv` carries the rest over a crash: during a Save, what is
claimed and neither in the frontier's snapshot nor in a named gap is finished,
with its links claimed; so the file's two halves, read at two moments,
fit together up to the gaps.

That the crawl uses the frontier as the pool it promises to be goes action by action,
with `StatusOf` for the mapping: a URL's stage is read off where `OnePlace` says it is,
and a request is let go only once the frontier is closed (`LetGo`). Without a backoff
a retry is back in the queue in the very step that ends its fetch, two of the pool's
moves (`AtOnce`). With `FrontierImplementsPool`, `Crawl` and `Frontier` meet in one
specification, and no more is taken of either.

*Deduplication*: `DedupInv` says that the keys marked (or the filter's bits) are those of the
URLs claimed, no two of which have one key. The theorem then rests on two lemmas about `CanonicalizeURL`: URLs of one page (`PageOf`, a
second definition of what a URL names, with multisets of parameters and no
rewriting) have one canonical form, and a canonical form is its own. Both are
proved part by part. The delicate ones are the host, of which a name with a default port may
or may not be rewritten (`HostWithoutPort` refuses what has a colon left over), the path, whose
trimming is the sequence up to its last name, and the query, a concatenation of
runs, one for each parameter that parses, from which each parameter's count can be read back.

*Fetching*: the limiters in the LRU are the domains looked at last (`ListsInv`,
with lemmas on what moving an element to the front of a list does), and a domain
asked less than a delay ago either has its limiter, which holds until then, or as
many other domains were looked at since as there are slots (`SpacedInv`).
`RobotsAreObeyed` compares two readings of a file: the parser's, which goes over
the lines with an accumulator, and the file's, which says of each rule whose
group it stands in. `ReadOk` relates the accumulator after `i` lines to the groups
of those lines; the matcher's part is the usual argument for greedy matching
(`Greedy`: if the parts can be laid out along the path at all, then they can
with each at the first place where it fits). It is proved for any file and
path that is not `Misread`. The two statements about the exchange concern pure
functions of what the network does: each connection on the way is to an address
`DialContext` let through, and each body is whole or cut at the cap, and was not broken off.

*Delivery*: `OpenInv`
adds to `SendsWhileOpen` that processItems closes with nobody left to send to,
and that every subscriber in the list is registered with its channel open.
`SeesInv` adds that `fan` and the list hold nobody twice (or an item would be
sent to one channel twice), that only the registered are in them, and that a
registration is never later than the present length of `passed`. Each send then
moves one item from "due" to a channel and each read one from a channel to
`got`; the lemmas `MoveHead` and `SuffixOfAppend` show that the concatenation is
unchanged, or grows with `passed`. `StoreInv` is the same for the storage: what was given
to it, the batch, the channel, the item in hand and what the pipeline will let
through of `items` are, one after the other, what it lets through of `sent`
(`Piped`); and each goroutine that has returned left its side empty, because it
returns only from a channel that is closed and drained.

*Corpus*: every row is sound (`SoundRow`: its statement is what the version's
headers and markup and the site's robots.txt say), also after the round trip
through Parquet's columns (`RoundTrip`). `PhaseInv` says what is empty when a
command begins and closed when it reports. `CountInv` makes the rows and the
answers correspond one to one, `ClaimInv` the claims and the rows, flushed or not.
`RefreshInv` keeps each page of the prior corpus queued until it
has a row or has failed. That a replay meets every page of the log is the one
argument that is not local: the crawl met them by links from the
seeds, and the replay, with another order, must do so too. `LogInv`
states it without paths: every set of pages that contains the seeds and, with a page
of the log, its links (`Closed`) contains all that the crawl has met. `OriginalInv`
keeps this when the crawl is over, and at the replay's end its set of visited pages
is such a set, so that all downloads are in it. The counts of the report are about
cardinalities, with the facts of the library on finite sets.

*Output*: that two sorted arrangements of the items agree is a matter of counting
(`SortedAlike`): if at some place the one had a smaller key than the other, then all
items up to it in the one would be among those strictly before it in the other.
This needs that comparing keys is a total order (`NotAfterTotal`, `NotAfterOnward`,
`NotAfterBoth`, by the first place of difference), and gives `OneOrder` without any
hypothesis on the items. That equal keys belong to items that are written alike is another
lemma (`KeyTells`): two equal keys have the same number of parts, and by `KeysTellFields`
each part tells its name and value. On the parser's side, `DropShadowedIs` says that
each field is left with the claims of one method; so claims of one field and index are
of one method, and what an item makes of them (`GroupAlike`) does not depend on their
order. `StorageInv` is inductive: a
buffered storage has exactly the items it was given, a stream what they encode to, up to the first
failure (`StreamGrows`: a prefix stays one, whatever later batches write), a
table a row for each item under the headers of its first.

*Fetch log*: `LedgerInv` says that a reader takes the lines up to the first that
does not parse and that sequence numbers grow along these (a reopened ledger goes
on from what it could read), `AnsweredInv` that the ledger counts
the answered fetches until a crash; `JobsOK` and `TempsOK` account for each body
between its fetch and its entry. For the replay, `AttemptsOK` and `OneRunInv`
make the entries of a single whole recording correspond one to one with the
attempts of each URL, and `PlayInv` says that the player has them all and has served as many
as it counted.

*Evidence* (in `FetchLogProofs`): `CitationsStandAlone` has four parts, and `ClaimsGrounded`
proves two of them, and half of a third, for pages of any bytes and length, whatever
references, characters and elements there are. What begins at position `i` of a body
begins there and leads on (`Led`, with a lemma for each of an element, a tag or comment, a
reference and a character), so the tokens of a walk have ranges that ascend
(`WalkAscends`); `Collapse` drops and blanks tokens, and each byte of a token takes its
token's range (`CollapseAscends`, `MarksAscend`). Thus the rendered bytes from `i` to `j`
come from a non-empty range of the body (`Faithful`), which is what each of the three
searches of `Locate` needs to answer with a range of the page (`LocateIs`). A run of
whole characters is at a place `indexAligned` accepts (`AlignedFound`), so a search
that is reached finds it. And bytes found verbatim are the claim, which is found in itself
from end to end (`FoundInItself`).

*Servers*: `PlaceInv` ties the handler's place to its goroutine's, `TableInv` the
counters of a job to its rows and to the inserts that failed, at each of its places;
`AnswerInv` and `ToldInv` say that what was read of the table, or told of it in an
event, is so and stays so. `GapInv` says that a client's events are a
stretch of its job's events which, while it is registered, reaches to the last one,
or to the last but one while that is being sent. `LimitInv` is a budget: what was admitted,
the tokens left, and a burst for each request that has missed the
limiter and will yet store one of its own, are within a burst for each of those that
missed it together. `McpInv` says that a job has all items its
crawls found but those it has still to add, and that a status call that has read
"completed" has read it of a job that is.

### What they assume

Assumptions on constants are named `ASSUME`s in the modules that declare them,
and TLC evaluates them in every run. They are types, and a few facts of the code's
own: `Burst` and `IdleStreak` are positive, `None` is none of the values it stands
beside. Some modules name sets of records only for
the proofs' sake, because TLAPS does not know that a string literal is a string: the
events, answers and replies of `ApiServer` and `McpServer`.

The four theorems marked "with a backoff" assume `~ZeroBackoff`. It is a
condition of theirs, not a convenience: with a zero delay a retry may be pushed
before its worker's Done (scheduler.go:712-716), and TLC finds `IdleCloseIsSound`
violated (see the divergences).

`FileDetermined` has two hypotheses, which are about the rules and the pages and not
about the program, because the program does not ensure them:

* `KeysTellFields`: two different fields do not come to the same part of a key, and no name or text
  holds the NUL that ends a part. `orderKey` (order.go:48-72) joins name, "=" and text with no
  escape, so `a` with the text `b=c` and `a=b` with the text `c` are one; and `canonicalValue`
  (order.go:80-91) writes a string as it is and everything else in JSON, so the text
  `["a"]` and the list of `a` are one, as are nil and the empty text. Of two items
  that differ in nothing else the arrival order decides, as `sort.Slice` is not stable;
* `MethodsTellRules`: rules that claim a field by one method match the same texts. The method
  of an XPath rule is its path without its attribute (xpath.go:56; a CSS rule's has it,
  css.go:71-79), so two such rules for one field that differ in the attribute make claims of one
  method and index, and in what order a corpus gives those back decides the list.

`MCDelivery` states both of its instance (`MCHypotheses`). `ItemIsAView`, `OneOrder` and
`FileHoldsItems` do without them.

Induction over data is done by least counterexample: the lemma `Least` takes the
library's well-founded induction as a fact about sets, and each statement about
sequences of any length (`StepByStep`, `ReadOk`, `Greedy`) is proved by going to the
first place where it fails.

### Only model-checked

* All liveness properties: TLAPS 1.4 proves neither `ENABLED` nor fairness
  arguments of this size.
* Of `Evidence.CitationsStandAlone`, that the whole text of a page is grounded
  (`TextIsGrounded`: it relates the renderings to what the fragments read as, which is
  data of the instance) and that a claim found in a rendering only is cited by bytes
  that stand alone. The second needs that cutting a page leaves the tokens between the
  cuts as they were, which is so only where no element, comment or quote is cut open:
  an induction over both walks at once, with five kinds of markup.
* The divergences.

No module declares a RECURSIVE operator.

## 5. Not modelled, and why

* Libraries: what CSS, XPath and regular expressions match, HTML parsing, hashing,
  Parquet encoding, the language and MIME detectors. Matches, digests and decoded
  references enter as constants. Element names are matched without regard to case
  in the code and are one byte here.
* Text and arithmetic without state: transforms, density extraction, sitemap
  parsing, the monitor's diffs, formatting, logging, metrics and configuration,
  except for the options that are constants here (MaxDepth, MaxRequests,
  MaxRetries, the breaker's threshold, the limits of the fetcher, whether a
  backoff is zero).
* External programs: the browser and its proxy, TLS fingerprints, MongoDB, an HTTP proxy the
  fetcher may be told to use.
* Errors of the file system that `Put` and `Append` return: what a recording survives is the
  process dying in the middle of either.
* Code that no program constructs or calls: `SessionPool`, `SessionManager`, the
  proxy manager's health checks, the `middleware` package, the pipeline
  middlewares other than Trim, `MultiStorage`, `ClearCheckpoint`.
* In the servers: authentication, CORS, the stateless endpoints and tools (each
  runs to its end within its call), and SSE streams, to which nothing is written.
* Priorities enter `Frontier` and not `Crawl`, where the order of fetches is
  left open. Restored requests lose their retry count and keep their priority.
* Real time: a delay is a number of ticks, a cooldown or deadline has passed or
  not. The throttler's scans use an injected clock and its claims the wall
  clock; they differ in tests only.

## 6. Plan

Modelled: everything above. Left, in this order:

1. `Evidence`: the rest of `CitationsStandAlone`, for the rendering that keeps its markup
   first: there the tokens of a cut are those of the page between the cuts, by
   `WalkIs`;
2. `Delivery` with `Output`: that the batches `storeResults` gives are in `Produced`, so
   that `FileDetermined` speaks of the joint system and not of the storage alone;
3. the refinement of `Crawl`'s skips by `CircuitBreaker`'s answers, as `UsesPool` is that of
   its requests.
