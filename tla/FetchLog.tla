------------------------------- MODULE FetchLog -------------------------------
(***************************************************************************)
(* Recording a crawl and replaying it: the content-addressed store and the *)
(* append-only ledger of internal/fetchlog, the Recorder that writes them, *)
(* the manifest that cmd/scrapegoat puts before and after the crawl, and   *)
(* the Player that serves a later run from them. The process may be killed *)
(* anywhere while it records; the directory may be recorded into again.    *)
(*                                                                         *)
(* A body is its digest. A line of the ledger is an entry, or what a crash *)
(* left of one: `cut` says the file does not end in a newline, so the next *)
(* append continues its last line.                                         *)
(***************************************************************************)
EXTENDS Naturals, Sequences, FiniteSets, SequencesExt, FiniteSetsExt

CONSTANTS
    Url, Body, Worker,
    Err,           \* the outcome of an attempt that failed
    MaxAttempts,   \* bound: the attempts a run makes at a URL
    MaxEntries,    \* bound: the lines of the ledger
    MaxRuns,       \* bound: the recordings made into the directory
    None

ASSUME FetchLogAssumption ==
    /\ {MaxAttempts, MaxEntries, MaxRuns} \subseteq Nat \ {0}
    /\ Err \notin Body /\ None \notin Body \cup {Err} \cup Url

VARIABLES
    objects, temps,   \* the bodies filed, and the .tmp- files left behind
    lines, cut,       \* index.jsonl
    manifest,         \* manifest.json: complete, and the counts it states
    proc,             \* what the process is doing with the directory
    seq, attempts,    \* Log.seq and Recorder.attempts, or Player.attempts
    job,              \* the fetch each worker is in
    played,           \* Player.entries: the ledger as it was opened
    runs, crashes,    \* recordings begun, and those killed
    answered,         \* history: entries whose Fetch returned to the crawl
    history, heard    \* history: outcomes per URL of this recording, this replay

disk == <<objects, temps, lines, cut, manifest>>
ghosts == <<runs, crashes, answered, history, heard>>
vars == <<disk, proc, seq, attempts, job, played, ghosts>>

Outcome == Body \cup {Err}
Entry == [seq : Nat, url : Url, attempt : Nat, out : Outcome, run : Nat]
Idle == [at |-> "idle", url |-> None, attempt |-> 0, out |-> None]
NoManifest == [complete |-> FALSE, entries |-> 0, objects |-> 0]

Init ==
    /\ objects = {} /\ temps = 0 /\ lines = <<>> /\ cut = FALSE
    /\ manifest = NoManifest
    /\ proc = "down" /\ seq = 0 /\ attempts = [u \in Url |-> 0]
    /\ job = [w \in Worker |-> Idle] /\ played = {}
    /\ runs = 0 /\ crashes = 0 /\ answered = {}
    /\ history = [u \in Url |-> <<>>] /\ heard = [u \in Url |-> <<>>]

-----------------------------------------------------------------------------
(* What a reader makes of the ledger. *)

\* The lines before the first that does not parse.
Readable ==
    LET bad == {i \in DOMAIN lines : ~lines[i].ok}
        good == IF bad = {} THEN lines ELSE SubSeq(lines, 1, Min(bad) - 1)
    IN [i \in DOMAIN good |-> good[i].e]

LastSeq == Max({0} \cup {e.seq : e \in Range(Readable)})

\* NewPlayer goes through the entries in order of seq: the last of a key stays.
ByKey == {e \in Range(Readable) :
             \A f \in Range(Readable) :
                 f.url = e.url /\ f.attempt = e.attempt => f.seq <= e.seq}

\* Store.Has and Get find the body of an entry that states one.
HasBody(e) == e.out \in objects \cup {Err}

\* Store.Stat counts every file of the store; Verify wants each to hash to
\* its path, which a temporary file does not.
FilesInStore == Cardinality(objects) + temps
StoreVerifies == temps = 0

\* The verdict of `scrapegoat verify`.
Intact == StoreVerifies /\ \A e \in Range(Readable) : HasBody(e)

-----------------------------------------------------------------------------
(* Recording. *)

\* WriteManifest replaces the file by a rename.
WriteManifest(m) == manifest' = m

OpenRecorder ==
    /\ proc = "down" /\ runs < MaxRuns
    /\ proc' = "opened"
    /\ seq' = LastSeq
    /\ attempts' = [u \in Url |-> 0]
    /\ runs' = runs + 1
    /\ history' = [u \in Url |-> <<>>]
    /\ UNCHANGED <<disk, job, played, crashes, answered, heard>>

\* writeRecordManifest: a manifest without FinishedAt replaces what was there.
StampManifest ==
    /\ proc = "opened"
    /\ proc' = "recording"
    /\ WriteManifest(NoManifest)
    /\ UNCHANGED <<objects, temps, lines, cut, seq, attempts, job, played, ghosts>>

\* nextAttempt; the crawl has one request for a URL at a time.
BeginFetch(w, u) ==
    /\ proc = "recording" /\ job[w] = Idle /\ attempts[u] < MaxAttempts
    /\ \A v \in Worker : job[v].url # u
    /\ Len(lines) + Cardinality({v \in Worker : job[v] # Idle}) < MaxEntries
    /\ job' = [job EXCEPT ![w] = [at |-> "fetching", url |-> u,
                                  attempt |-> attempts[u], out |-> None]]
    /\ attempts' = [attempts EXCEPT ![u] = @ + 1]
    /\ UNCHANGED <<disk, proc, seq, played, ghosts>>

\* The inner fetcher answers with a body or an error.
InnerReturns(w, o) ==
    /\ job[w].at = "fetching"
    /\ job' = [job EXCEPT ![w].at = "fetched", ![w].out = o]
    /\ UNCHANGED <<disk, proc, seq, attempts, played, ghosts>>

\* Put finds the object present, or writes a temporary file and renames it.
PutPresent(w) ==
    /\ job[w].at = "fetched" /\ job[w].out \in objects
    /\ job' = [job EXCEPT ![w].at = "stored"]
    /\ UNCHANGED <<disk, proc, seq, attempts, played, ghosts>>

PutTemp(w) ==
    /\ job[w].at = "fetched" /\ job[w].out \in Body \ objects
    /\ job' = [job EXCEPT ![w].at = "temp"]
    /\ temps' = temps + 1
    /\ UNCHANGED <<objects, lines, cut, manifest, proc, seq, attempts, played, ghosts>>

PutRename(w) ==
    /\ job[w].at = "temp"
    /\ job' = [job EXCEPT ![w].at = "stored"]
    /\ temps' = temps - 1
    /\ objects' = objects \cup {job[w].out}
    /\ UNCHANGED <<lines, cut, manifest, proc, seq, attempts, played, ghosts>>

\* Whether w is about to append: a body goes to the store first.
Appending(w) == job[w].at = "stored" \/ (job[w].at = "fetched" /\ job[w].out = Err)

\* Mutant: every attempt is recorded as the first.
EntryOfFirst(w) == [seq |-> seq + 1, url |-> job[w].url, attempt |-> 0,
                    out |-> job[w].out, run |-> runs]

EntryOf(w) == [seq |-> seq + 1, url |-> job[w].url, attempt |-> job[w].attempt,
               out |-> job[w].out, run |-> runs]

\* Mutant: a failed attempt is not written down.
WrittenIfBody(e, whole) == IF e.out = Err THEN lines ELSE Append(lines, [e |-> e, ok |-> whole])

\* The file after the bytes of e: an unfinished last line takes them in, and
\* is then a line that does not parse.
Written(e, whole) ==
    IF cut THEN [lines EXCEPT ![Len(lines)].ok = FALSE]
    ELSE Append(lines, [e |-> e, ok |-> whole])

\* Log.Append, and the return of Fetch.
AppendEntry(w) ==
    /\ Appending(w)
    /\ lines' = Written(EntryOf(w), TRUE) /\ cut' = FALSE
    /\ seq' = seq + 1
    /\ answered' = answered \cup {EntryOf(w)}
    /\ history' = [history EXCEPT ![job[w].url] = Append(@, job[w].out)]
    /\ job' = [job EXCEPT ![w] = Idle]
    /\ UNCHANGED <<objects, temps, manifest, proc, attempts, played, runs, crashes, heard>>

\* finaliseRecording, once the engine has stopped: the store is counted and
\* the log closed; the log is read back and the manifest completed.
Seal ==
    /\ proc = "recording" /\ \A w \in Worker : job[w] = Idle
    /\ proc' = "sealed"
    /\ UNCHANGED <<disk, seq, attempts, job, played, ghosts>>

CompleteManifest ==
    /\ proc = "sealed"
    /\ proc' = "down"
    /\ WriteManifest([complete |-> TRUE, entries |-> Len(Readable),
                       objects |-> FilesInStore])
    /\ UNCHANGED <<objects, temps, lines, cut, seq, attempts, job, played, ghosts>>

\* The process is killed. The append in progress may have written nothing,
\* part of its line, all but the newline, or the line.
Crash ==
    /\ proc \in {"opened", "recording", "sealed"}
    /\ proc' = "down"
    /\ crashes' = crashes + 1
    /\ job' = [w \in Worker |-> Idle]
    /\ \/ UNCHANGED <<lines, cut>>
       \/ \E w \in Worker, whole \in BOOLEAN, newline \in BOOLEAN :
              /\ Appending(w) /\ (newline => whole)
              /\ lines' = Written(EntryOf(w), whole) /\ cut' = ~newline
    /\ UNCHANGED <<objects, temps, manifest, seq, attempts, played, runs, answered, history, heard>>

-----------------------------------------------------------------------------
(* Replaying. *)

\* runReplay needs a manifest, which a recording has once it has begun.
OpenPlayer ==
    /\ proc = "down" /\ runs > 0
    /\ proc' = "replaying"
    /\ played' = ByKey
    /\ attempts' = [u \in Url |-> 0]
    /\ heard' = [u \in Url |-> <<>>]
    /\ UNCHANGED <<disk, seq, job, runs, crashes, answered, history>>

Recorded(u, n) == {e \in played : e.url = u /\ e.attempt = n}

\* Player.Fetch: this attempt's entry, else the first one's, else no recording.
Play(u) ==
    /\ proc = "replaying" /\ attempts[u] < MaxAttempts
    /\ attempts' = [attempts EXCEPT ![u] = @ + 1]
    /\ \/ \E e \in Recorded(u, attempts[u]) :
              heard' = [heard EXCEPT ![u] = Append(@, e.out)]
       \/ /\ Recorded(u, attempts[u]) = {}
          /\ \E e \in Recorded(u, 0) : heard' = [heard EXCEPT ![u] = Append(@, e.out)]
       \/ /\ Recorded(u, attempts[u]) = {} /\ Recorded(u, 0) = {}
          /\ heard' = [heard EXCEPT ![u] = Append(@, None)]
    /\ UNCHANGED <<disk, proc, seq, job, played, runs, crashes, answered, history>>

ClosePlayer ==
    /\ proc = "replaying"
    /\ proc' = "down"
    /\ played' = {}
    /\ heard' = [u \in Url |-> <<>>]
    /\ UNCHANGED <<disk, seq, attempts, job, runs, crashes, answered, history>>

Next ==
    \/ OpenRecorder \/ StampManifest \/ Seal \/ CompleteManifest \/ Crash
    \/ OpenPlayer \/ ClosePlayer
    \/ \E u \in Url : Play(u)
    \/ \E w \in Worker :
        \/ \E u \in Url : BeginFetch(w, u)
        \/ \E o \in Outcome : InnerReturns(w, o)
        \/ PutPresent(w) \/ PutTemp(w) \/ PutRename(w) \/ AppendEntry(w)

Spec == Init /\ [][Next]_vars

-----------------------------------------------------------------------------
(* Properties. *)

\* Every entry a reader sees has its body, whatever was cut short or recorded
\* twice, and `verify` passes every log no crash has hit. (One caught between
\* Put's temporary file and the rename fails `verify` for good: nothing
\* removes the file.)
EntriesHaveBodies ==
    /\ \A e \in Range(Readable) : HasBody(e)
    /\ (proc = "down" /\ crashes = 0) => Intact

\* The entries a reader sees are numbered in the order of the file, over
\* crashes and any number of recordings, so that sorting them by Seq and
\* letting the later of a key win replays the latest run.
SeqIsFileOrder ==
    \A i, j \in DOMAIN Readable : i < j => Readable[i].seq < Readable[j].seq

\* An answered fetch is missing from the log only behind a line that a crash
\* tore and a later run wrote on to; without one, a complete manifest counts
\* them all.
LossOnlyBehindTear ==
    (\A i \in DOMAIN lines : lines[i].ok) =>
        /\ answered \subseteq Range(Readable)
        /\ (manifest.complete /\ proc = "down" /\ crashes = 0) =>
               manifest.entries = Cardinality(answered)

\* What a reader finds in the log can be relied on, and what it misses has a
\* reason.
LogIsSound == EntriesHaveBodies /\ SeqIsFileOrder /\ LossOnlyBehindTear

\* The replay of a directory recorded into once, to its end, hands each URL
\* the outcomes the crawl had, in the order of its attempts.
ReplaysTheCrawl ==
    (proc = "replaying" /\ runs = 1 /\ crashes = 0) =>
        \A u \in Url : \A n \in DOMAIN heard[u] :
            n <= Len(history[u]) => heard[u][n] = history[u][n]
=============================================================================
