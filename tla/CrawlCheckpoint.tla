--------------------------- MODULE CrawlCheckpoint ---------------------------
(***************************************************************************)
(* A crawl with its checkpoint goroutine (engine.go autoCheckpoint,        *)
(* checkpoint.go Save and Load), crashes, and resumption with --resume.    *)
(*                                                                         *)
(* Save reads the frontier and the deduper one after the other, each under *)
(* its own lock, while the crawl goes on; the file appears by rename, so a *)
(* crash leaves the previous one. A request comes back from the file with  *)
(* its URL and depth, and its retry count at zero.                         *)
(***************************************************************************)
EXTENDS Crawl

CONSTANTS
    MaxRestarts,  \* bound: how often the crawl is run again
    NoFile        \* no checkpoint.json

ASSUME CheckpointAssumption ==
    MaxRestarts \in Nat

VARIABLES
    saver,     \* the checkpoint goroutine: idle, halfway through a Save, gone
    snapshot,  \* the frontier's half of the Save under way
    file,      \* checkpoint.json
    restarts,
    missed,    \* history: what the Save under way has no way to record
    excused    \* history: what the files resumed from had no way to record

saving == <<saver, snapshot, file, restarts, missed, excused>>
allVars == <<vars, saving>>

CheckpointTypeOK ==
    /\ TypeOK
    /\ saver \in {"idle", "saving", "lastSave", "gone"}
    /\ snapshot \subseteq Url
    /\ file # NoFile =>
        /\ file.frontier \cup file.missed \subseteq Url
        /\ file.frontier \subseteq file.seen /\ file.seen \subseteq Url
        /\ file.sent \in Nat /\ file.depth \in [Url -> 0 .. MaxDepth]
    /\ restarts \in 0 .. MaxRestarts
    /\ missed \subseteq Url /\ excused \subseteq Url

CheckpointInit ==
    /\ Init
    /\ saver = "idle" /\ snapshot = {} /\ file = NoFile
    /\ restarts = 0 /\ missed = {} /\ excused = {}

-----------------------------------------------------------------------------
(* Saving. *)

\* Mutant: returns the queue alone.
queueOnly == queue

\* Frontier.Snapshot.
FrontierSnapshot == queue \cup inFlight

\* Work in neither of Snapshot's sets: retries waiting out a backoff, links
\* claimed and not pushed, claims being put back, and what this shutdown or an
\* earlier file has already let go or cut short.
Unrecorded ==
    waiting \cup InHand \cup excused
        \cup {cur[w] : w \in {v \in Worker : pc[v] = "putback"}}
        \cup {u \in Url : result[u] \in {"dropped", "cut"}}

BeginSave(how) ==
    /\ saver = "idle"
    /\ saver' = how
    /\ snapshot' = FrontierSnapshot
    /\ missed' = Unrecorded
    /\ UNCHANGED <<vars, file, restarts, excused>>

\* The ticker's Saves, and the last one when the context is cancelled.
TickSave == state # "stopped" /\ BeginSave("saving")
LastSave == cancelled /\ BeginSave("lastSave")

AfterSave == IF saver = "lastSave" THEN "gone" ELSE "idle"

\* Mutant: the file is cut off where the process dies, the last one gone.
FinishSaveTorn ==
    /\ saver \in {"saving", "lastSave"}
    /\ saver' = AfterSave
    /\ \E S \in SUBSET snapshot :
        file' = [frontier |-> S, seen |-> seen, sent |-> sent,
                 depth |-> depth, missed |-> missed]
    /\ snapshot' = {} /\ missed' = {}
    /\ UNCHANGED <<vars, restarts, excused>>

\* Export, the statistics, and the rename.
FinishSave ==
    /\ saver \in {"saving", "lastSave"}
    /\ saver' = AfterSave
    /\ file' = [frontier |-> snapshot, seen |-> seen, sent |-> sent,
                depth |-> depth, missed |-> missed]
    /\ snapshot' = {} /\ missed' = {}
    /\ UNCHANGED <<vars, restarts, excused>>

\* The Save errs: a full disk, or a deduper that cannot export.
FailSave ==
    /\ saver \in {"saving", "lastSave"}
    /\ saver' = AfterSave
    /\ snapshot' = {} /\ missed' = {}
    /\ UNCHANGED <<vars, file, restarts, excused>>

-----------------------------------------------------------------------------
(* Dying and coming back. *)

Recovered == IF file = NoFile
             THEN [frontier |-> {}, seen |-> {}, sent |-> 0,
                   depth |-> [u \in Url |-> 0], missed |-> {}]
             ELSE file

\* Everything a new process starts from, but the pool of work.
FreshProcess ==
    /\ inFlight' = {}
    /\ closedBy' = "nobody" /\ cancelled' = FALSE /\ state' = "running"
    /\ pc' = [w \in Worker |-> "pop"]
    /\ cur' = [w \in Worker |-> None]
    /\ todo' = [w \in Worker |-> {}] /\ link' = [w \in Worker |-> None]
    /\ retries' = [u \in Url |-> 0] /\ waiting' = {} /\ pushed' = {}
    /\ monitor' = "tick" /\ quiet' = FALSE /\ streak' = 0
    /\ blink' = FALSE /\ blind' = 0 /\ putBacks' = 0
    /\ saver' = "idle" /\ snapshot' = {} /\ missed' = {}

\* The process dies, or ends, and the crawl is run again: with --resume if
\* there is a checkpoint, from its seeds if not. Load restores the deduper and
\* pushes the file's requests; AddSeed then refuses the seeds already seen.
Rerun(restored) ==
    /\ restarts < MaxRestarts
    /\ restarts' = restarts + 1
    /\ seen' = restored \cup Recovered.frontier \cup Seeds
    /\ queue' = Recovered.frontier \cup (Seeds \ restored)
    /\ depth' = Recovered.depth
    /\ sent' = Recovered.sent
    /\ FreshProcess
    \* Only what the file records as seen and finished stays delivered.
    /\ result' = [u \in Url |->
                    IF u \in Recovered.seen \ Recovered.frontier /\ result[u] \in Settled
                    THEN result[u] ELSE "none"]
    /\ excused' = Recovered.missed
    /\ UNCHANGED file

\* Mutant: resumes the queue and forgets the deduper.
RestartUnseen == Rerun({})

Restart == Rerun(Recovered.seen)

-----------------------------------------------------------------------------
\* A link claimed between the two halves of a Save is in neither.
CrawlStep ==
    /\ Crawling
    /\ missed' = IF saver \in {"saving", "lastSave"}
                 THEN missed \cup (seen' \ seen) ELSE {}
    /\ UNCHANGED <<saver, snapshot, file, restarts, excused>>

\* Engine.Wait joins the checkpoint goroutine too.
Finish == Wait /\ saver = "gone" /\ UNCHANGED saving

CheckpointNext ==
    \/ CrawlStep
    \/ Finish
    \/ TickSave \/ LastSave \/ FinishSave \/ FailSave
    \/ Restart
    \/ Over /\ UNCHANGED saving

CheckpointSpec == CheckpointInit /\ [][CheckpointNext]_allVars

\* The goroutine's Saves end, and its select takes the context's arm in time.
FairCheckpointSpec ==
    /\ CheckpointSpec
    /\ Fairness
    /\ WF_allVars(Finish)
    /\ WF_allVars(FinishSave \/ FailSave)
    /\ SF_allVars(LastSave)

-----------------------------------------------------------------------------
(* Properties. *)

(* A checkpoint loses a page only through a known gap. Every URL the file  *)
(* calls seen is in the file's frontier, or was finished with, or was at   *)
(* the moment of the Save in a backoff, in the middle of AddRequest or of  *)
(* a put-back, claimed between Snapshot and Export, or dropped or cut short *)
(* by the shutdown (checkpoint.go:61-65, frontier.go:324-355).             *)
LossOnlyInGaps ==
    file # NoFile =>
        \A u \in file.seen \ file.frontier :
            result[u] \in Settled \/ u \in file.missed

(* What a resumed crawl owes it does: when the idle monitor ends it, every *)
(* URL outside those gaps has an answer, from this run or an earlier one,  *)
(* and every link of every such page has been claimed.                     *)
ResumeCompletes ==
    closedBy = "idle" /\ blind < IdleStreak =>
        \A u \in seen \ excused :
            /\ result[u] \in Settled
            /\ result[u] = "page" /\ depth[u] < MaxDepth => Links[u] \subseteq seen

(* However often it crashes and resumes, the crawl ends.                   *)
EndsForGood == <>[](state = "stopped")

(* A resumed crawl does nothing twice: what a run finished and a file      *)
(* recorded is not delivered again (engine.go:651-655), and the end is     *)
(* reached whenever the crashes stop.                                      *)
OnceAndForAll == PageOnce /\ EndsForGood

=============================================================================
