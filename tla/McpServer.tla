------------------------------- MODULE McpServer -------------------------------
(***************************************************************************)
(* The MCP server (internal/mcp): calls over stdio, read one after the     *)
(* other, or over HTTP, each with a handler of its own; batches that go on *)
(* in the background, asked after by their job's id; and what is left of   *)
(* it all when the server stops.                                           *)
(*                                                                         *)
(* A call is what a client sends, once. Its stage: unsent, sent, serving   *)
(* (a tool is running), status (handleJobStatus has read the status), then *)
(* answered, silent (nothing is to be said) or lost.                       *)
(***************************************************************************)
EXTENDS Naturals, SequencesExt

CONSTANTS
    Call,
    Asks,        \* the kinds of message each call may be
    Transport,   \* "stdio", "http"
    BatchUrls,   \* URLs of a batch
    PageItems,   \* the most items of one URL's crawl
    NoAnswer

JobStatus == {"running", "completed"}
Replies == [says : {"result", "error", "started", "job"}, status : {NoAnswer} \cup JobStatus,
            items : Nat]
Reads == [status : {NoAnswer} \cup JobStatus, items : {NoAnswer} \cup Nat]

ASSUME McpServerAssumption ==
    /\ Asks \in [Call -> SUBSET {"ping", "malformed", "notification", "crawl", "batch", "status"}]
    /\ Transport \subseteq {"stdio", "http"} /\ {BatchUrls, PageItems} \subseteq Nat
    /\ NoAnswer \notin Call \cup JobStatus \cup Nat \cup Replies \cup Reads

VARIABLES
    transport,
    line,        \* what was sent and not read yet, in order
    stage, asked,
    about,       \* the job a status call asks after
    read,        \* what its handler has read of it so far
    reply,
    jobs,        \* the jobs, by the call that made them
    todo,        \* URLs each job's goroutine has still to crawl
    collected,   \* items its present crawl left in the collector
    found,       \* history: all items its crawls have ended with
    cancelled, live

mcp == <<transport, line, stage, asked, about, read, reply, jobs, todo, collected, found, cancelled, live>>

InitMcp ==
    /\ transport \in Transport
    /\ line = <<>>
    /\ stage = [c \in Call |-> "unsent"] /\ asked = [c \in Call |-> NoAnswer]
    /\ about = [c \in Call |-> NoAnswer] /\ read = [c \in Call |-> NoAnswer]
    /\ reply = [c \in Call |-> NoAnswer]
    /\ jobs = <<>>
    /\ todo = [c \in Call |-> 0] /\ collected = [c \in Call |-> 0] /\ found = [c \in Call |-> 0]
    /\ cancelled = FALSE /\ live = TRUE

Background == <<jobs, todo, collected, found>>

-----------------------------------------------------------------------------
(* Clients. A job's id is known from the reply to the call that made it. *)

Known == {c \in Call : reply[c] # NoAnswer /\ reply[c].says = "started"}

Send(c, k) ==
    /\ live /\ stage[c] = "unsent" /\ k \in Asks[c]
    /\ stage' = [stage EXCEPT ![c] = "sent"] /\ asked' = [asked EXCEPT ![c] = k]
    /\ \E j \in Known \cup {NoAnswer} : about' = [about EXCEPT ![c] = IF k = "status" THEN j ELSE NoAnswer]
    /\ line' = Append(line, c)
    /\ UNCHANGED <<transport, read, reply, Background, cancelled, live>>

Answered(c, a) ==
    /\ stage' = [stage EXCEPT ![c] = "answered"]
    /\ reply' = [reply EXCEPT ![c] = a]

Says(what) == [says |-> what, status |-> NoAnswer, items |-> 0]

-----------------------------------------------------------------------------
(* The transports. *)

\* StdioTransport.Run reads a line when the one before is answered, and stops
\* at the first it reads after the context is cancelled. HTTP handlers run on
\* their own.
Free == transport = "http" \/ \A d \in Call : stage[d] \notin {"serving", "status"}
Waiting == IF transport = "stdio" THEN {Head(line)} ELSE ToSet(line)
Take(c) ==
    /\ live /\ line # <<>> /\ Free /\ (transport = "stdio" => ~cancelled)
    /\ c \in Waiting
    /\ line' = RemoveFirst(line, c)
    /\ UNCHANGED <<transport, asked, about, cancelled, live>>

\* Until then nothing wakes a reader of stdin.
ReadAfterCancel ==
    /\ transport = "stdio" /\ live /\ cancelled /\ Free /\ line # <<>>
    /\ stage' = [stage EXCEPT ![Head(line)] = "lost"]
    /\ line' = Tail(line) /\ live' = FALSE
    /\ UNCHANGED <<transport, asked, about, read, reply, Background, cancelled>>

\* Stdin ends.
EndOfInput ==
    /\ transport = "stdio" /\ live /\ Free /\ line = <<>>
    /\ live' = FALSE
    /\ UNCHANGED <<transport, line, stage, asked, about, read, reply, Background, cancelled>>

\* HTTPTransport.Run: Shutdown waits for the handlers, but not for ever.
Shutdown ==
    /\ transport = "http" /\ live /\ cancelled
    /\ stage' = [c \in Call |-> IF stage[c] \in {"sent", "serving", "status"} THEN "lost" ELSE stage[c]]
    /\ line' = <<>> /\ live' = FALSE
    /\ UNCHANGED <<transport, asked, about, read, reply, Background, cancelled>>

\* The reply comes after WriteTimeout.
TooLate(c) ==
    /\ transport = "http" /\ live /\ stage[c] = "serving"
    /\ stage' = [stage EXCEPT ![c] = "lost"]
    /\ UNCHANGED <<transport, line, asked, about, read, reply, Background, cancelled, live>>

\* A signal.
Cancel ==
    /\ live /\ ~cancelled
    /\ cancelled' = TRUE
    /\ UNCHANGED <<transport, line, stage, asked, about, read, reply, Background, live>>

-----------------------------------------------------------------------------
(* HandleMessage and the tools. *)

\* Notifications have no id, and no response; "cancelled" is one of them.
Notification(c) ==
    /\ asked[c] = "notification" /\ Take(c)
    /\ stage' = [stage EXCEPT ![c] = "silent"]
    /\ UNCHANGED <<read, reply, Background>>

\* ping, initialize, tools/list; what cannot be parsed or has no such method.
Immediate(c) ==
    /\ asked[c] \in {"ping", "malformed"} /\ Take(c)
    /\ Answered(c, Says(IF asked[c] = "ping" THEN "result" ELSE "error"))
    /\ UNCHANGED <<read, Background>>

\* handleCrawl keeps its caller until the crawl has ended.
StartTool(c) ==
    /\ asked[c] = "crawl" /\ Take(c)
    /\ stage' = [stage EXCEPT ![c] = "serving"]
    /\ UNCHANGED <<read, reply, Background>>

ToolEnds(c) ==
    /\ live /\ stage[c] = "serving"
    /\ \E a \in {"result", "error"} : Answered(c, Says(a))
    /\ UNCHANGED <<transport, line, asked, about, read, Background, cancelled, live>>

\* handleBatch: all URLs are checked, the job is made and its crawl begins
\* before the caller hears of it.
StartBatch(c) ==
    /\ asked[c] = "batch" /\ Take(c)
    /\ \/ Answered(c, Says("error")) /\ UNCHANGED Background
       \/ /\ jobs' = [j \in {c} \cup DOMAIN jobs |->
                         IF j = c THEN [status |-> "running", items |-> 0] ELSE jobs[j]]
          /\ todo' = [todo EXCEPT ![c] = BatchUrls]
          /\ Answered(c, [says |-> "started", status |-> "running", items |-> 0])
          /\ UNCHANGED <<collected, found>>
    /\ UNCHANGED read

\* handleJobStatus: GetJob.
NoSuchJob(c) ==
    /\ asked[c] = "status" /\ Take(c)
    /\ about[c] \notin DOMAIN jobs
    /\ Answered(c, Says("error"))
    /\ UNCHANGED <<read, Background>>

\* Mutant: the items are counted first, then the status is read.
ReadItems(c) ==
    /\ asked[c] = "status" /\ Take(c)
    /\ about[c] \in DOMAIN jobs
    /\ read' = [read EXCEPT ![c] = [status |-> NoAnswer, items |-> jobs[about[c]].items]]
    /\ stage' = [stage EXCEPT ![c] = "status"]
    /\ UNCHANGED <<reply, Background>>

\* The status is read under the job's lock,
ReadStatus(c) ==
    /\ asked[c] = "status" /\ Take(c)
    /\ about[c] \in DOMAIN jobs
    /\ read' = [read EXCEPT ![c] = [status |-> jobs[about[c]].status, items |-> NoAnswer]]
    /\ stage' = [stage EXCEPT ![c] = "status"]
    /\ UNCHANGED <<reply, Background>>

\* and the items under it again.
GetItems(c) ==
    /\ live /\ stage[c] = "status"
    /\ LET job == jobs[about[c]]
       IN Answered(c, [says |-> "job",
                       status |-> IF read[c].status = NoAnswer THEN job.status ELSE read[c].status,
                       items |-> IF read[c].items = NoAnswer THEN job.items ELSE read[c].items])
    /\ UNCHANGED <<transport, line, asked, about, read, Background, cancelled, live>>

-----------------------------------------------------------------------------
(* The goroutine of a batch. *)

Batch(c) == live /\ c \in DOMAIN jobs
Still == UNCHANGED <<transport, line, stage, asked, about, read, reply, cancelled, live>>

\* A URL's crawl ends, or never starts: that is logged, and no more.
CrawlUrl(c) ==
    /\ Batch(c) /\ todo[c] > 0 /\ collected[c] = 0
    /\ \E n \in 0..PageItems :
           /\ collected' = [collected EXCEPT ![c] = n]
           /\ found' = [found EXCEPT ![c] = @ + n]
    /\ todo' = [todo EXCEPT ![c] = @ - 1]
    /\ UNCHANGED jobs /\ Still

AddItem(c) ==
    /\ Batch(c) /\ collected[c] > 0
    /\ jobs' = [jobs EXCEPT ![c].items = @ + 1]
    /\ collected' = [collected EXCEPT ![c] = @ - 1]
    /\ UNCHANGED <<todo, found>> /\ Still

Completed(c) ==
    /\ Batch(c) /\ todo[c] = 0 /\ collected[c] = 0 /\ jobs[c].status = "running"
    /\ jobs' = [jobs EXCEPT ![c].status = "completed"]
    /\ UNCHANGED <<todo, collected, found>> /\ Still

NextMcp ==
    \/ \E c \in Call :
          \/ \E k \in Asks[c] : Send(c, k)
          \/ Notification(c) \/ Immediate(c) \/ StartTool(c) \/ ToolEnds(c) \/ StartBatch(c)
          \/ NoSuchJob(c) \/ ReadStatus(c) \/ GetItems(c) \/ TooLate(c)
          \/ CrawlUrl(c) \/ AddItem(c) \/ Completed(c)
    \/ Cancel \/ ReadAfterCancel \/ EndOfInput \/ Shutdown

-----------------------------------------------------------------------------
(* Properties. *)

(* What a client may conclude from its answers: a job that is said to be     *)
(* completed comes with all items its crawls have found, wherever the call   *)
(* falls between the last steps of the batch; and a job whose id was given   *)
(* out is found.                                                             *)
StatusIsWhole ==
    /\ \A c \in Call : reply[c] # NoAnswer /\ reply[c].status = "completed" =>
           reply[c].items = found[about[c]] /\ todo[about[c]] = 0
    /\ \A c \in Call : reply[c] # NoAnswer /\ about[c] # NoAnswer => reply[c].says = "job"
=============================================================================
