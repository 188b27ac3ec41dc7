--------------------------- MODULE FetchLogProofs ---------------------------
(* Proofs about what is kept of a crawl and what is cited from it: what a  *)
(* reader finds in the recorded fetch log and what a replay makes of it,   *)
(* for any number of workers, URLs, bodies, runs and crashes; and that a   *)
(* claim read off a page is grounded in the page, whatever its bytes.      *)
EXTENDS FetchLog, Evidence, FiniteSetTheorems, SequenceTheorems, NaturalsInduction,
        WellFoundedInduction, TLAPS

Line == [e : Entry, ok : BOOLEAN]
Recording == {"opened", "recording", "sealed"}
Job == [at : {"idle", "fetching", "fetched", "temp", "stored"},
        url : Url \cup {None}, attempt : Nat, out : Outcome \cup {None}]

LogType ==
    /\ objects \subseteq Body /\ temps \in Nat
    /\ lines \in Seq(Line) /\ cut \in BOOLEAN /\ (cut => lines # <<>>)
    /\ manifest.complete \in BOOLEAN
    /\ proc \in Recording \cup {"down", "replaying"}
    /\ seq \in Nat /\ attempts \in [Url -> Nat] /\ job \in [Worker -> Job]
    /\ runs \in Nat /\ crashes \in Nat
    /\ answered \subseteq Entry /\ IsFiniteSet(answered)
    /\ history \in [Url -> Seq(Outcome)]

\* A fetch in progress belongs to a recording, and a stored body is filed.
JobsOK ==
    /\ \A w \in Worker : job[w].at # "idle" =>
          /\ proc = "recording" /\ job[w].url \in Url
          /\ job[w].at # "fetching" => job[w].out \in Outcome
          /\ job[w].at = "temp" => job[w].out \in Body
          /\ job[w].at = "stored" => job[w].out \in objects
    /\ \A w \in Worker : job[w].at = "idle" => job[w] = Idle
    /\ \A v, w \in Worker : job[w].url # None /\ job[v].url = job[w].url => v = w

\* The temporary files are the ones being written, and those of the killed.
Writing == {w \in Worker : job[w].at = "temp"}
TempsOK ==
    /\ IsFiniteSet(Writing)
    /\ Cardinality(Writing) <= temps
    /\ crashes = 0 => temps = Cardinality(Writing)

TypeInv == LogType /\ JobsOK /\ TempsOK

\* A reader takes the first n lines: the next one does not parse.
Prefix(n) ==
    /\ n \in 0 .. Len(lines)
    /\ \A i \in 1 .. n : lines[i].ok
    /\ n < Len(lines) => ~lines[n + 1].ok

AllOk == \A i \in DOMAIN lines : lines[i].ok

LedgerInv ==
    /\ \E n \in Nat : Prefix(n)
    /\ \A n \in Nat : Prefix(n) =>
          \A i, j \in 1 .. n : i < j => lines[i].e.seq < lines[j].e.seq
    /\ proc \in Recording /\ AllOk => \A i \in DOMAIN lines : lines[i].e.seq <= seq
    /\ \A i \in DOMAIN lines : lines[i].e.out \in objects \cup {Err}

\* The ledger counts the answered fetches, until a crash.
AnsweredInv ==
    /\ AllOk => \A e \in answered : \E i \in DOMAIN lines : lines[i].e = e
    /\ proc \in {"recording", "sealed"} => ~manifest.complete
    /\ crashes = 0 =>
          /\ AllOk /\ ~cut
          /\ \A i \in DOMAIN lines : lines[i].e \in answered
          /\ Cardinality(answered) = Len(lines)
          /\ manifest.complete => manifest.entries = Len(lines)

LogInv == TypeInv /\ LedgerInv /\ AnsweredInv

\* The attempt at u that is under way.
Pending(u) == IF \E w \in Worker : job[w].url = u THEN 1 ELSE 0

\* A recording numbers the attempts at each URL as it makes them.
AttemptsOK ==
    /\ proc \in Recording => \A u \in Url :
          attempts[u] = Len(history[u]) + Pending(u)
    /\ \A w \in Worker : job[w].url \in Url => job[w].attempt = Len(history[job[w].url])

\* The one recording of a directory holds every attempt it made, once.
OneRunInv ==
    /\ runs = 0 => lines = <<>> /\ proc \in {"down"}
    /\ runs = 1 /\ crashes = 0 =>
          /\ \A i \in DOMAIN lines :
                /\ lines[i].e.attempt < Len(history[lines[i].e.url])
                /\ lines[i].e.out = history[lines[i].e.url][lines[i].e.attempt + 1]
          /\ \A u \in Url : \A k \in 1 .. Len(history[u]) :
                \E i \in DOMAIN lines : lines[i].e.url = u /\ lines[i].e.attempt + 1 = k
          /\ \A i, j \in DOMAIN lines :
                lines[i].e.url = lines[j].e.url /\ lines[i].e.attempt = lines[j].e.attempt
                    => i = j

\* A replay of it counts the attempts it serves, and has all of its entries.
PlayInv ==
    /\ heard \in [Url -> Seq(Outcome \cup {None})] /\ played \subseteq Entry
    /\ proc = "replaying" =>
          /\ \A u \in Url : Len(heard[u]) = attempts[u]
          /\ runs = 1 /\ crashes = 0 => played = {lines[i].e : i \in DOMAIN lines}

ReplayInv == AttemptsOK /\ OneRunInv /\ PlayInv /\ ReplaysTheCrawl

-----------------------------------------------------------------------------
(* The ledger. *)

LEMMA LinesShape ==
    ASSUME LogType
    PROVE  /\ Len(lines) \in Nat /\ DOMAIN lines = 1 .. Len(lines)
           /\ \A i \in 1 .. Len(lines) : /\ lines[i] \in Line /\ lines[i].e \in Entry
                                         /\ lines[i].ok \in BOOLEAN
           /\ cut => Len(lines) >= 1
<1>1. lines \in Seq(Line)
  BY DEF LogType
<1>2. Len(lines) \in Nat /\ DOMAIN lines = 1 .. Len(lines)
  BY <1>1, LenProperties
<1>3. \A i \in 1 .. Len(lines) : lines[i] \in Line
  BY <1>1, ElementOfSeq
<1>4. cut => Len(lines) >= 1
  BY <1>1, <1>2, EmptySeq DEF LogType
<1>5. \A l \in Line : l.e \in Entry /\ l.ok \in BOOLEAN
  BY DEF Line
<1> QED
  BY <1>2, <1>3, <1>4, <1>5

\* What the bytes of one more entry make of the file.
LEMMA WrittenLines ==
    ASSUME LogType, NEW e \in Entry, NEW whole \in BOOLEAN,
           lines' = Written(e, whole)
    PROVE  /\ lines' \in Seq(Line) /\ lines' # <<>> /\ DOMAIN lines' = 1 .. Len(lines')
           /\ cut => /\ Len(lines') = Len(lines) /\ Len(lines) >= 1
                     /\ \A i \in 1 .. Len(lines) : lines'[i].e = lines[i].e
                     /\ \A i \in 1 .. Len(lines) : i # Len(lines) => lines'[i] = lines[i]
                     /\ ~lines'[Len(lines)].ok
           /\ ~cut => /\ Len(lines') = Len(lines) + 1
                      /\ \A i \in 1 .. Len(lines) : lines'[i] = lines[i]
                      /\ lines'[Len(lines) + 1].e = e
                      /\ whole <=> lines'[Len(lines) + 1].ok
<1> lines \in Seq(Line)
  BY DEF LogType
<1>1. CASE cut
  <2> DEFINE L == Len(lines)
             torn == [lines[L] EXCEPT !.ok = FALSE]
  <2>a. L \in 1 .. Len(lines) /\ lines[L] \in Line
    BY <1>1, LinesShape
  <2>1. L \in 1 .. Len(lines) /\ torn \in Line
        /\ torn.e = lines[L].e /\ torn.ok = FALSE
    BY <2>a DEF Line
  <2>2. lines' = [lines EXCEPT ![L] = torn]
    BY <1>1 DEF Written
  <2>3. /\ lines' \in Seq(Line) /\ Len(lines') = Len(lines)
        /\ \A j \in 1 .. Len(lines) : lines'[j] = IF j = L THEN torn ELSE lines[j]
    BY <2>1, <2>2, ExceptSeq
  <2>4. DOMAIN lines' = 1 .. Len(lines')
    BY <2>3, LenProperties
  <2>5. lines' # <<>>
    BY <2>1, <2>3, EmptySeq
  <2>6. lines'[L] = torn /\ ~torn.ok /\ L >= 1
    <3>1. L >= 1
      BY <1>1, LinesShape
    <3>2. lines'[L] = torn
      BY <2>1, <2>3
    <3> QED
      BY <2>1, <3>1, <3>2
  <2>7. \A j \in 1 .. Len(lines) : j # L => lines'[j] = lines[j]
    BY <2>3
  <2>8. \A j \in 1 .. Len(lines) : lines'[j].e = lines[j].e
    BY <2>1, <2>6, <2>7
  <2> HIDE DEF torn
  <2> QED
    BY <1>1, <2>3, <2>4, <2>5, <2>6, <2>7, <2>8
<1>2. CASE ~cut
  <2> DEFINE l == [e |-> e, ok |-> whole]
  <2>1. l \in Line /\ lines' = Append(lines, l)
    BY <1>2 DEF Line, Written
  <2>2. /\ lines' \in Seq(Line) /\ lines' # <<>> /\ Len(lines') = Len(lines) + 1
        /\ \A i \in 1 .. Len(lines) : lines'[i] = lines[i]
        /\ lines'[Len(lines) + 1] = l
    BY <2>1, AppendProperties
  <2>3. DOMAIN lines' = 1 .. Len(lines')
    BY <2>2, LenProperties
  <2>4. l.e = e /\ l.ok = whole
    OBVIOUS
  <2> QED
    BY <1>2, <2>2, <2>3, <2>4
<1> QED
  BY <1>1, <1>2 DEF LogType

LEMMA EntryOfType ==
    ASSUME TypeInv, NEW w \in Worker, Appending(w)
    PROVE  /\ EntryOf(w) \in Entry
           /\ EntryOf(w).seq = seq + 1 /\ EntryOf(w).url = job[w].url
           /\ EntryOf(w).attempt = job[w].attempt /\ EntryOf(w).out = job[w].out
           /\ job[w].out \in objects \cup {Err} /\ job[w].url \in Url
           /\ proc = "recording"
  BY FetchLogAssumption
     DEF TypeInv, LogType, JobsOK, Job, Appending, EntryOf, Entry, Outcome,
         FetchLogAssumption

-----------------------------------------------------------------------------
(* What a reader sees. *)

LEMMA ReadableIs ==
    ASSUME LogType, NEW n \in Nat, Prefix(n)
    PROVE  /\ DOMAIN Readable = 1 .. n /\ Len(Readable) = n
           /\ \A i \in 1 .. n : Readable[i] = lines[i].e
           /\ Range(Readable) = {lines[i].e : i \in 1 .. n}
<1> DEFINE bad == {i \in DOMAIN lines : ~lines[i].ok}
           good == IF bad = {} THEN lines ELSE SubSeq(lines, 1, Min(bad) - 1)
<1> lines \in Seq(Line)
  BY DEF LogType
<1>1. good \in Seq(Line) /\ Len(good) = n /\ \A i \in 1 .. n : good[i] = lines[i]
  <2>1. CASE bad = {}
    <3>1. \A i \in 1 .. Len(lines) : lines[i].ok
      BY <2>1, LinesShape
    <3>2. n = Len(lines)
      <4>1. n \in 0 .. Len(lines) /\ Len(lines) \in Nat
        BY LinesShape DEF Prefix
      <4>2. n < Len(lines) => n + 1 \in 1 .. Len(lines) /\ ~lines[n + 1].ok
        BY <4>1 DEF Prefix
      <4> QED
        BY <3>1, <4>1, <4>2
    <3> QED
      BY <2>1, <3>1, <3>2
  <2>2. CASE bad # {}
    <3>1. n + 1 \in bad /\ \A j \in bad : n + 1 <= j
      BY <2>2, LinesShape DEF Prefix
    <3>2. Min(bad) = n + 1
      <4>1. bad \subseteq Nat
        BY LinesShape
      <4> DEFINE m == n + 1
      <4>2. m \in bad /\ \A j \in bad : m <= j
        BY <3>1
      <4>3. \A x \in bad : (\A j \in bad : x <= j) => x = m
        BY <4>1, <4>2
      <4>4. Min(bad) \in bad /\ \A j \in bad : Min(bad) <= j
        BY <4>2 DEF Min
      <4> QED
        BY <4>3, <4>4
    <3>3. good = SubSeq(lines, 1, n)
      <4>1. Min(bad) - 1 = n
        BY <3>2
      <4> QED
        BY <2>2, <4>1
    <3>4. \A i \in 1 .. n : lines[i] \in Line
      BY LinesShape DEF Prefix
    <3> HIDE DEF good
    <3> QED
      BY <3>3, <3>4, SubSeqProperties
  <2> QED
    BY <2>1, <2>2
<1>2. Readable = [i \in DOMAIN good |-> good[i].e]
  BY DEF Readable
<1>3. DOMAIN good = 1 .. n
  BY <1>1, LenProperties
<1> HIDE DEF good
<1>4. Readable = [i \in 1 .. n |-> lines[i].e]
  BY <1>1, <1>2, <1>3
<1>5. Len(Readable) = n
  <2>1. Readable \in Seq(Entry)
    BY <1>4, LinesShape, SeqDef DEF Prefix
  <2> QED
    BY <1>4, <2>1, LenProperties
<1> QED
  BY <1>4, <1>5 DEF Range

LEMMA LastSeqIs ==
    ASSUME LogType, LedgerInv, NEW n \in Nat, Prefix(n)
    PROVE  LastSeq \in Nat /\ \A i \in 1 .. n : lines[i].e.seq <= LastSeq
<1> DEFINE S == {0} \cup {e.seq : e \in Range(Readable)}
<1>1. S = {0} \cup {lines[i].e.seq : i \in 1 .. n}
  BY ReadableIs
<1>2. \A i \in 1 .. n : lines[i].e.seq \in Nat
  BY LinesShape DEF Prefix, Entry
<1>3. \A i, j \in 1 .. n : i < j => lines[i].e.seq < lines[j].e.seq
  BY DEF LedgerInv
<1>4. \E m \in S : \A s \in S : m >= s
  <2>1. CASE n = 0
    BY <1>1, <2>1
  <2>2. CASE n > 0
    <3>1. \A i \in 1 .. n : lines[n].e.seq >= lines[i].e.seq
      BY <1>2, <1>3, <2>2
    <3>2. n \in 1 .. n
      BY <2>2
    <3> HIDE DEF S
    <3>3. lines[n].e.seq \in S
      BY <1>1, <3>2
    <3>4. \A s \in S : lines[n].e.seq >= s
      BY <1>1, <1>2, <3>1, <3>2
    <3> QED
      BY <3>3, <3>4
  <2> QED
    BY <2>1, <2>2
<1>5. LastSeq = Max(S)
  BY DEF LastSeq
<1>6. S \subseteq Nat
  BY <1>1, <1>2
<1> HIDE DEF S
<1>7. LastSeq \in S /\ \A s \in S : LastSeq >= s
  BY <1>4, <1>5 DEF Max
<1> QED
  BY <1>1, <1>2, <1>6, <1>7

LEMMA PrefixOfOk ==
    ASSUME LogType, AllOk
    PROVE  Prefix(Len(lines))
  BY LinesShape DEF AllOk, Prefix

-----------------------------------------------------------------------------
(* Types, jobs and temporary files. *)

LEMMA TypeInit == Init => TypeInv
<1> SUFFICES ASSUME Init PROVE TypeInv
  OBVIOUS
<1> USE FetchLogAssumption DEF FetchLogAssumption, Init
<1>1. Writing = {}
  BY DEF Writing, Idle
<1>2. TempsOK
  BY <1>1, FS_EmptySet DEF TempsOK
<1>3. JobsOK
  BY DEF JobsOK, Idle
<1>4. LogType
  <2>1. lines \in Seq(Line) /\ history \in [Url -> Seq(Outcome)]
    BY EmptySeq
  <2>2. job \in [Worker -> Job]
    BY DEF Job, Idle
  <2>3. IsFiniteSet(answered)
    BY FS_EmptySet
  <2> QED
    BY <2>1, <2>2, <2>3 DEF LogType, NoManifest
<1> QED
  BY <1>2, <1>3, <1>4 DEF TypeInv

\* Steps that leave the temporary files alone.
LEMMA TempsUnchanged ==
    ASSUME TempsOK, UNCHANGED <<temps, crashes>>,
           \A w \in Worker : job'[w].at = "temp" <=> job[w].at = "temp"
    PROVE  TempsOK'
<1>1. Writing' = Writing
  BY DEF Writing
<1> QED
  BY <1>1 DEF TempsOK

LEMMA JobType ==
    ASSUME NEW j \in Job, NEW a \in {"idle", "fetching", "fetched", "temp", "stored"},
           NEW o \in Outcome
    PROVE  [j EXCEPT !.at = a] \in Job /\ [j EXCEPT !.at = "fetched", !.out = o] \in Job
  BY DEF Job

\* The next step of a fetch.
LEMMA JobSteps ==
    ASSUME LogType, NEW w \in Worker,
           \/ \E a \in {"idle", "fetching", "fetched", "temp", "stored"} :
                 job' = [job EXCEPT ![w].at = a]
           \/ \E o \in Outcome : job' = [job EXCEPT ![w].at = "fetched", ![w].out = o]
    PROVE  job' \in [Worker -> Job]
<1> job \in [Worker -> Job] /\ job[w] \in Job
  BY DEF LogType
<1>1. PICK j \in Job : job' = [job EXCEPT ![w] = j]
  <2>1. ASSUME NEW a \in {"idle", "fetching", "fetched", "temp", "stored"},
               job' = [job EXCEPT ![w].at = a]
        PROVE  \E j \in Job : job' = [job EXCEPT ![w] = j]
    <3>1. [job[w] EXCEPT !.at = a] \in Job
      BY JobType, Err \in Outcome DEF Outcome
    <3>2. job' = [job EXCEPT ![w] = [job[w] EXCEPT !.at = a]]
      BY <2>1
    <3> QED
      BY <3>1, <3>2
  <2>2. ASSUME NEW o \in Outcome,
               job' = [job EXCEPT ![w].at = "fetched", ![w].out = o]
        PROVE  \E j \in Job : job' = [job EXCEPT ![w] = j]
    <3>1. [job[w] EXCEPT !.at = "fetched", !.out = o] \in Job
      BY JobType
    <3>2. job' = [job EXCEPT ![w] = [job[w] EXCEPT !.at = "fetched", !.out = o]]
      BY <2>2
    <3> QED
      BY <3>1, <3>2
  <2> QED
    BY <2>1, <2>2
<1> QED
  BY <1>1

LEMMA TypeStep == TypeInv /\ LedgerInv /\ [Next]_vars => TypeInv'
<1> SUFFICES ASSUME TypeInv, LedgerInv, [Next]_vars PROVE TypeInv'
  OBVIOUS
<1> LogType /\ JobsOK /\ TempsOK
  BY DEF TypeInv
<1> USE FetchLogAssumption DEF FetchLogAssumption, disk, ghosts, Recording
<1> HIDE DEF TypeInv
<1>1. ASSUME OpenRecorder PROVE TypeInv'
  <2>1. LastSeq \in Nat
    BY LastSeqIs DEF LedgerInv
  <2>2. history' \in [Url -> Seq(Outcome)]
    <3>1. <<>> \in Seq(Outcome)
      BY EmptySeq
    <3> QED
      BY <1>1, <3>1 DEF OpenRecorder
  <2>3. LogType'
    BY <1>1, <2>1, <2>2 DEF OpenRecorder, LogType
  <2>4. JobsOK'
    BY <1>1 DEF OpenRecorder, JobsOK
  <2>5. TempsOK'
    BY <1>1, TempsUnchanged DEF OpenRecorder
  <2> QED
    BY <2>3, <2>4, <2>5 DEF TypeInv
<1>2. ASSUME StampManifest \/ Seal \/ CompleteManifest PROVE TypeInv'
  <2>1. LogType'
    <3>1. CASE StampManifest
      <4>1. manifest'.complete = FALSE
        BY <3>1 DEF StampManifest, WriteManifest, NoManifest
      <4> QED
        BY <3>1, <4>1 DEF StampManifest, LogType
    <3>2. CASE Seal
      BY <3>2 DEF Seal, LogType
    <3>3. CASE CompleteManifest
      <4>1. manifest'.complete = TRUE
        BY <3>3 DEF CompleteManifest, WriteManifest
      <4> QED
        BY <3>3, <4>1 DEF CompleteManifest, LogType
    <3> QED
      BY <1>2, <3>1, <3>2, <3>3
  <2>2. JobsOK'
    BY <1>2 DEF StampManifest, Seal, CompleteManifest, JobsOK, Idle
  <2>3. TempsOK'
    BY <1>2, TempsUnchanged DEF StampManifest, Seal, CompleteManifest
  <2> QED
    BY <2>1, <2>2, <2>3 DEF TypeInv
<1>3. ASSUME NEW w \in Worker, NEW u \in Url, BeginFetch(w, u) PROVE TypeInv'
  <2>1. LogType'
    BY <1>3 DEF BeginFetch, LogType, Job
  <2>2. JobsOK'
    BY <1>3 DEF BeginFetch, LogType, JobsOK, Job, Idle
  <2>3. TempsOK'
    BY <1>3, TempsUnchanged DEF BeginFetch, LogType, Job, Idle
  <2> QED
    BY <2>1, <2>2, <2>3 DEF TypeInv
<1>4. ASSUME NEW w \in Worker, NEW o \in Outcome, InnerReturns(w, o) PROVE TypeInv'
  <2>0. job' \in [Worker -> Job]
    BY <1>4, JobSteps DEF InnerReturns
  <2>1. LogType'
    BY <1>4, <2>0 DEF InnerReturns, LogType
  <2>2. JobsOK'
    BY <1>4 DEF InnerReturns, LogType, JobsOK, Job, Idle
  <2>3. TempsOK'
    BY <1>4, TempsUnchanged DEF InnerReturns, LogType, Job
  <2> QED
    BY <2>1, <2>2, <2>3 DEF TypeInv
<1>5. ASSUME NEW w \in Worker, PutPresent(w) PROVE TypeInv'
  <2>0. job' \in [Worker -> Job]
    BY <1>5, JobSteps DEF PutPresent
  <2>1. LogType'
    BY <1>5, <2>0 DEF PutPresent, LogType
  <2>2. JobsOK'
    <3>1. /\ \A v \in Worker : v # w => job'[v] = job[v]
          /\ job'[w].at = "stored" /\ job'[w].url = job[w].url /\ job'[w].out = job[w].out
      BY <1>5 DEF PutPresent, LogType, Job
    <3> QED
      BY <1>5, <3>1 DEF PutPresent, JobsOK
  <2>3. TempsOK'
    BY <1>5, TempsUnchanged DEF PutPresent, LogType, Job
  <2> QED
    BY <2>1, <2>2, <2>3 DEF TypeInv
<1>6. ASSUME NEW w \in Worker, PutTemp(w) PROVE TypeInv'
  <2>0. job' \in [Worker -> Job]
    BY <1>6, JobSteps DEF PutTemp
  <2>1. LogType'
    BY <1>6, <2>0 DEF PutTemp, LogType
  <2>2. JobsOK'
    <3>1. /\ \A v \in Worker : v # w => job'[v] = job[v]
          /\ job'[w].at = "temp" /\ job'[w].url = job[w].url /\ job'[w].out = job[w].out
      BY <1>6 DEF PutTemp, LogType, Job
    <3> QED
      BY <1>6, <3>1 DEF PutTemp, JobsOK
  <2>3. Writing' = Writing \cup {w} /\ w \notin Writing
    BY <1>6 DEF PutTemp, LogType, Job, Writing
  <2>4. TempsOK'
    <3>1. IsFiniteSet(Writing') /\ Cardinality(Writing') = Cardinality(Writing) + 1
      BY <2>3, FS_AddElement DEF TempsOK
    <3>2. Cardinality(Writing) \in Nat
      BY FS_CardinalityType DEF TempsOK
    <3> QED
      BY <1>6, <3>1, <3>2 DEF PutTemp, TempsOK, LogType
  <2> QED
    BY <2>1, <2>2, <2>4 DEF TypeInv
<1>7. ASSUME NEW w \in Worker, PutRename(w) PROVE TypeInv'
  <2>1. Writing' = Writing \ {w} /\ w \in Writing
    BY <1>7 DEF PutRename, LogType, Job, Writing
  <2>2. /\ IsFiniteSet(Writing') /\ Cardinality(Writing') = Cardinality(Writing) - 1
        /\ Cardinality(Writing) \in Nat /\ Cardinality(Writing') \in Nat
    BY <2>1, FS_RemoveElement, FS_CardinalityType DEF TempsOK
  <2>3. TempsOK' /\ temps' \in Nat
    BY <1>7, <2>2 DEF PutRename, TempsOK, LogType
  <2>a. job' \in [Worker -> Job]
    BY <1>7, JobSteps DEF PutRename
  <2>b. objects' \subseteq Body
    BY <1>7 DEF PutRename, LogType, JobsOK
  <2>4. LogType'
    BY <1>7, <2>3, <2>a, <2>b DEF PutRename, LogType
  <2>5. JobsOK'
    <3>1. /\ \A v \in Worker : v # w => job'[v] = job[v]
          /\ job'[w].at = "stored" /\ job'[w].url = job[w].url /\ job'[w].out = job[w].out
      BY <1>7 DEF PutRename, LogType, Job
    <3> QED
      BY <1>7, <3>1 DEF PutRename, JobsOK
  <2> QED
    BY <2>3, <2>4, <2>5 DEF TypeInv
<1>8. ASSUME NEW w \in Worker, AppendEntry(w) PROVE TypeInv'
  <2>1. /\ EntryOf(w) \in Entry /\ job[w].url \in Url /\ job[w].at # "temp"
        /\ lines' \in Seq(Line) /\ lines' # <<>>
    BY <1>8, EntryOfType, WrittenLines DEF AppendEntry, Appending, TypeInv
  <2>2. job[w].out \in Outcome
    BY <1>8 DEF AppendEntry, Appending, JobsOK
  <2>3. history' \in [Url -> Seq(Outcome)]
    <3>1. Append(history[job[w].url], job[w].out) \in Seq(Outcome)
      BY <2>1, <2>2, AppendProperties DEF LogType
    <3> QED
      BY <1>8, <2>1, <3>1 DEF AppendEntry, LogType
  <2>4. IsFiniteSet(answered') /\ answered' \subseteq Entry
    BY <1>8, <2>1, FS_AddElement DEF AppendEntry, LogType
  <2>a. job' \in [Worker -> Job]
    BY <1>8 DEF AppendEntry, LogType, Job, Idle
  <2>b. seq' \in Nat /\ ~cut'
    BY <1>8 DEF AppendEntry, LogType
  <2>5. LogType'
    BY <1>8, <2>1, <2>3, <2>4, <2>a, <2>b DEF AppendEntry, LogType
  <2>6. JobsOK'
    BY <1>8 DEF AppendEntry, LogType, JobsOK, Job, Idle
  <2>7. TempsOK'
    BY <1>8, <2>1, TempsUnchanged DEF AppendEntry, LogType, Job, Idle
  <2> QED
    BY <2>5, <2>6, <2>7 DEF TypeInv
<1>9. ASSUME Crash PROVE TypeInv'
  <2>1. lines' \in Seq(Line) /\ cut' \in BOOLEAN /\ (cut' => lines' # <<>>)
    <3>1. CASE UNCHANGED <<lines, cut>>
      BY <3>1 DEF LogType
    <3>2. ASSUME NEW w \in Worker, NEW whole \in BOOLEAN, Appending(w),
                 lines' = Written(EntryOf(w), whole)
          PROVE  lines' \in Seq(Line) /\ lines' # <<>>
      <4>1. EntryOf(w) \in Entry
        BY <3>2, EntryOfType DEF TypeInv
      <4> QED
        BY <3>2, <4>1, WrittenLines
    <3> QED
      BY <1>9, <3>1, <3>2 DEF Crash
  <2>2. Writing' = {} /\ job' \in [Worker -> Job] /\ \A w \in Worker : job'[w] = Idle
    BY <1>9 DEF Crash, Writing, Idle, Job
  <2>3. LogType'
    BY <1>9, <2>1, <2>2 DEF Crash, LogType
  <2>4. JobsOK'
    BY <2>2 DEF JobsOK, Idle
  <2>5. TempsOK'
    BY <1>9, <2>2, FS_EmptySet DEF Crash, TempsOK, LogType
  <2> QED
    BY <2>3, <2>4, <2>5 DEF TypeInv
<1>10. ASSUME OpenPlayer \/ ClosePlayer \/ (\E u \in Url : Play(u)) PROVE TypeInv'
  <2>1. LogType'
    <3>1. CASE OpenPlayer
      BY <3>1 DEF OpenPlayer, LogType
    <3>2. CASE ClosePlayer
      BY <3>2 DEF ClosePlayer, LogType
    <3>3. ASSUME NEW u \in Url, Play(u) PROVE LogType'
      <4>1. attempts' \in [Url -> Nat]
        BY <3>3 DEF Play, LogType
      <4>2. UNCHANGED <<disk, proc, seq, job, runs, crashes, answered, history>>
        BY <3>3 DEF Play
      <4> QED
        BY <4>1, <4>2 DEF LogType
    <3> QED
      BY <1>10, <3>1, <3>2, <3>3
  <2>2. JobsOK'
    BY <1>10 DEF OpenPlayer, ClosePlayer, Play, JobsOK, Idle
  <2>3. TempsOK'
    BY <1>10, TempsUnchanged DEF OpenPlayer, ClosePlayer, Play
  <2> QED
    BY <2>1, <2>2, <2>3 DEF TypeInv
<1>11. ASSUME UNCHANGED vars PROVE TypeInv'
  <2>1. TempsOK'
    BY <1>11, TempsUnchanged DEF vars
  <2> QED
    BY <1>11, <2>1 DEF vars, TypeInv, LogType, JobsOK
<1> QED
  BY <1>1, <1>2, <1>3, <1>4, <1>5, <1>6, <1>7, <1>8, <1>9, <1>10, <1>11 DEF Next

-----------------------------------------------------------------------------
(* The ledger over appends, whole or torn. *)

\* An append leaves a readable prefix: one line more, the same lines, or one
\* line less when the bytes of an unfinished line are spoilt.
LEMMA PrefixAfter ==
    ASSUME TypeInv, LedgerInv, NEW w \in Worker, NEW whole \in BOOLEAN,
           Appending(w), lines' = Written(EntryOf(w), whole)
    PROVE  \E n \in Nat : Prefix(n)'
<1> PICK L : L = Len(lines)
  OBVIOUS
<1> LogType
  BY DEF TypeInv
<1>1. PICK n \in Nat : Prefix(n)
  BY DEF LedgerInv
<1>2. EntryOf(w) \in Entry
  BY EntryOfType
<1>3. /\ cut => /\ Len(lines') = L /\ L >= 1 /\ ~lines'[L].ok
                /\ \A i \in 1 .. L : i # L => lines'[i] = lines[i]
      /\ ~cut => /\ Len(lines') = L + 1
                 /\ \A i \in 1 .. L : lines'[i] = lines[i]
                 /\ lines'[L + 1].ok <=> whole
  BY <1>2, WrittenLines, LinesShape
<1>4. /\ L \in Nat /\ n <= L /\ \A i \in 1 .. n : lines[i].ok
      /\ n < L => ~lines[n + 1].ok
  BY <1>1, LinesShape DEF Prefix
\* What has to be said of the n' lines that stay readable.
<1>a. ASSUME NEW m \in Nat, m <= Len(lines'), \A i \in 1 .. m : lines'[i].ok,
             m < Len(lines') => ~lines'[m + 1].ok, Len(lines') \in Nat
      PROVE  \E k \in Nat : Prefix(k)'
  <2>1. Prefix(m)'
    BY <1>a DEF Prefix
  <2> QED
    BY <2>1
<1>5. CASE cut /\ n = L
  <2>1. PICK m \in Nat : m + 1 = L
    BY <1>3, <1>4, <1>5
  <2>2. \A i \in 1 .. m : lines'[i].ok
    BY <1>3, <1>4, <1>5, <2>1
  <2>3. Len(lines') = m + 1 /\ ~lines'[m + 1].ok
    BY <1>3, <1>5, <2>1
  <2>4. m <= Len(lines') /\ Len(lines') \in Nat
    BY <2>3
  <2> QED
    BY <1>a, <2>2, <2>3, <2>4
<1>6. CASE cut /\ n < L
  <2>1. \A i \in 1 .. n : lines'[i].ok
    BY <1>3, <1>4, <1>6
  <2>2. Len(lines') = L /\ ~lines'[n + 1].ok
    BY <1>3, <1>4, <1>6
  <2> QED
    BY <1>4, <1>a, <2>1, <2>2
<1>7. CASE ~cut
  <2>1. /\ Len(lines') = L + 1 /\ \A i \in 1 .. n : lines'[i].ok
        /\ n < L => ~lines'[n + 1].ok
        /\ lines'[L + 1].ok <=> whole
    BY <1>3, <1>4, <1>7
  <2>2. CASE n < L \/ ~whole
    BY <1>4, <1>a, <2>1, <2>2
  <2>3. CASE n = L /\ whole
    <3>1. lines'[n + 1].ok /\ Len(lines') = n + 1
      BY <2>1, <2>3
    <3>2. \A i \in 1 .. n + 1 : lines'[i].ok
      BY <1>4, <2>1, <3>1
    <3>3. n + 1 \in Nat /\ n + 1 <= Len(lines') /\ Len(lines') \in Nat
          /\ ~(n + 1 < Len(lines'))
      BY <1>4, <3>1
    <3> QED
      BY <1>a, <3>2, <3>3
  <2> QED
    BY <1>4, <2>2, <2>3
<1> QED
  BY <1>4, <1>5, <1>6, <1>7

\* The lines of a reader are in the order of their sequence numbers after it.
LEMMA OrderAfter ==
    ASSUME TypeInv, LedgerInv, NEW w \in Worker, NEW whole \in BOOLEAN,
           Appending(w), lines' = Written(EntryOf(w), whole),
           NEW m \in Nat, Prefix(m)', NEW i \in 1 .. m, NEW j \in 1 .. m, i < j
    PROVE  lines'[i].e.seq < lines'[j].e.seq
<1> PICK L : L = Len(lines)
  OBVIOUS
<1> LogType
  BY DEF TypeInv
<1>1. EntryOf(w) \in Entry /\ EntryOf(w).seq = seq + 1 /\ proc \in Recording
  BY EntryOfType DEF Recording
<1>2. /\ cut => /\ Len(lines') = L /\ L >= 1
                /\ ~lines'[L].ok
                /\ \A k \in 1 .. L : lines'[k].e = lines[k].e
                /\ \A k \in 1 .. L : k # L => lines'[k] = lines[k]
      /\ ~cut => /\ Len(lines') = L + 1
                 /\ \A k \in 1 .. L : lines'[k] = lines[k]
                 /\ lines'[L + 1].e = EntryOf(w)
  BY <1>1, WrittenLines, LinesShape
<1>3. /\ L \in Nat /\ DOMAIN lines = 1 .. L
      /\ \A k \in 1 .. L : lines[k].ok \in BOOLEAN /\ lines[k].e.seq \in Nat
  BY LinesShape DEF Entry
<1>4. /\ m <= Len(lines') /\ \A k \in 1 .. m : lines'[k].ok
      /\ m < Len(lines') => ~lines'[m + 1].ok
  BY DEF Prefix
<1>5. \A n \in Nat : Prefix(n) => \A a, b \in 1 .. n : a < b => lines[a].e.seq < lines[b].e.seq
  BY DEF LedgerInv
<1>6. CASE cut
  <2>1. m < L
    BY <1>2, <1>3, <1>4, <1>6
  <2>2. Prefix(m) \/ Prefix(L)
    <3>1. \A k \in 1 .. m : lines[k].ok
      BY <1>2, <1>3, <1>4, <1>6, <2>1
    <3>2. CASE ~lines[m + 1].ok
      BY <1>3, <2>1, <3>1, <3>2 DEF Prefix
    <3>3. CASE lines[m + 1].ok
      <4>1. m + 1 = L
        <5>1. m + 1 \in 1 .. L /\ ~lines'[m + 1].ok
          BY <1>2, <1>3, <1>4, <1>6, <2>1
        <5>2. m + 1 # L => lines'[m + 1] = lines[m + 1]
          BY <1>2, <1>6, <5>1
        <5> QED
          BY <3>3, <5>1, <5>2
      <4>2. \A k \in 1 .. L : lines[k].ok
        BY <1>3, <3>1, <3>3, <4>1
      <4> QED
        BY <1>3, <4>2 DEF Prefix
    <3> QED
      BY <3>2, <3>3
  <2>3. lines[i].e.seq < lines[j].e.seq
    BY <1>3, <1>5, <2>1, <2>2
  <2> QED
    BY <1>2, <1>3, <1>6, <2>1, <2>3
<1>7. CASE ~cut /\ m <= L
  <2>1. Prefix(m)
    BY <1>2, <1>3, <1>4, <1>7 DEF Prefix
  <2>2. lines[i].e.seq < lines[j].e.seq
    BY <1>5, <2>1
  <2> QED
    BY <1>2, <1>3, <1>7, <2>2
<1>8. CASE ~cut /\ m = L + 1
  <2>1. Prefix(L) /\ AllOk
    BY <1>2, <1>3, <1>4, <1>8 DEF Prefix, AllOk
  <2>2. \A k \in 1 .. L : lines[k].e.seq < seq + 1
    <3>1. \A k \in 1 .. L : lines[k].e.seq <= seq
      BY <1>1, <1>3, <2>1 DEF LedgerInv
    <3>2. seq \in Nat
      BY DEF LogType
    <3> QED
      BY <1>3, <3>1, <3>2
  <2>3. CASE j = L + 1
    BY <1>1, <1>2, <1>3, <1>8, <2>2, <2>3
  <2>4. CASE j <= L
    <3>1. lines[i].e.seq < lines[j].e.seq
      BY <1>3, <1>5, <2>1, <2>4
    <3> QED
      BY <1>2, <1>3, <1>8, <2>4, <3>1
  <2> QED
    BY <1>3, <1>8, <2>3, <2>4
<1> QED
  BY <1>2, <1>3, <1>4, <1>6, <1>7, <1>8

\* It keeps the ledger in order, and each of its entries has its body.
LEMMA LedgerAfter ==
    ASSUME TypeInv, LedgerInv, NEW w \in Worker, NEW whole \in BOOLEAN,
           Appending(w), lines' = Written(EntryOf(w), whole), objects' = objects
    PROVE  /\ \E n \in Nat : Prefix(n)'
           /\ \A n \in Nat : Prefix(n)' =>
                 \A i, j \in 1 .. n : i < j => lines'[i].e.seq < lines'[j].e.seq
           /\ AllOk' => \A i \in DOMAIN lines' : lines'[i].e.seq <= seq + 1
           /\ \A i \in DOMAIN lines' : lines'[i].e.out \in objects' \cup {Err}
<1> PICK L : L = Len(lines)
  OBVIOUS
<1> LogType
  BY DEF TypeInv
<1>1. /\ EntryOf(w) \in Entry /\ EntryOf(w).seq = seq + 1 /\ proc \in Recording
      /\ EntryOf(w).out \in objects \cup {Err}
  BY EntryOfType DEF Recording
<1>2. /\ DOMAIN lines' = 1 .. Len(lines')
      /\ cut => /\ Len(lines') = L /\ L >= 1 /\ ~lines'[L].ok
                /\ \A k \in 1 .. L : lines'[k].e = lines[k].e
      /\ ~cut => /\ Len(lines') = L + 1
                 /\ \A k \in 1 .. L : lines'[k] = lines[k]
                 /\ lines'[L + 1].e = EntryOf(w)
  BY <1>1, WrittenLines, LinesShape
<1>3. L \in Nat /\ DOMAIN lines = 1 .. L /\ \A k \in 1 .. L : lines[k].e.seq \in Nat
  BY LinesShape DEF Entry
<1>4. AllOk' => \A i \in DOMAIN lines' : lines'[i].e.seq <= seq + 1
  <2> SUFFICES ASSUME AllOk', NEW i \in DOMAIN lines' PROVE lines'[i].e.seq <= seq + 1
    OBVIOUS
  <2>1. ~cut
    <3>1. L >= 1 /\ Len(lines') = L => L \in DOMAIN lines'
      BY <1>2, <1>3
    <3> QED
      BY <1>2, <3>1 DEF AllOk
  <2>2. AllOk
    BY <1>2, <1>3, <2>1 DEF AllOk
  <2>3. \A k \in 1 .. L : lines[k].e.seq <= seq
    BY <1>1, <1>3, <2>2 DEF LedgerInv
  <2>4. seq \in Nat
    BY DEF LogType
  <2>5. i \in 1 .. L \/ i = L + 1
    BY <1>2, <1>3, <2>1
  <2>6. CASE i \in 1 .. L
    BY <1>2, <1>3, <2>1, <2>3, <2>4, <2>6
  <2>7. CASE i = L + 1
    BY <1>1, <1>2, <2>1, <2>4, <2>7
  <2> QED
    BY <2>5, <2>6, <2>7
<1>5. \A i \in DOMAIN lines' : lines'[i].e.out \in objects' \cup {Err}
  <2>1. \A k \in 1 .. L : lines[k].e.out \in objects \cup {Err}
    BY <1>3 DEF LedgerInv
  <2>2. CASE cut
    BY <1>2, <2>1, <2>2
  <2>3. CASE ~cut
    <3>1. \A k \in DOMAIN lines' : k \in 1 .. L \/ k = L + 1
      BY <1>2, <1>3, <2>3
    <3> QED
      BY <1>1, <1>2, <2>1, <2>3, <3>1
  <2> QED
    BY <2>2, <2>3
<1>6. \E n \in Nat : Prefix(n)'
  BY PrefixAfter
<1>7. \A n \in Nat : Prefix(n)' =>
         \A i, j \in 1 .. n : i < j => lines'[i].e.seq < lines'[j].e.seq
  BY OrderAfter
<1> QED
  BY <1>4, <1>5, <1>6, <1>7

LEMMA LedgerInit == Init => LedgerInv
<1> SUFFICES ASSUME Init PROVE LedgerInv
  OBVIOUS
<1>1. lines = <<>> /\ Len(lines) = 0 /\ DOMAIN lines = {}
  BY DEF Init
<1>2. Prefix(0) /\ \A n \in Nat : Prefix(n) => n = 0
  BY <1>1 DEF Prefix
<1> QED
  BY <1>1, <1>2 DEF LedgerInv

\* Steps that leave the ledger alone.
LEMMA LedgerUnchanged ==
    ASSUME LedgerInv, lines' = lines, objects \subseteq objects',
           proc' \in Recording /\ AllOk => \A i \in DOMAIN lines : lines[i].e.seq <= seq'
    PROVE  LedgerInv'
<1>1. \A n \in Nat : Prefix(n)' <=> Prefix(n)
  BY DEF Prefix
<1>2. AllOk' <=> AllOk
  BY DEF AllOk
<1> QED
  BY <1>1, <1>2 DEF LedgerInv

LEMMA LedgerStep == TypeInv /\ LedgerInv /\ [Next]_vars => LedgerInv'
<1> SUFFICES ASSUME TypeInv, LedgerInv, [Next]_vars PROVE LedgerInv'
  OBVIOUS
<1> LogType
  BY DEF TypeInv
<1> USE DEF disk, ghosts
<1>1. ASSUME OpenRecorder PROVE LedgerInv'
  <2>1. AllOk => \A i \in DOMAIN lines : lines[i].e.seq <= LastSeq
    BY LastSeqIs, PrefixOfOk, LinesShape
  <2> QED
    BY <1>1, <2>1, LedgerUnchanged DEF OpenRecorder
<1>2. ASSUME NEW w \in Worker, AppendEntry(w) PROVE LedgerInv'
  <2>1. seq' = seq + 1 /\ UNCHANGED objects /\ lines' = Written(EntryOf(w), TRUE)
        /\ Appending(w)
    BY <1>2 DEF AppendEntry
  <2> QED
    BY <2>1, LedgerAfter DEF LedgerInv
<1>3. ASSUME Crash PROVE LedgerInv'
  <2>1. proc' = "down" /\ UNCHANGED <<objects, seq>>
    BY <1>3 DEF Crash
  <2>2. CASE lines' = lines
    BY <2>1, <2>2, LedgerUnchanged DEF Recording
  <2>3. ASSUME NEW w \in Worker, NEW whole \in BOOLEAN, Appending(w),
               lines' = Written(EntryOf(w), whole)
        PROVE  LedgerInv'
    BY <2>1, <2>3, LedgerAfter DEF LedgerInv, Recording
  <2> QED
    BY <1>3, <2>2, <2>3 DEF Crash
<1>4. ASSUME NEW w \in Worker, PutRename(w) PROVE LedgerInv'
  <2>1. UNCHANGED <<lines, proc, seq>> /\ objects \subseteq objects'
    BY <1>4 DEF PutRename
  <2> QED
    BY <2>1, LedgerUnchanged DEF LedgerInv
<1>5. ASSUME UNCHANGED <<objects, lines, seq>>, proc' \in Recording => proc \in Recording
      PROVE  LedgerInv'
  BY <1>5, LedgerUnchanged DEF LedgerInv
<1>6. StampManifest \/ Seal \/ CompleteManifest \/ OpenPlayer \/ ClosePlayer => LedgerInv'
  BY <1>5 DEF StampManifest, Seal, CompleteManifest, OpenPlayer, ClosePlayer, Recording
<1>7. ASSUME NEW u \in Url, Play(u) PROVE LedgerInv'
  BY <1>5, <1>7 DEF Play
<1>8. ASSUME NEW w \in Worker,
             \/ \E u \in Url : BeginFetch(w, u)
             \/ \E o \in Outcome : InnerReturns(w, o)
             \/ PutPresent(w) \/ PutTemp(w)
      PROVE  LedgerInv'
  BY <1>5, <1>8 DEF BeginFetch, InnerReturns, PutPresent, PutTemp
<1>9. UNCHANGED vars => LedgerInv'
  BY <1>5 DEF vars
<1> QED
  BY <1>1, <1>2, <1>3, <1>4, <1>6, <1>7, <1>8, <1>9 DEF Next

-----------------------------------------------------------------------------
(* What the ledger has of the answered fetches. *)

\* What is whole after an append was whole before it, and is all still there.
LEMMA WholeAfter ==
    ASSUME TypeInv, NEW w \in Worker, NEW whole \in BOOLEAN,
           Appending(w), lines' = Written(EntryOf(w), whole), AllOk'
    PROVE  /\ AllOk /\ ~cut
           /\ \A i \in DOMAIN lines : i \in DOMAIN lines' /\ lines'[i] = lines[i]
           /\ \E i \in DOMAIN lines' : lines'[i].e = EntryOf(w)
<1> PICK L : L = Len(lines)
  OBVIOUS
<1> LogType
  BY DEF TypeInv
<1>1. EntryOf(w) \in Entry
  BY EntryOfType
<1>2. /\ DOMAIN lines' = 1 .. Len(lines')
      /\ cut => Len(lines') = L /\ L >= 1 /\ ~lines'[L].ok
      /\ ~cut => /\ Len(lines') = L + 1
                 /\ \A k \in 1 .. L : lines'[k] = lines[k]
                 /\ lines'[L + 1].e = EntryOf(w)
  BY <1>1, WrittenLines, LinesShape
<1>3. L \in Nat /\ DOMAIN lines = 1 .. L
  BY LinesShape
<1>4. ~cut
  <2>1. L >= 1 /\ Len(lines') = L => L \in DOMAIN lines'
    BY <1>2, <1>3
  <2> QED
    BY <1>2, <2>1 DEF AllOk
<1>5. /\ DOMAIN lines' = 1 .. L + 1
      /\ \A i \in DOMAIN lines : i \in DOMAIN lines' /\ lines'[i] = lines[i]
  BY <1>2, <1>3, <1>4
<1>6. L + 1 \in DOMAIN lines' /\ lines'[L + 1].e = EntryOf(w)
  BY <1>2, <1>3, <1>4, <1>5
<1>7. AllOk
  BY <1>5 DEF AllOk
<1> QED
  BY <1>4, <1>5, <1>6, <1>7

LEMMA AnsweredInit == Init => AnsweredInv
<1> SUFFICES ASSUME Init PROVE AnsweredInv
  OBVIOUS
<1>1. DOMAIN lines = {} /\ Len(lines) = 0
  BY DEF Init
<1>2. Cardinality(answered) = 0
  BY FS_EmptySet DEF Init
<1> QED
  BY <1>1, <1>2 DEF Init, AnsweredInv, AllOk, NoManifest

\* Steps that neither append nor touch the manifest.
LEMMA AnsweredUnchanged ==
    ASSUME AnsweredInv, UNCHANGED <<lines, cut, manifest, answered, crashes>>,
           proc' \in {"recording", "sealed"} => proc \in {"recording", "sealed"}
    PROVE  AnsweredInv'
<1>1. AllOk' <=> AllOk
  BY DEF AllOk
<1> QED
  BY <1>1 DEF AnsweredInv

LEMMA AnsweredStep == LogInv /\ [Next]_vars => AnsweredInv'
<1> SUFFICES ASSUME LogInv, [Next]_vars PROVE AnsweredInv'
  OBVIOUS
<1> TypeInv /\ LedgerInv /\ AnsweredInv /\ LogType
  BY DEF LogInv, TypeInv
<1> USE DEF disk, ghosts
<1>1. ASSUME NEW w \in Worker, AppendEntry(w) PROVE AnsweredInv'
  <2> DEFINE e == EntryOf(w)
  <2>1. /\ Appending(w) /\ lines' = Written(e, TRUE) /\ answered' = answered \cup {e}
        /\ UNCHANGED <<proc, manifest, crashes>> /\ cut' = FALSE
    BY <1>1 DEF AppendEntry
  <2>2. proc = "recording" /\ e.seq = seq + 1 /\ e \in Entry /\ ~manifest.complete
    BY <2>1, EntryOfType DEF AnsweredInv
  <2> HIDE DEF e
  <2>3. AllOk' => /\ AllOk
                  /\ \A i \in DOMAIN lines : i \in DOMAIN lines' /\ lines'[i] = lines[i]
                  /\ \E i \in DOMAIN lines' : lines'[i].e = e
    BY <2>1, WholeAfter DEF e
  <2>4. ASSUME AllOk', NEW f \in answered' PROVE \E i \in DOMAIN lines' : lines'[i].e = f
    <3>1. CASE f \in answered
      BY <2>3, <2>4, <3>1 DEF AnsweredInv
    <3> QED
      BY <2>1, <2>3, <2>4, <3>1
  <2>5. ASSUME crashes' = 0
        PROVE  /\ AllOk' /\ \A i \in DOMAIN lines' : lines'[i].e \in answered'
               /\ Cardinality(answered') = Len(lines')
    <3> PICK L : L = Len(lines)
      OBVIOUS
    <3>1. /\ AllOk /\ ~cut /\ Cardinality(answered) = L
          /\ \A i \in DOMAIN lines : lines[i].e \in answered
          /\ \A f \in answered : \E i \in DOMAIN lines : lines[i].e = f
      BY <2>1, <2>5 DEF AnsweredInv
    <3>2. /\ DOMAIN lines' = 1 .. Len(lines') /\ Len(lines') = L + 1
          /\ \A i \in 1 .. L : lines'[i] = lines[i]
          /\ lines'[L + 1].e = e /\ lines'[L + 1].ok
      BY <2>1, <2>2, <3>1, WrittenLines
    <3>3. DOMAIN lines = 1 .. L /\ L \in Nat
      BY LinesShape
    <3>4. \A i \in DOMAIN lines' : i \in DOMAIN lines \/ i = L + 1
      BY <3>2, <3>3
    <3>5. AllOk'
      BY <3>1, <3>2, <3>3, <3>4 DEF AllOk
    <3>6. \A i \in DOMAIN lines' : lines'[i].e \in answered'
      BY <2>1, <3>1, <3>2, <3>3, <3>4
    <3>7. e \notin answered
      <4>1. \A i \in DOMAIN lines : lines[i].e.seq <= seq
        BY <2>2, <3>1 DEF LedgerInv, Recording
      <4>2. seq \in Nat
        BY DEF LogType
      <4>3. \A i \in DOMAIN lines : lines[i].e # e
        BY <2>2, <4>1, <4>2
      <4> QED
        BY <3>1, <4>3
    <3>8. Cardinality(answered') = L + 1
      <4>1. IsFiniteSet(answered)
        BY DEF LogType
      <4> QED
        BY <2>1, <3>1, <3>7, <4>1, FS_AddElement
    <3> QED
      BY <3>2, <3>5, <3>6, <3>8
  <2> QED
    BY <2>1, <2>2, <2>4, <2>5 DEF AnsweredInv
<1>2. ASSUME Crash PROVE AnsweredInv'
  <2>1. /\ proc' = "down" /\ crashes' # 0 /\ answered' = answered
    BY <1>2 DEF Crash, LogType
  <2>2. ASSUME AllOk'
        PROVE  AllOk /\ \A i \in DOMAIN lines : i \in DOMAIN lines' /\ lines'[i] = lines[i]
    <3>1. CASE lines' = lines
      BY <2>2, <3>1 DEF AllOk
    <3>2. ASSUME NEW w \in Worker, NEW whole \in BOOLEAN, Appending(w),
                 lines' = Written(EntryOf(w), whole)
          PROVE  AllOk /\ \A i \in DOMAIN lines : i \in DOMAIN lines' /\ lines'[i] = lines[i]
      BY <2>2, <3>2, WholeAfter
    <3> QED
      BY <1>2, <3>1, <3>2 DEF Crash
  <2>3. AllOk' => \A e \in answered' : \E i \in DOMAIN lines' : lines'[i].e = e
    BY <2>1, <2>2 DEF AnsweredInv
  <2> QED
    BY <2>1, <2>3 DEF AnsweredInv
<1>3. ASSUME StampManifest PROVE AnsweredInv'
  <2>1. UNCHANGED <<lines, cut, answered, crashes>> /\ ~manifest'.complete
    BY <1>3 DEF StampManifest, WriteManifest, NoManifest
  <2>2. AllOk' <=> AllOk
    BY <2>1 DEF AllOk
  <2> QED
    BY <2>1, <2>2 DEF AnsweredInv
<1>4. ASSUME CompleteManifest PROVE AnsweredInv'
  <2>1. /\ UNCHANGED <<lines, cut, answered, crashes>> /\ proc' = "down"
        /\ manifest'.entries = Len(Readable)
    BY <1>4 DEF CompleteManifest, WriteManifest
  <2>2. AllOk => Len(Readable) = Len(lines)
    BY PrefixOfOk, LinesShape, ReadableIs
  <2>3. AllOk' <=> AllOk
    BY <2>1 DEF AllOk
  <2> QED
    BY <2>1, <2>2, <2>3 DEF AnsweredInv
<1>5. OpenRecorder \/ Seal \/ OpenPlayer \/ ClosePlayer => AnsweredInv'
  BY AnsweredUnchanged DEF OpenRecorder, Seal, OpenPlayer, ClosePlayer
<1>6. ASSUME NEW u \in Url, Play(u) PROVE AnsweredInv'
  BY <1>6, AnsweredUnchanged DEF Play
<1>7. ASSUME NEW w \in Worker,
             \/ \E u \in Url : BeginFetch(w, u)
             \/ \E o \in Outcome : InnerReturns(w, o)
             \/ PutPresent(w) \/ PutTemp(w) \/ PutRename(w)
      PROVE  AnsweredInv'
  BY <1>7, AnsweredUnchanged DEF BeginFetch, InnerReturns, PutPresent, PutTemp, PutRename
<1>8. UNCHANGED vars => AnsweredInv'
  BY AnsweredUnchanged DEF vars
<1> QED
  BY <1>1, <1>2, <1>3, <1>4, <1>5, <1>6, <1>7, <1>8 DEF Next

\* The inductive invariant holds of every reachable state.
LEMMA LogInvariant == Spec => []LogInv
<1>1. Init => LogInv
  BY TypeInit, LedgerInit, AnsweredInit DEF LogInv
<1>2. LogInv /\ [Next]_vars => LogInv'
  BY TypeStep, LedgerStep, AnsweredStep DEF LogInv
<1> QED
  BY <1>1, <1>2, PTL DEF Spec

\* It makes of the log what is promised of it.
LEMMA LogInvSound == LogInv => LogIsSound
<1> SUFFICES ASSUME LogInv PROVE LogIsSound
  OBVIOUS
<1> TypeInv /\ LedgerInv /\ AnsweredInv /\ LogType
  BY DEF LogInv, TypeInv
<1>1. PICK n \in Nat : Prefix(n)
  BY DEF LedgerInv
<1>2. /\ DOMAIN Readable = 1 .. n
      /\ \A i \in 1 .. n : Readable[i] = lines[i].e
      /\ Range(Readable) = {lines[i].e : i \in 1 .. n}
  BY <1>1, ReadableIs
<1>3. 1 .. n \subseteq DOMAIN lines
  BY <1>1, LinesShape DEF Prefix
<1>4. \A e \in Range(Readable) : HasBody(e)
  BY <1>2, <1>3 DEF LedgerInv, HasBody
<1>5. proc = "down" /\ crashes = 0 => Intact
  <2> SUFFICES ASSUME proc = "down", crashes = 0 PROVE Intact
    OBVIOUS
  <2>1. Writing = {}
    BY DEF Writing, TypeInv, JobsOK
  <2>2. temps = 0
    BY <2>1, FS_EmptySet DEF TypeInv, TempsOK
  <2> QED
    BY <1>4, <2>2 DEF Intact, StoreVerifies
<1>6. SeqIsFileOrder
  <2>1. \A i, j \in 1 .. n : i < j => lines[i].e.seq < lines[j].e.seq
    BY <1>1 DEF LedgerInv
  <2> QED
    BY <1>2, <2>1 DEF SeqIsFileOrder
<1>7. LossOnlyBehindTear
  <2> SUFFICES ASSUME AllOk
               PROVE  /\ answered \subseteq Range(Readable)
                      /\ (manifest.complete /\ proc = "down" /\ crashes = 0) =>
                             manifest.entries = Cardinality(answered)
    BY DEF LossOnlyBehindTear, AllOk
  <2>1. Range(Readable) = {lines[i].e : i \in DOMAIN lines}
    BY PrefixOfOk, LinesShape, ReadableIs
  <2> QED
    BY <2>1 DEF AnsweredInv
<1> QED
  BY <1>4, <1>5, <1>6, <1>7 DEF LogIsSound, EntriesHaveBodies

\* Whatever is cut short by crashes and recorded into again, a reader of the
\* log finds the body of every entry it sees, the entries numbered in the
\* order of the file, and misses an answered fetch only behind a torn line
\* (Log.Append, Store.Put, fetchlog.OpenLog).
THEOREM LogSound == Spec => []LogIsSound
<1> QED
  BY LogInvariant, LogInvSound, PTL

\* The store holds bodies, the ledger entries, and a file that ends within a
\* line has one (Store.objectPath, Log.Append).
THEOREM LogTypeCorrect == Spec => []LogType
<1>1. LogInv => LogType
  BY DEF LogInv, TypeInv
<1> QED
  BY <1>1, LogInvariant, PTL

-----------------------------------------------------------------------------
(* The attempts of a recording and what its replay serves. *)

\* The outcome of one more attempt, after those there were.
LEMMA OneMore ==
    ASSUME NEW S, NEW h \in [Url -> Seq(S)], NEW u \in Url, NEW x \in S,
           NEW g, g = [h EXCEPT ![u] = Append(@, x)]
    PROVE  /\ \A v \in Url : Len(h[v]) \in Nat /\ (v # u => g[v] = h[v])
           /\ g \in [Url -> Seq(S)] /\ Len(g[u]) = Len(h[u]) + 1
           /\ g[u][Len(h[u]) + 1] = x
           /\ \A k \in 1 .. Len(h[u]) : g[u][k] = h[u][k]
<1>1. \A v \in Url : h[v] \in Seq(S) /\ Len(h[v]) \in Nat
  BY LenProperties
<1>2. g[u] = Append(h[u], x) /\ \A v \in Url : v # u => g[v] = h[v]
  OBVIOUS
<1>3. /\ g[u] \in Seq(S) /\ Len(g[u]) = Len(h[u]) + 1
      /\ \A k \in 1 .. Len(h[u]) : g[u][k] = h[u][k]
      /\ g[u][Len(h[u]) + 1] = x
  BY <1>1, <1>2, AppendProperties
<1>4. g \in [Url -> Seq(S)]
  BY <1>1, <1>2, <1>3
<1> QED
  BY <1>1, <1>2, <1>3, <1>4

\* Outside a recording no worker is in a fetch.
LEMMA AllIdle ==
    ASSUME TypeInv, proc # "recording"
    PROVE  \A w \in Worker : job[w] = Idle /\ job[w].url \notin Url
  BY FetchLogAssumption DEF TypeInv, JobsOK, Idle, FetchLogAssumption

LEMMA AttemptsStep == TypeInv /\ AttemptsOK /\ [Next]_vars => AttemptsOK'
<1> SUFFICES ASSUME TypeInv, AttemptsOK, [Next]_vars PROVE AttemptsOK'
  OBVIOUS
<1> LogType /\ JobsOK
  BY DEF TypeInv
<1> USE DEF disk, ghosts
<1>a. \A u \in Url : Len(history[u]) \in Nat /\ attempts[u] \in Nat
  BY LenProperties DEF LogType
<1>1. ASSUME OpenRecorder PROVE AttemptsOK'
  <2>1. \A w \in Worker : job'[w].url \notin Url
    BY <1>1, AllIdle DEF OpenRecorder
  <2>2. \A u \in Url : attempts'[u] = 0 /\ Len(history'[u]) = 0
    BY <1>1 DEF OpenRecorder
  <2>3. \A u \in Url : Pending(u)' = 0
    BY <2>1 DEF Pending
  <2> QED
    BY <2>1, <2>2, <2>3 DEF AttemptsOK
<1>2. ASSUME NEW w \in Worker, NEW u \in Url, BeginFetch(w, u) PROVE AttemptsOK'
  <2>1. /\ proc = "recording" /\ \A v \in Worker : job[v].url # u
        /\ UNCHANGED <<proc, history>>
        /\ job[w] = Idle
    BY <1>2 DEF BeginFetch
  <2>2. /\ job'[w].url = u /\ job'[w].attempt = attempts[u]
        /\ \A v \in Worker : v # w => job'[v] = job[v]
        /\ attempts'[u] = attempts[u] + 1
        /\ \A v \in Url : v # u => attempts'[v] = attempts[v]
    BY <1>2 DEF BeginFetch, LogType
  <2>3. attempts[u] = Len(history[u])
    <3>1. Pending(u) = 0 /\ attempts[u] = Len(history[u]) + Pending(u)
      BY <2>1 DEF AttemptsOK, Recording, Pending
    <3> QED
      BY <1>a, <3>1
  <2>4. \A x \in Url : x # u => Pending(x)' = Pending(x)
    <3>1. job[w].url = None /\ None \notin Url
      BY <2>1, FetchLogAssumption DEF Idle, FetchLogAssumption
    <3>2. \A x \in Url : x # u =>
             ((\E v \in Worker : job'[v].url = x) <=> (\E v \in Worker : job[v].url = x))
      BY <2>2, <3>1
    <3> QED
      BY <3>2 DEF Pending
  <2>5. ASSUME NEW x \in Url
        PROVE  attempts'[x] = Len(history'[x]) + Pending(x)'
    <3>1. CASE x = u
      <4>1. Pending(u)' = 1
        BY <2>2 DEF Pending
      <4> QED
        BY <1>a, <2>1, <2>2, <2>3, <3>1, <4>1
    <3>2. CASE x # u
      BY <2>1, <2>2, <2>4, <3>2 DEF AttemptsOK, Recording
    <3> QED
      BY <3>1, <3>2
  <2>6. ASSUME NEW v \in Worker, job'[v].url \in Url
        PROVE  job'[v].attempt = Len(history'[job'[v].url])
    BY <2>1, <2>2, <2>3, <2>6 DEF AttemptsOK
  <2> QED
    BY <2>5, <2>6 DEF AttemptsOK
<1>3. ASSUME NEW w \in Worker, AppendEntry(w) PROVE AttemptsOK'
  <2>1. /\ Appending(w) /\ UNCHANGED <<proc, attempts>> /\ job' = [job EXCEPT ![w] = Idle]
        /\ history' = [history EXCEPT ![job[w].url] = Append(@, job[w].out)]
    BY <1>3 DEF AppendEntry
  <2>2. proc = "recording" /\ job[w].url \in Url
    BY <2>1, EntryOfType
  <2>3. job[w].out \in Outcome
    BY <2>1 DEF JobsOK, Appending
  <2> PICK u \in Url : u = job[w].url
    BY <2>2
  <2>4. /\ Len(history'[u]) = Len(history[u]) + 1
        /\ \A x \in Url : x # u => history'[x] = history[x]
    <3>1. history \in [Url -> Seq(Outcome)]
      BY DEF LogType
    <3> QED
      BY <2>1, <2>3, <3>1, OneMore
  <2>5. /\ \A v \in Worker : v # w => job'[v] = job[v] /\ job[v].url # u
        /\ job'[w].url \notin Url
    <3>1. \A v \in Worker : v # w => job[v].url # u
      BY <2>2, FetchLogAssumption DEF JobsOK, FetchLogAssumption
    <3>2. \A v \in Worker : job'[v] = IF v = w THEN Idle ELSE job[v]
      BY <2>1 DEF LogType
    <3> QED
      BY <3>1, <3>2, FetchLogAssumption DEF Idle, FetchLogAssumption
  <2>6. ASSUME NEW x \in Url
        PROVE  attempts'[x] = Len(history'[x]) + Pending(x)'
    <3>1. CASE x = u
      <4>1. attempts[u] = Len(history[u]) + Pending(u) /\ Pending(u) = 1
        BY <2>2 DEF AttemptsOK, Recording, Pending
      <4>2. Pending(u)' = 0
        BY <2>5 DEF Pending
      <4> QED
        BY <1>a, <2>1, <2>4, <3>1, <4>1, <4>2
    <3>2. CASE x # u
      <4>1. Pending(x)' = Pending(x)
        <5>1. (\E v \in Worker : job'[v].url = x) <=> (\E v \in Worker : job[v].url = x)
          BY <2>5, <3>2
        <5> QED
          BY <5>1 DEF Pending
      <4> QED
        BY <2>1, <2>2, <2>4, <3>2, <4>1 DEF AttemptsOK, Recording
    <3> QED
      BY <3>1, <3>2
  <2>7. ASSUME NEW v \in Worker, job'[v].url \in Url
        PROVE  job'[v].attempt = Len(history'[job'[v].url])
    BY <2>4, <2>5, <2>7 DEF AttemptsOK
  <2> QED
    BY <2>6, <2>7 DEF AttemptsOK
\* Nothing is being fetched, and nothing is counted.
<1>4. ASSUME proc' \notin Recording, \A w \in Worker : job'[w].url \notin Url
      PROVE  AttemptsOK'
  BY <1>4 DEF AttemptsOK
<1>5. Crash => AttemptsOK'
  BY <1>4, FetchLogAssumption DEF Crash, Recording, Idle, FetchLogAssumption
<1>6. OpenPlayer \/ ClosePlayer => AttemptsOK'
  BY <1>4, AllIdle DEF OpenPlayer, ClosePlayer, Recording
<1>7. ASSUME NEW u \in Url, Play(u) PROVE AttemptsOK'
  BY <1>4, <1>7, AllIdle DEF Play, Recording
<1>8. ASSUME UNCHANGED <<attempts, history>>, proc' \in Recording => proc \in Recording,
             \A w \in Worker : job'[w].url = job[w].url /\ job'[w].attempt = job[w].attempt
      PROVE  AttemptsOK'
  <2>1. \A u \in Url : Pending(u)' = Pending(u)
    BY <1>8 DEF Pending
  <2> QED
    BY <1>8, <2>1 DEF AttemptsOK
<1>9. StampManifest \/ Seal \/ CompleteManifest => AttemptsOK'
  BY <1>8 DEF StampManifest, Seal, CompleteManifest, Recording
<1>10. ASSUME NEW w \in Worker,
              \/ \E o \in Outcome : InnerReturns(w, o)
              \/ PutPresent(w) \/ PutTemp(w) \/ PutRename(w)
       PROVE  AttemptsOK'
  <2>1. \A v \in Worker : job'[v].url = job[v].url /\ job'[v].attempt = job[v].attempt
    <3>1. ASSUME NEW o \in Outcome, job' = [job EXCEPT ![w].at = "fetched", ![w].out = o]
          PROVE  \A v \in Worker : job'[v].url = job[v].url /\ job'[v].attempt = job[v].attempt
      BY <3>1 DEF LogType, Job
    <3>2. ASSUME NEW a \in {"stored", "temp"}, job' = [job EXCEPT ![w].at = a]
          PROVE  \A v \in Worker : job'[v].url = job[v].url /\ job'[v].attempt = job[v].attempt
      BY <3>2 DEF LogType, Job
    <3> QED
      BY <1>10, <3>1, <3>2 DEF InnerReturns, PutPresent, PutTemp, PutRename
  <2> QED
    BY <1>8, <1>10, <2>1 DEF InnerReturns, PutPresent, PutTemp, PutRename
<1>11. UNCHANGED vars => AttemptsOK'
  BY <1>8 DEF vars
<1> QED
  BY <1>1, <1>2, <1>3, <1>5, <1>6, <1>7, <1>9, <1>10, <1>11 DEF Next

\* One more whole line, in a recording that nothing has killed.
LEMMA OneLineMore ==
    ASSUME LogInv, NEW w \in Worker, AppendEntry(w), crashes = 0
    PROVE  /\ Len(lines) \in Nat /\ DOMAIN lines = 1 .. Len(lines)
           /\ DOMAIN lines' = 1 .. Len(lines) + 1
           /\ \A i \in 1 .. Len(lines) : lines'[i] = lines[i]
           /\ lines'[Len(lines) + 1].e = EntryOf(w)
<1>1. TypeInv /\ AnsweredInv /\ LogType /\ ~cut
  BY DEF LogInv, TypeInv, AnsweredInv
<1>2. EntryOf(w) \in Entry /\ lines' = Written(EntryOf(w), TRUE)
  BY <1>1, EntryOfType DEF AppendEntry
<1> QED
  BY <1>1, <1>2, WrittenLines, LinesShape

LEMMA OneRunStep ==
    LogInv /\ AttemptsOK /\ OneRunInv /\ [Next]_vars => OneRunInv'
<1> SUFFICES ASSUME LogInv, AttemptsOK, OneRunInv, [Next]_vars PROVE OneRunInv'
  OBVIOUS
<1> TypeInv /\ LedgerInv /\ AnsweredInv /\ LogType
  BY DEF LogInv, TypeInv
<1> USE DEF disk, ghosts
<1>1. ASSUME OpenRecorder PROVE OneRunInv'
  <2>1. runs' = runs + 1 /\ runs \in Nat /\ lines' = lines
    BY <1>1 DEF OpenRecorder, LogType
  <2>2. ASSUME runs' = 1
        PROVE  DOMAIN lines' = {} /\ \A u \in Url : 1 .. Len(history'[u]) = {}
    <3>1. DOMAIN lines' = {}
      BY <2>1, <2>2 DEF OneRunInv
    <3>2. \A u \in Url : Len(history'[u]) = 0
      BY <1>1 DEF OpenRecorder
    <3> QED
      BY <3>1, <3>2
  <2> QED
    BY <2>1, <2>2 DEF OneRunInv
<1>2. ASSUME NEW w \in Worker, AppendEntry(w) PROVE OneRunInv'
  <2>1. /\ Appending(w) /\ UNCHANGED <<proc, runs, crashes>>
        /\ history' = [history EXCEPT ![job[w].url] = Append(@, job[w].out)]
    BY <1>2 DEF AppendEntry
  <2>2. /\ proc = "recording" /\ job[w].url \in Url
        /\ EntryOf(w).url = job[w].url /\ EntryOf(w).out = job[w].out
        /\ EntryOf(w).attempt = job[w].attempt
        /\ job[w].attempt = Len(history[job[w].url])
    BY <2>1, EntryOfType DEF AttemptsOK
  <2>3. runs # 0
    BY <2>2 DEF OneRunInv
  <2>4. job[w].out \in Outcome /\ history \in [Url -> Seq(Outcome)]
    BY <2>1 DEF TypeInv, JobsOK, Appending, LogType
  <2> PICK u \in Url : u = job[w].url
    BY <2>2
  <2>5. /\ \A v \in Url : Len(history[v]) \in Nat /\ (v # u => history'[v] = history[v])
        /\ Len(history'[u]) = Len(history[u]) + 1
        /\ history'[u][Len(history[u]) + 1] = job[w].out
        /\ \A k \in 1 .. Len(history[u]) : history'[u][k] = history[u][k]
    BY <2>1, <2>4, OneMore
  <2> SUFFICES ASSUME runs = 1, crashes = 0
               PROVE  OneRunInv'
    BY <2>1, <2>3 DEF OneRunInv
  <2> PICK L : L = Len(lines)
    OBVIOUS
  <2>6. /\ L \in Nat /\ DOMAIN lines = 1 .. L /\ DOMAIN lines' = 1 .. L + 1
        /\ \A i \in 1 .. L : lines'[i].e = lines[i].e
        /\ lines'[L + 1].e = EntryOf(w)
    BY <1>2, OneLineMore
  <2>7. /\ \A i \in 1 .. L :
              /\ lines[i].e.attempt < Len(history[lines[i].e.url])
              /\ lines[i].e.out = history[lines[i].e.url][lines[i].e.attempt + 1]
        /\ \A v \in Url : \A k \in 1 .. Len(history[v]) :
              \E i \in 1 .. L : lines[i].e.url = v /\ lines[i].e.attempt + 1 = k
        /\ \A i, j \in 1 .. L :
              lines[i].e.url = lines[j].e.url /\ lines[i].e.attempt = lines[j].e.attempt
                  => i = j
    <3>1. DOMAIN lines = 1 .. L
      BY <2>6
    <3>2. \A i \in 1 .. L :
             /\ lines[i].e.attempt < Len(history[lines[i].e.url])
             /\ lines[i].e.out = history[lines[i].e.url][lines[i].e.attempt + 1]
      BY <3>1 DEF OneRunInv
    <3>3. \A v \in Url : \A k \in 1 .. Len(history[v]) :
              \E i \in 1 .. L : lines[i].e.url = v /\ lines[i].e.attempt + 1 = k
      BY <3>1 DEF OneRunInv
    <3>4. \A i, j \in 1 .. L :
              lines[i].e.url = lines[j].e.url /\ lines[i].e.attempt = lines[j].e.attempt
                  => i = j
      BY <3>1 DEF OneRunInv
    <3> QED
      BY <3>2, <3>3, <3>4
  <2>8. \A i \in 1 .. L : lines[i].e.attempt \in Nat /\ lines[i].e.url \in Url
    BY LinesShape DEF Entry
  <2>9. ASSUME NEW i \in DOMAIN lines'
        PROVE  /\ lines'[i].e.attempt < Len(history'[lines'[i].e.url])
               /\ lines'[i].e.out = history'[lines'[i].e.url][lines'[i].e.attempt + 1]
    <3>1. CASE i \in 1 .. L
      <4>1. /\ lines'[i].e = lines[i].e /\ lines[i].e.attempt < Len(history[lines[i].e.url])
            /\ lines[i].e.out = history[lines[i].e.url][lines[i].e.attempt + 1]
            /\ lines[i].e.attempt \in Nat /\ lines[i].e.url \in Url
        BY <2>6, <2>7, <2>8, <3>1
      <4>2. CASE lines[i].e.url = u
        <5>1. PICK k : k = lines[i].e.attempt + 1
          OBVIOUS
        <5>2. k \in 1 .. Len(history[u])
          <6>1. Len(history[u]) \in Nat
            BY <2>5
          <6> QED
            BY <4>1, <4>2, <5>1, <6>1
        <5>3. history'[u][k] = history[u][k]
          BY <2>5, <5>2
        <5>4. lines[i].e.attempt < Len(history'[u])
          BY <2>5, <4>1, <4>2
        <5> QED
          BY <4>1, <4>2, <5>1, <5>3, <5>4
      <4>3. CASE lines[i].e.url # u
        BY <2>5, <4>1, <4>3
      <4> QED
        BY <4>2, <4>3
    <3>2. CASE i = L + 1
      <4>1. /\ lines'[i].e.url = u /\ lines'[i].e.attempt = Len(history[u])
            /\ lines'[i].e.out = job[w].out
        BY <2>2, <2>6, <3>2
      <4>2. Len(history[u]) \in Nat /\ Len(history'[u]) = Len(history[u]) + 1
            /\ history'[u][Len(history[u]) + 1] = job[w].out
        BY <2>5
      <4> QED
        BY <4>1, <4>2
    <3> QED
      BY <2>6, <3>1, <3>2
  <2>10. ASSUME NEW v \in Url, NEW k \in 1 .. Len(history'[v])
         PROVE  \E i \in DOMAIN lines' : lines'[i].e.url = v /\ lines'[i].e.attempt + 1 = k
    <3>1. CASE k \in 1 .. Len(history[v])
      <4>1. PICK i \in 1 .. L : lines[i].e.url = v /\ lines[i].e.attempt + 1 = k
        BY <2>7, <3>1
      <4>2. i \in DOMAIN lines' /\ lines'[i].e = lines[i].e
        BY <2>6
      <4> QED
        BY <4>1, <4>2
    <3>2. CASE v = u /\ k = Len(history[u]) + 1
      <4>1. L + 1 \in DOMAIN lines'
        BY <2>6
      <4> QED
        BY <2>2, <2>6, <3>2, <4>1
    <3> QED
      BY <2>5, <3>1, <3>2
  <2>11. ASSUME NEW i \in 1 .. L, lines[i].e.url = EntryOf(w).url
         PROVE  lines[i].e.attempt # EntryOf(w).attempt
    BY <2>2, <2>5, <2>7, <2>8, <2>11
  <2>12. ASSUME NEW i \in DOMAIN lines', NEW j \in DOMAIN lines',
                lines'[i].e.url = lines'[j].e.url, lines'[i].e.attempt = lines'[j].e.attempt
         PROVE  i = j
    <3>1. (i \in 1 .. L \/ i = L + 1) /\ (j \in 1 .. L \/ j = L + 1)
      BY <2>6
    <3>2. CASE i \in 1 .. L /\ j \in 1 .. L
      BY <2>6, <2>7, <2>12, <3>2
    <3>3. CASE i \in 1 .. L /\ j = L + 1
      BY <2>6, <2>11, <2>12, <3>3
    <3>4. CASE i = L + 1 /\ j \in 1 .. L
      BY <2>6, <2>11, <2>12, <3>4
    <3> QED
      BY <3>1, <3>2, <3>3, <3>4
  <2> QED
    BY <2>1, <2>3, <2>9, <2>10, <2>12 DEF OneRunInv
<1>3. ASSUME Crash PROVE OneRunInv'
  <2>1. crashes' # 0 /\ runs' = runs /\ runs # 0
    BY <1>3 DEF Crash, OneRunInv, LogType
  <2> QED
    BY <2>1 DEF OneRunInv
<1>4. ASSUME UNCHANGED <<lines, history, runs, crashes>>, runs = 0 => proc' = "down"
      PROVE  OneRunInv'
  BY <1>4 DEF OneRunInv
<1>5. StampManifest \/ Seal \/ CompleteManifest \/ OpenPlayer \/ ClosePlayer => OneRunInv'
  BY <1>4 DEF StampManifest, Seal, CompleteManifest, OpenPlayer, ClosePlayer, OneRunInv, LogType
<1>6. ASSUME NEW u \in Url, Play(u) PROVE OneRunInv'
  BY <1>4, <1>6 DEF Play, OneRunInv
<1>7. ASSUME NEW w \in Worker,
             \/ \E u \in Url : BeginFetch(w, u)
             \/ \E o \in Outcome : InnerReturns(w, o)
             \/ PutPresent(w) \/ PutTemp(w) \/ PutRename(w)
      PROVE  OneRunInv'
  BY <1>4, <1>7 DEF BeginFetch, InnerReturns, PutPresent, PutTemp, PutRename, OneRunInv
<1>8. UNCHANGED vars => OneRunInv'
  BY <1>4 DEF vars, OneRunInv
<1> QED
  BY <1>1, <1>2, <1>3, <1>5, <1>6, <1>7, <1>8 DEF Next

\* NewPlayer reads an entry for every attempt of the one recording there was.
LEMMA PlayerReadsAll ==
    ASSUME LogInv, OneRunInv
    PROVE  /\ ByKey \subseteq Entry
           /\ runs = 1 /\ crashes = 0 => ByKey = {lines[i].e : i \in DOMAIN lines}
<1> TypeInv /\ LedgerInv /\ AnsweredInv /\ LogType
  BY DEF LogInv, TypeInv
<1>1. \A i \in DOMAIN lines : lines[i].e \in Entry
  BY LinesShape
<1>2. Range(Readable) \subseteq Entry
  <2>1. PICK n \in Nat : Prefix(n)
    BY DEF LedgerInv
  <2>2. Range(Readable) = {lines[i].e : i \in 1 .. n}
    BY <2>1, ReadableIs
  <2>3. 1 .. n \subseteq DOMAIN lines
    BY <2>1, LinesShape DEF Prefix
  <2> QED
    BY <1>1, <2>2, <2>3
<1>3. ASSUME runs = 1, crashes = 0 PROVE ByKey = {lines[i].e : i \in DOMAIN lines}
  <2>1. AllOk
    BY <1>3 DEF AnsweredInv
  <2>2. Range(Readable) = {lines[i].e : i \in DOMAIN lines}
    BY <2>1, PrefixOfOk, LinesShape, ReadableIs
  <2>3. \A i, j \in DOMAIN lines :
           lines[i].e.url = lines[j].e.url /\ lines[i].e.attempt = lines[j].e.attempt
               => i = j
    BY <1>3 DEF OneRunInv
  <2>4. \A i \in DOMAIN lines : lines[i].e.seq <= lines[i].e.seq
    BY <1>1 DEF Entry
  <2>5. \A e, f \in Range(Readable) : f.url = e.url /\ f.attempt = e.attempt => f.seq <= e.seq
    BY <2>2, <2>3, <2>4
  <2> QED
    BY <2>2, <2>5 DEF ByKey
<1> QED
  BY <1>2, <1>3 DEF ByKey

\* What Player.Fetch answers with.
LEMMA PlayServes ==
    ASSUME LogInv, PlayInv, NEW u \in Url, Play(u)
    PROVE  \E x \in Outcome \cup {None} :
              /\ heard' = [heard EXCEPT ![u] = Append(@, x)]
              /\ Recorded(u, attempts[u]) # {} => \E e \in Recorded(u, attempts[u]) : x = e.out
<1>1. \A n : \A e \in Recorded(u, n) : e.out \in Outcome
  BY DEF Recorded, PlayInv, Entry
<1> QED
  BY <1>1 DEF Play

LEMMA ReplayedStep ==
    /\ LogInv /\ OneRunInv /\ PlayInv /\ ReplaysTheCrawl /\ [Next]_vars
    => PlayInv' /\ ReplaysTheCrawl'
<1> SUFFICES ASSUME LogInv, OneRunInv, PlayInv, ReplaysTheCrawl, [Next]_vars
             PROVE  PlayInv' /\ ReplaysTheCrawl'
  OBVIOUS
<1> TypeInv /\ LogType
  BY DEF LogInv, TypeInv
<1> USE DEF disk, ghosts
<1>1. ASSUME NEW u \in Url, Play(u) PROVE PlayInv' /\ ReplaysTheCrawl'
  <2>1. /\ proc = "replaying" /\ attempts' = [attempts EXCEPT ![u] = @ + 1]
        /\ UNCHANGED <<lines, proc, played, runs, crashes, history>>
    BY <1>1 DEF Play
  <2>2. PICK x \in Outcome \cup {None} :
           /\ heard' = [heard EXCEPT ![u] = Append(@, x)]
           /\ Recorded(u, attempts[u]) # {} => \E e \in Recorded(u, attempts[u]) : x = e.out
    BY <1>1, PlayServes
  <2>3. /\ \A v \in Url : Len(heard[v]) = attempts[v] /\ (v # u => heard'[v] = heard[v])
        /\ heard' \in [Url -> Seq(Outcome \cup {None})]
        /\ Len(heard'[u]) = attempts[u] + 1 /\ attempts[u] \in Nat
        /\ heard'[u][attempts[u] + 1] = x
        /\ \A k \in 1 .. attempts[u] : heard'[u][k] = heard[u][k]
    <3>1. /\ heard \in [Url -> Seq(Outcome \cup {None})]
          /\ \A v \in Url : Len(heard[v]) = attempts[v]
      BY <2>1 DEF PlayInv
    <3>2. attempts[u] \in Nat
      BY DEF LogType
    <3> QED
      BY <2>2, <3>1, <3>2, OneMore
  <2>4. PlayInv'
    <3>1. \A v \in Url : Len(heard'[v]) = attempts'[v]
      BY <2>1, <2>3 DEF LogType
    <3> QED
      BY <2>1, <2>3, <3>1 DEF PlayInv
  <2>5. ReplaysTheCrawl'
    <3> SUFFICES ASSUME runs = 1, crashes = 0, NEW v \in Url, NEW n \in DOMAIN heard'[v],
                        n <= Len(history[v])
                 PROVE  heard'[v][n] = history[v][n]
      BY <2>1 DEF ReplaysTheCrawl
    <3>1. \A t \in Url : /\ DOMAIN heard[t] = 1 .. Len(heard[t])
                          /\ DOMAIN heard'[t] = 1 .. Len(heard'[t])
      BY <2>3, LenProperties DEF PlayInv
    <3>2. \A t \in Url : \A k \in DOMAIN heard[t] :
             k <= Len(history[t]) => heard[t][k] = history[t][k]
      BY <2>1 DEF ReplaysTheCrawl
    <3>3. CASE v # u
      BY <2>3, <3>2, <3>3
    <3>4. CASE v = u /\ n \in 1 .. attempts[u]
      BY <2>3, <3>1, <3>2, <3>4
    <3>5. CASE v = u /\ n = attempts[u] + 1
      <4>1. n \in 1 .. Len(history[u])
        BY <2>3, <3>5, LenProperties DEF LogType
      <4>2. PICK i \in DOMAIN lines : lines[i].e.url = u /\ lines[i].e.attempt + 1 = n
        BY <4>1 DEF OneRunInv
      <4>3. \A j \in DOMAIN lines : lines[j].e.attempt \in Nat
        BY LinesShape DEF Entry
      <4>4. played = {lines[j].e : j \in DOMAIN lines}
        BY <2>1 DEF PlayInv
      <4>5. lines[i].e \in Recorded(u, attempts[u])
        BY <2>3, <3>5, <4>2, <4>3, <4>4 DEF Recorded
      <4>6. PICK e \in Recorded(u, attempts[u]) : x = e.out
        BY <2>2, <4>5
      <4>7. PICK j \in DOMAIN lines : lines[j].e = e
        BY <4>4, <4>6 DEF Recorded
      <4>8. lines[j].e.url = u /\ lines[j].e.attempt = attempts[u]
        BY <4>6, <4>7 DEF Recorded
      <4>9. lines[j].e.out = history[u][attempts[u] + 1]
        BY <4>8 DEF OneRunInv
      <4> QED
        BY <2>3, <3>5, <4>6, <4>7, <4>9
    <3> QED
      BY <2>3, <3>1, <3>3, <3>4, <3>5
  <2> QED
    BY <2>4, <2>5
<1>2. ASSUME OpenPlayer \/ ClosePlayer PROVE PlayInv' /\ ReplaysTheCrawl'
  <2>1. heard' = [u \in Url |-> <<>>] /\ UNCHANGED <<lines, runs, crashes>>
    BY <1>2 DEF OpenPlayer, ClosePlayer
  <2>2. heard' \in [Url -> Seq(Outcome \cup {None})]
    <3>1. <<>> \in Seq(Outcome \cup {None})
      BY EmptySeq
    <3> QED
      BY <2>1, <3>1
  <2>3. \A u \in Url : DOMAIN heard'[u] = {} /\ Len(heard'[u]) = 0
    BY <2>1
  <2>4. proc' = "replaying" => /\ \A u \in Url : attempts'[u] = 0
                               /\ played' = ByKey
    BY <1>2 DEF OpenPlayer, ClosePlayer
  <2>5. played' \subseteq Entry
    BY <1>2, PlayerReadsAll DEF OpenPlayer, ClosePlayer
  <2>6. PlayInv'
    BY <2>1, <2>2, <2>3, <2>4, <2>5, PlayerReadsAll DEF PlayInv
  <2> QED
    BY <2>3, <2>6 DEF ReplaysTheCrawl
\* Nothing is replayed while the directory is recorded into.
<1>3. ASSUME proc' # "replaying", UNCHANGED <<heard, played>>
      PROVE  PlayInv' /\ ReplaysTheCrawl'
  BY <1>3 DEF PlayInv, ReplaysTheCrawl
<1>4. OpenRecorder \/ StampManifest \/ Seal \/ CompleteManifest \/ Crash
          => PlayInv' /\ ReplaysTheCrawl'
  BY <1>3 DEF OpenRecorder, StampManifest, Seal, CompleteManifest, Crash
<1>5. ASSUME NEW w \in Worker,
             \/ \E u \in Url : BeginFetch(w, u)
             \/ \E o \in Outcome : InnerReturns(w, o)
             \/ PutPresent(w) \/ PutTemp(w) \/ PutRename(w) \/ AppendEntry(w)
      PROVE  PlayInv' /\ ReplaysTheCrawl'
  <2>1. job[w].at \in {"fetching", "fetched", "temp", "stored"} \/ proc = "recording"
    BY <1>5 DEF BeginFetch, InnerReturns, PutPresent, PutTemp, PutRename, AppendEntry,
                Appending
  <2>2. proc = "recording"
    BY <2>1 DEF TypeInv, JobsOK
  <2>3. UNCHANGED <<heard, played, proc>>
    BY <1>5 DEF BeginFetch, InnerReturns, PutPresent, PutTemp, PutRename, AppendEntry
  <2> QED
    BY <1>3, <2>2, <2>3
<1>6. ASSUME UNCHANGED vars PROVE PlayInv' /\ ReplaysTheCrawl'
  BY <1>6 DEF vars, PlayInv, ReplaysTheCrawl
<1> QED
  BY <1>1, <1>2, <1>4, <1>5, <1>6 DEF Next

LEMMA ReplayInit == Init => ReplayInv
<1> SUFFICES ASSUME Init PROVE ReplayInv
  OBVIOUS
<1> USE FetchLogAssumption DEF FetchLogAssumption, Init
<1>1. AttemptsOK
  BY DEF AttemptsOK, Recording, Idle
<1>2. OneRunInv
  BY DEF OneRunInv
<1>3. PlayInv
  <2>1. <<>> \in Seq(Outcome \cup {None})
    BY EmptySeq
  <2> QED
    BY <2>1 DEF PlayInv
<1>4. ReplaysTheCrawl
  BY DEF ReplaysTheCrawl
<1> QED
  BY <1>1, <1>2, <1>3, <1>4 DEF ReplayInv

\* A directory recorded into once, to its end, is replayed as it was crawled:
\* every URL is handed the outcomes it had, in the order of its attempts
\* (Recorder.Fetch, NewPlayer, Player.Fetch).
THEOREM ReplayIsFaithful == Spec => []ReplaysTheCrawl
<1>1. Init => ReplayInv
  BY ReplayInit
<1>2. LogInv /\ ReplayInv /\ [Next]_vars => ReplayInv'
  <2>1. LogInv => TypeInv
    BY DEF LogInv
  <2> QED
    BY <2>1, AttemptsStep, OneRunStep, ReplayedStep DEF ReplayInv
<1>3. ReplayInv => ReplaysTheCrawl
  BY DEF ReplayInv
<1> QED
  BY <1>1, <1>2, <1>3, LogInvariant, PTL DEF Spec

-----------------------------------------------------------------------------
(* Evidence: what a claim is grounded in. The ranges a rendering carries   *)
(* ascend, token by token and byte by byte; so the range behind any of its *)
(* bytes lies in the page.                                                 *)

\* Induction over an initial segment of the numbers, by membership in a set.
LEMMA Least ==
    ASSUME NEW T, T \subseteq Nat, T # {}
    PROVE  \E n \in T : \A m \in T : n <= m
<1>1. IsWellFoundedOn({ss \in Nat \X Nat : ss[1] < ss[2]}, Nat)
  BY NatLessThanWellFounded DEF OpToRel
<1>2. PICK n \in T : \A m \in T : ~ (<<m, n>> \in {ss \in Nat \X Nat : ss[1] < ss[2]})
  BY <1>1, WFMin
<1>3. ASSUME NEW m \in T PROVE n <= m
  <2>1. m \in Nat /\ n \in Nat
    OBVIOUS
  <2>2. <<m, n>> \in Nat \X Nat /\ <<m, n>>[1] = m /\ <<m, n>>[2] = n
    BY <2>1
  <2>3. m < n => <<m, n>> \in {ss \in Nat \X Nat : ss[1] < ss[2]}
    BY <2>2
  <2>4. ~ (m < n)
    BY <1>2, <2>3, Zenon
  <2> QED
    BY <2>1, <2>4
<1> QED
  BY <1>3

LEMMA FromBelow ==
    ASSUME NEW n \in Nat, NEW T,
           \A i \in 0 .. n : (\A j \in 0 .. n : j < i => j \in T) => i \in T
    PROVE  \A i \in 0 .. n : i \in T
<1> DEFINE F == {i \in 0 .. n : i \notin T}
<1>1. CASE F = {}
  BY <1>1
<1>2. CASE F # {}
  <2>1. F \subseteq Nat
    OBVIOUS
  <2>2. PICK i \in F : \A j \in F : i <= j
    BY <1>2, <2>1, Least
  <2>3. ASSUME NEW j \in 0 .. n, j < i PROVE j \in T
    BY <2>1, <2>2, <2>3
  <2> QED
    BY <2>2, <2>3
<1> QED
  BY <1>1, <1>2

LEMMA StepByStep ==
    ASSUME NEW n \in Nat, NEW T, 0 \in T,
           \A i \in 0 .. (n - 1) : i \in T => i + 1 \in T
    PROVE  \A i \in 0 .. n : i \in T
<1>1. ASSUME NEW i \in 0 .. n, \A j \in 0 .. n : j < i => j \in T
      PROVE  i \in T
  <2>1. CASE i = 0
    BY <2>1
  <2>2. CASE i # 0
    <3>1. i - 1 \in 0 .. (n - 1) /\ i - 1 \in 0 .. n /\ i - 1 < i /\ (i - 1) + 1 = i
      BY <2>2
    <3> QED
      BY <1>1, <3>1
  <2> QED
    BY <2>1, <2>2
<1> QED
  BY <1>1, FromBelow

\* FlattenSeq concatenates the pieces one by one.
Pieces(seqs, i, f) ==
    f = [j \in 1 .. i |-> IF j = 1 THEN seqs[j] ELSE f[j - 1] \o seqs[j]]

LEMMA FlattenIs ==
    ASSUME NEW seqs, NEW n \in Nat, n # 0, Len(seqs) = n
    PROVE  \E f : Pieces(seqs, n, f) /\ FlattenSeq(seqs) = f[n]
<1> DEFINE T == {i \in 0 .. n : \E f : Pieces(seqs, i, f)}
<1>1. 0 \in T
  <2>1. PICK f : f = [j \in 1 .. 0 |-> <<>>]
    OBVIOUS
  <2>2. [j \in 1 .. 0 |-> IF j = 1 THEN seqs[j] ELSE f[j - 1] \o seqs[j]] = f
    BY <2>1
  <2>3. Pieces(seqs, 0, f)
    BY <2>2 DEF Pieces
  <2> QED
    BY <2>3
<1>2. ASSUME NEW i \in 0 .. n - 1, i \in T PROVE i + 1 \in T
  <2>1. PICK f : Pieces(seqs, i, f)
    BY <1>2
  <2>2. i \in Nat /\ i + 1 \in 0 .. n
    OBVIOUS
  <2>3. PICK g : g = [j \in 1 .. i + 1 |-> IF j <= i THEN f[j]
                          ELSE IF j = 1 THEN seqs[j] ELSE f[j - 1] \o seqs[j]]
    OBVIOUS
  <2>4. ASSUME NEW j \in 1 .. i + 1
        PROVE  g[j] = IF j = 1 THEN seqs[j] ELSE g[j - 1] \o seqs[j]
    <3>1. CASE j <= i
      <4>1. j \in 1 .. i /\ g[j] = f[j] /\ (j # 1 => j - 1 \in 1 .. i + 1 /\ j - 1 <= i)
        BY <2>2, <2>3, <3>1
      <4>2. f[j] = IF j = 1 THEN seqs[j] ELSE f[j - 1] \o seqs[j]
        BY <2>1, <4>1 DEF Pieces
      <4>3. j # 1 => g[j - 1] = f[j - 1]
        BY <2>3, <4>1
      <4> QED
        BY <4>1, <4>2, <4>3
    <3>2. CASE ~ (j <= i)
      <4>1. g[j] = IF j = 1 THEN seqs[j] ELSE f[j - 1] \o seqs[j]
        BY <2>3, <3>2
      <4>2. j # 1 => j - 1 \in 1 .. i + 1 /\ j - 1 <= i
        BY <2>2, <3>2
      <4>3. j # 1 => g[j - 1] = f[j - 1]
        BY <2>3, <4>2
      <4> QED
        BY <4>1, <4>3
    <3> QED
      BY <3>1, <3>2
  <2>5. g = [j \in 1 .. i + 1 |-> g[j]]
    BY <2>3
  <2>6. Pieces(seqs, i + 1, g)
    BY <2>4, <2>5 DEF Pieces
  <2> QED
    BY <2>2, <2>6
<1> HIDE DEF T
<1>3. \A i \in 0 .. n : i \in T
  BY <1>1, <1>2, StepByStep
<1>4. n \in T
  BY <1>3
<1> DEFINE F == CHOOSE f : Pieces(seqs, n, f)
<1>5. Pieces(seqs, n, F)
  BY <1>4, Zenon DEF T
<1>6. FlattenSeq(seqs) = F[n]
  BY Zenon DEF FlattenSeq, Pieces
<1> HIDE DEF F
<1> QED
  BY <1>5, <1>6


LEMMA FlattenedIn ==
    ASSUME NEW C, NEW n \in Nat, NEW seqs \in [1 .. n -> Seq(C)]
    PROVE  FlattenSeq(seqs) \in Seq(C)
<1>1. Len(seqs) = n
  <2>1. seqs \in Seq(Seq(C))
    OBVIOUS
  <2> QED
    BY <2>1
<1>2. CASE n = 0
  <2>1. FlattenSeq(seqs) = seqs
    BY <1>1, <1>2 DEF FlattenSeq
  <2>2. seqs = <<>>
    BY <1>2
  <2> QED
    BY <2>1, <2>2
<1>3. CASE n # 0
  <2>1. PICK f : Pieces(seqs, n, f) /\ FlattenSeq(seqs) = f[n]
    BY <1>1, <1>3, FlattenIs
  <2>2. \A i \in 1 .. n : f[i] = IF i = 1 THEN seqs[i] ELSE f[i - 1] \o seqs[i]
    BY <2>1 DEF Pieces
  <2> DEFINE T == {i \in 0 .. n : i # 0 => f[i] \in Seq(C)}
  <2>3. 0 \in T
    OBVIOUS
  <2>4. ASSUME NEW i \in 0 .. (n - 1), i \in T PROVE i + 1 \in T
    <3>1. i + 1 \in 1 .. n /\ i + 1 \in 0 .. n /\ seqs[i + 1] \in Seq(C)
      OBVIOUS
    <3>2. f[i + 1] = IF i + 1 = 1 THEN seqs[i + 1] ELSE f[(i + 1) - 1] \o seqs[i + 1]
      BY <2>2, <3>1, Zenon
    <3>3. CASE i = 0
      BY <3>1, <3>2, <3>3
    <3>4. CASE i # 0
      <4>1. f[i] \in Seq(C) /\ (i + 1) - 1 = i /\ i + 1 # 1
        BY <2>4, <3>4
      <4>2. f[i + 1] = f[i] \o seqs[i + 1]
        BY <3>2, <4>1
      <4>3. f[i] \o seqs[i + 1] \in Seq(C)
        BY <3>1, <4>1, ConcatProperties
      <4> QED
        BY <3>1, <4>2, <4>3
    <3> QED
      BY <3>3, <3>4
  <2>5. \A i \in 0 .. n : i \in T
    <3> HIDE DEF T
    <3> QED
      BY <2>3, <2>4, StepByStep
  <2>6. f[n] \in Seq(C)
    BY <1>3, <2>5
  <2> QED
    BY <2>1, <2>6
<1> QED
  BY <1>2, <1>3

-----------------------------------------------------------------------------
(* The ranges of a rendering.                                               *)
Ascending(s) == \A j, k \in 1 .. Len(s) : j <= k => s[j].from <= s[k].from

LEMMA AscendingConcat ==
    ASSUME NEW C, NEW s \in Seq(C), NEW t \in Seq(C), Ascending(s), Ascending(t),
           \A j \in 1 .. Len(s), k \in 1 .. Len(t) : s[j].from <= t[k].from
    PROVE  s \o t \in Seq(C) /\ Ascending(s \o t)
<1> PICK r : r = s \o t
  OBVIOUS
<1>1. Len(s) \in Nat /\ Len(t) \in Nat
  BY LenProperties
<1>2. /\ r \in Seq(C) /\ Len(r) = Len(s) + Len(t)
      /\ \A k \in 1 .. Len(s) + Len(t) : r[k] = IF k <= Len(s) THEN s[k] ELSE t[k - Len(s)]
  BY ConcatProperties
<1>3. ASSUME NEW j \in 1 .. Len(r), NEW k \in 1 .. Len(r), j <= k
      PROVE  r[j].from <= r[k].from
  <2>1. CASE k <= Len(s)
    <3>1. j \in 1 .. Len(s) /\ k \in 1 .. Len(s) /\ r[j] = s[j] /\ r[k] = s[k]
      BY <1>1, <1>2, <1>3, <2>1
    <3> QED
      BY <1>3, <3>1 DEF Ascending
  <2>2. CASE ~ (k <= Len(s)) /\ j <= Len(s)
    <3>1. j \in 1 .. Len(s) /\ k - Len(s) \in 1 .. Len(t) /\ r[j] = s[j] /\ r[k] = t[k - Len(s)]
      BY <1>1, <1>2, <1>3, <2>2
    <3> QED
      BY <3>1
  <2>3. CASE ~ (k <= Len(s)) /\ ~ (j <= Len(s))
    <3>1. /\ j - Len(s) \in 1 .. Len(t) /\ k - Len(s) \in 1 .. Len(t) /\ j - Len(s) <= k - Len(s)
          /\ r[j] = t[j - Len(s)] /\ r[k] = t[k - Len(s)]
      BY <1>1, <1>2, <1>3, <2>3
    <3> QED
      BY <3>1 DEF Ascending
  <2> QED
    BY <2>1, <2>2, <2>3
<1> QED
  BY <1>2, <1>3 DEF Ascending

\* What begins at i, begins there and leads on.
Leads(tokens, i, n) ==
    /\ tokens[i] # <<>> /\ \A k \in 1 .. Len(tokens[i]) : tokens[i][k].from = i
    /\ tokens[i][1].to \in (i + 1) .. (n + 1)

Walked(b, tokens, m, f) ==
    f = [i \in m .. (Len(b) + 1) |->
            IF i > Len(b) THEN <<>> ELSE tokens[i] \o f[tokens[i][1].to]]

LEMMA WalkIs ==
    ASSUME NEW b, NEW n \in Nat, Len(b) = n, NEW tokens, \A i \in 1 .. n : Leads(tokens, i, n)
    PROVE  \E f : Walked(b, tokens, 1, f) /\ Walk(b, tokens) = f[1]
<1> DEFINE T == {d \in 0 .. n : \E f : Walked(b, tokens, n + 1 - d, f)}
<1>1. 0 \in T
  <2>1. PICK f : f = [i \in n + 1 .. n + 1 |-> <<>>]
    OBVIOUS
  <2>2. [i \in n + 1 .. n + 1 |-> IF i > n THEN <<>> ELSE tokens[i] \o f[tokens[i][1].to]] = f
    BY <2>1
  <2>3. Walked(b, tokens, n + 1, f)
    BY <2>2 DEF Walked
  <2> QED
    BY <2>3
<1>2. ASSUME NEW d \in 0 .. n - 1, d \in T PROVE d + 1 \in T
  <2> PICK m : m = n + 1 - d
    OBVIOUS
  <2>0. m \in Nat /\ m - 1 \in 1 .. n /\ n + 1 - (d + 1) = m - 1 /\ d + 1 \in 0 .. n /\ m <= n + 1
    OBVIOUS
  <2>1. PICK f : Walked(b, tokens, m, f)
    BY <1>2
  <2>2. \A i \in m .. n + 1 : f[i] = IF i > n THEN <<>> ELSE tokens[i] \o f[tokens[i][1].to]
    BY <2>1 DEF Walked
  <2>3. PICK g : g = [i \in m - 1 .. n + 1 |->
                         IF i >= m THEN f[i] ELSE tokens[i] \o f[tokens[i][1].to]]
    OBVIOUS
  <2>4. ASSUME NEW i \in m - 1 .. n + 1
        PROVE  g[i] = IF i > n THEN <<>> ELSE tokens[i] \o g[tokens[i][1].to]
    <3>1. CASE i > n
      <4>1. i \in m .. n + 1 /\ i >= m
        BY <2>0, <3>1
      <4> QED
        BY <2>2, <2>3, <3>1, <4>1
    <3>2. CASE ~ (i > n)
      <4>1. i \in 1 .. n
        BY <2>0, <3>2
      <4> PICK x : x = tokens[i][1].to
        OBVIOUS
      <4>2. x \in (i + 1) .. (n + 1)
        BY <4>1 DEF Leads
      <4>3. x \in m .. n + 1 /\ x \in m - 1 .. n + 1 /\ x >= m
        BY <2>0, <4>1, <4>2
      <4>4. g[x] = f[x]
        BY <2>3, <4>3
      <4>5. g[i] = tokens[i] \o f[x]
        <5>1. CASE i >= m
          <6>1. i \in m .. n + 1
            BY <2>0, <4>1, <5>1
          <6> QED
            BY <2>2, <2>3, <3>2, <5>1, <6>1
        <5>2. CASE ~ (i >= m)
          BY <2>3, <5>2
        <5> QED
          BY <5>1, <5>2
      <4> QED
        BY <3>2, <4>4, <4>5
    <3> QED
      BY <3>1, <3>2
  <2>5. g = [i \in m - 1 .. n + 1 |-> g[i]]
    BY <2>3
  <2>6. Walked(b, tokens, m - 1, g)
    BY <2>4, <2>5 DEF Walked
  <2> QED
    BY <2>0, <2>6
<1> HIDE DEF T
<1>3. \A d \in 0 .. n : d \in T
  BY <1>1, <1>2, StepByStep
<1>4. n \in T
  BY <1>3
<1>5. \E f : Walked(b, tokens, 1, f)
  <2>1. n + 1 - n = 1
    OBVIOUS
  <2> QED
    BY <1>4, <2>1 DEF T
<1> DEFINE F == CHOOSE f : Walked(b, tokens, 1, f)
<1>6. Walked(b, tokens, 1, F)
  BY <1>5, Zenon
<1>7. Walk(b, tokens) = F[1]
  BY Zenon DEF Walk, Walked
<1> HIDE DEF F
<1> QED
  BY <1>6, <1>7

LEMMA LeadOn ==
    ASSUME NEW C, NEW i \in Nat, NEW x \in Nat, i < x, NEW a \in Seq(C), NEW r \in Seq(C),
           \A k \in 1 .. Len(a) : a[k].from = i, Ascending(r),
           \A k \in 1 .. Len(r) : r[k].from \in Nat /\ x <= r[k].from
    PROVE  /\ a \o r \in Seq(C) /\ Ascending(a \o r)
           /\ \A k \in 1 .. Len(a \o r) : i <= (a \o r)[k].from
<1> PICK s : s = a \o r
  OBVIOUS
<1>1. Len(a) \in Nat /\ Len(r) \in Nat
  BY LenProperties
<1>2. Ascending(a)
  BY DEF Ascending
<1>3. \A j \in 1 .. Len(a), k \in 1 .. Len(r) : a[j].from <= r[k].from
  <2> TAKE j \in 1 .. Len(a), k \in 1 .. Len(r)
  <2>1. a[j].from = i
    OBVIOUS
  <2>2. r[k].from \in Nat /\ x <= r[k].from
    OBVIOUS
  <2> QED
    BY <2>1, <2>2
<1>4. s \in Seq(C) /\ Ascending(s)
  BY <1>2, <1>3, AscendingConcat
<1>5. /\ Len(s) = Len(a) + Len(r)
      /\ \A k \in 1 .. Len(a) + Len(r) : s[k] = IF k <= Len(a) THEN a[k] ELSE r[k - Len(a)]
  BY ConcatProperties
<1>6. ASSUME NEW k \in 1 .. Len(s) PROVE i <= s[k].from
  <2>1. CASE k <= Len(a)
    <3>1. k \in 1 .. Len(a) /\ s[k] = a[k]
      BY <1>1, <1>5, <2>1
    <3> QED
      BY <3>1
  <2>2. CASE ~ (k <= Len(a))
    <3>1. k - Len(a) \in 1 .. Len(r) /\ s[k] = r[k - Len(a)]
      BY <1>1, <1>5, <2>2
    <3>2. r[k - Len(a)].from \in Nat /\ x <= r[k - Len(a)].from
      BY <3>1
    <3> QED
      BY <3>1, <3>2
  <2> QED
    BY <2>1, <2>2
<1> QED
  BY <1>4, <1>6

LEMMA WalkAscends ==
    ASSUME NEW C, NEW b, NEW n \in Nat, Len(b) = n, NEW tokens \in [1 .. n -> Seq(C)],
           \A i \in 1 .. n : Leads(tokens, i, n), \A t \in C : t.from \in Nat
    PROVE  /\ Walk(b, tokens) \in Seq(C) /\ Ascending(Walk(b, tokens))
           /\ n # 0 => Walk(b, tokens) # <<>>
<1>1. PICK f : Walked(b, tokens, 1, f) /\ Walk(b, tokens) = f[1]
  BY WalkIs
<1>2. \A i \in 1 .. n + 1 : f[i] = IF i > n THEN <<>> ELSE tokens[i] \o f[tokens[i][1].to]
  BY <1>1 DEF Walked
<1> DEFINE Good(i) == /\ f[i] \in Seq(C) /\ Ascending(f[i]) /\ (i <= n => f[i] # <<>>)
                      /\ \A k \in 1 .. Len(f[i]) : i <= f[i][k].from
           T == {d \in 0 .. n : Good(n + 1 - d)}
<1>3. ASSUME NEW d \in 0 .. n, \A e \in 0 .. n : e < d => e \in T
      PROVE  d \in T
  <2>0. PICK i : i = n + 1 - d
    OBVIOUS
  <2>1. i \in 1 .. n + 1 /\ (Good(i) => d \in T)
    BY <2>0
  <2>2. CASE i > n
    <3>1. f[i] = <<>> /\ ~ (i <= n)
      BY <1>2, <2>1, <2>2
    <3>2. Good(i)
      BY <3>1 DEF Ascending
    <3> QED
      BY <2>1, <3>2
  <2>3. CASE ~ (i > n)
    <3>1. i \in 1 .. n /\ i \in Nat
      BY <2>1, <2>3
    <3>0. PICK x : x = tokens[i][1].to
      OBVIOUS
    <3>2. x \in (i + 1) .. (n + 1)
      BY <3>0, <3>1 DEF Leads
    <3>3. n + 1 - x \in 0 .. n /\ n + 1 - x < d /\ n + 1 - (n + 1 - x) = x
      <4>1. x \in Nat /\ d \in Nat /\ d <= n /\ i + 1 <= x /\ x <= n + 1 /\ i = n + 1 - d
        BY <2>0, <3>1, <3>2
      <4> QED
        BY <4>1
    <3>4. Good(x)
      BY <1>3, <3>3
    <3> HIDE DEF Good, T
    <3>a. PICK a : a = tokens[i]
      OBVIOUS
    <3>r. PICK r : r = f[x]
      OBVIOUS
    <3>5. a \in Seq(C) /\ r \in Seq(C) /\ Ascending(r)
      BY <3>1, <3>4, <3>a, <3>r DEF Good
    <3>6. \A k \in 1 .. Len(a) : a[k].from = i
      BY <3>1, <3>a DEF Leads
    <3>7. \A k \in 1 .. Len(r) : r[k].from \in Nat /\ x <= r[k].from
      BY <3>4, <3>5, <3>r, ElementOfSeq DEF Good
    <3>8. x \in Nat /\ i < x
      BY <3>1, <3>2
    <3>9. /\ a \o r \in Seq(C) /\ Ascending(a \o r)
          /\ \A k \in 1 .. Len(a \o r) : i <= (a \o r)[k].from
      BY <3>1, <3>5, <3>6, <3>7, <3>8, LeadOn, Zenon
    <3>11. a \o r # <<>>
      <4>1. a # <<>>
        BY <3>1, <3>a DEF Leads
      <4> QED
        BY <3>5, <4>1
    <3>10. f[i] = a \o r
      BY <1>2, <2>1, <2>3, <3>0, <3>a, <3>r
    <3>15. Good(i)
      BY <3>9, <3>10, <3>11 DEF Good
    <3> QED
      BY <2>1, <3>15
  <2> QED
    BY <2>2, <2>3
<1>4. \A d \in 0 .. n : d \in T
  <2> HIDE DEF T
  <2> QED
    BY <1>3, FromBelow
<1>5. Good(1)
  <2>1. n \in T /\ n + 1 - n = 1
    BY <1>4
  <2> HIDE DEF Good
  <2> QED
    BY <2>1
<1>6. n # 0 => 1 <= n
  OBVIOUS
<1> QED
  BY <1>1, <1>5, <1>6

Before(s, t) == \A j \in 1 .. Len(s), k \in 1 .. Len(t) : s[j].from <= t[k].from

LEMMA BeforeConcat ==
    ASSUME NEW C, NEW s \in Seq(C), NEW r \in Seq(C), NEW t, Before(s, t), Before(r, t)
    PROVE  Before(s \o r, t)
<1>0. PICK q : q = s \o r
  OBVIOUS
<1>1. Len(s) \in Nat /\ Len(r) \in Nat
  BY LenProperties
<1>2. /\ Len(q) = Len(s) + Len(r)
      /\ \A k \in 1 .. Len(s) + Len(r) : q[k] = IF k <= Len(s) THEN s[k] ELSE r[k - Len(s)]
  BY <1>0, ConcatProperties
<1>3. ASSUME NEW j \in 1 .. Len(q), NEW k \in 1 .. Len(t) PROVE q[j].from <= t[k].from
  <2>1. CASE j <= Len(s)
    <3>1. j \in 1 .. Len(s) /\ q[j] = s[j]
      BY <1>1, <1>2, <2>1
    <3> QED
      BY <3>1 DEF Before
  <2>2. CASE ~ (j <= Len(s))
    <3>1. j - Len(s) \in 1 .. Len(r) /\ q[j] = r[j - Len(s)]
      BY <1>1, <1>2, <2>2
    <3> QED
      BY <3>1 DEF Before
  <2> QED
    BY <2>1, <2>2
<1> QED
  BY <1>0, <1>3 DEF Before

LEMMA FlattenAscends ==
    ASSUME NEW C, NEW n \in Nat, NEW seqs \in [1 .. n -> Seq(C)],
           \A k \in 1 .. n : Ascending(seqs[k]),
           \A j, k \in 1 .. n : j < k => Before(seqs[j], seqs[k])
    PROVE  FlattenSeq(seqs) \in Seq(C) /\ Ascending(FlattenSeq(seqs))
<1>1. Len(seqs) = n
  <2>1. seqs \in Seq(Seq(C))
    OBVIOUS
  <2> QED
    BY <2>1
<1>2. CASE n = 0
  <2>1. FlattenSeq(seqs) = seqs
    BY <1>1, <1>2 DEF FlattenSeq
  <2>2. seqs = <<>>
    BY <1>2
  <2> QED
    BY <2>1, <2>2 DEF Ascending
<1>3. CASE n # 0
  <2>1. PICK f : Pieces(seqs, n, f) /\ FlattenSeq(seqs) = f[n]
    BY <1>1, <1>3, FlattenIs
  <2>2. \A i \in 1 .. n : f[i] = IF i = 1 THEN seqs[i] ELSE f[i - 1] \o seqs[i]
    BY <2>1 DEF Pieces
  <2> DEFINE Good(i) == /\ f[i] \in Seq(C) /\ Ascending(f[i])
                        /\ \A k \in 1 .. n : i < k => Before(f[i], seqs[k])
             T == {i \in 0 .. n : i # 0 => Good(i)}
  <2>3. 0 \in T
    OBVIOUS
  <2>4. ASSUME NEW i \in 0 .. (n - 1), i \in T PROVE i + 1 \in T
    <3>1. i + 1 \in 1 .. n /\ i + 1 \in 0 .. n /\ seqs[i + 1] \in Seq(C)
      OBVIOUS
    <3>2. f[i + 1] = IF i + 1 = 1 THEN seqs[i + 1] ELSE f[(i + 1) - 1] \o seqs[i + 1]
      BY <2>2, <3>1, Zenon
    <3>3. CASE i = 0
      <4>1. f[i + 1] = seqs[i + 1]
        BY <3>2, <3>3
      <4>2. \A k \in 1 .. n : i + 1 < k => Before(seqs[i + 1], seqs[k])
        BY <3>1
      <4> QED
        BY <3>1, <4>1, <4>2
    <3>4. CASE i # 0
      <4>1. Good(i) /\ (i + 1) - 1 = i /\ i + 1 # 1 /\ i \in 1 .. n
        BY <2>4, <3>4
      <4>2. f[i + 1] = f[i] \o seqs[i + 1]
        BY <3>2, <4>1
      <4>3. /\ f[i] \in Seq(C) /\ Ascending(f[i])
            /\ \A k \in 1 .. n : i < k => Before(f[i], seqs[k])
        BY <4>1
      <4> HIDE DEF Good
      <4>4. Before(f[i], seqs[i + 1])
        BY <3>1, <4>1, <4>3
      <4>5. f[i] \o seqs[i + 1] \in Seq(C) /\ Ascending(f[i] \o seqs[i + 1])
        BY <3>1, <4>3, <4>4, AscendingConcat DEF Before
      <4>6. ASSUME NEW k \in 1 .. n, i + 1 < k PROVE Before(f[i] \o seqs[i + 1], seqs[k])
        <5>1. Before(f[i], seqs[k]) /\ Before(seqs[i + 1], seqs[k])
          BY <3>1, <4>1, <4>3, <4>6
        <5> QED
          BY <3>1, <4>3, <5>1, BeforeConcat
      <4>7. Good(i + 1)
        BY <4>2, <4>5, <4>6 DEF Good
      <4> QED
        BY <3>1, <4>7
    <3> QED
      BY <3>3, <3>4
  <2>5. \A i \in 0 .. n : i \in T
    <3> HIDE DEF T
    <3> QED
      BY <2>3, <2>4, StepByStep
  <2>6. Good(n)
    BY <1>3, <2>5
  <2> QED
    BY <2>1, <2>6
<1> QED
  BY <1>2, <1>3

\* The tokens of a body of n bytes, and what each byte of a rendering carries.
Token(n) == {t \in [char : Seq(Byte), from : 1 .. n, to : 1 .. (n + 1)] : t.char # <<>> /\ t.from < t.to}
Mark(n) == {m \in [byte : Byte, from : 1 .. n, to : 1 .. (n + 1)] : m.from < m.to}

LEMMA SingletonIs ==
    \A S : \A x \in S : <<x>> \in Seq(S) /\ <<x>> # <<>> /\ Len(<<x>>) = 1 /\ <<x>>[1] = x
  OBVIOUS

LEMMA CollapseAscends ==
    ASSUME NEW n \in Nat, NEW ts \in Seq(Token(n)), Ascending(ts)
    PROVE  Collapse(ts) \in Seq(Token(n)) /\ Ascending(Collapse(ts))
<1>0. PICK l : l = Len(ts)
  OBVIOUS
<1>1. l \in Nat /\ DOMAIN ts = 1 .. l
  BY <1>0, LenProperties
<1> DEFINE black(k) == ts[k].char \notin Space
           parts(k) == k > 1 /\ black(k - 1) /\ \E j \in k .. Len(ts) : black(j)
           piece(k) == IF black(k) THEN <<ts[k]>>
                       ELSE IF parts(k) THEN <<[char |-> Blank, from |-> ts[k].from, to |-> ts[k].to]>>
                       ELSE <<>>
           pieces == [k \in DOMAIN ts |-> piece(k)]
<1>2. Collapse(ts) = FlattenSeq(pieces)
  BY Zenon DEF Collapse
<1>3. ASSUME NEW k \in 1 .. l
      PROVE  /\ ts[k] \in Token(n)
             /\ [char |-> Blank, from |-> ts[k].from, to |-> ts[k].to] \in Token(n)
  <2>1. ts[k] \in Token(n)
    BY <1>0, ElementOfSeq
  <2>2. Blank \in Seq(Byte) /\ Blank # <<>>
    BY EvidenceAssumption, SingletonIs, Zenon DEF EvidenceAssumption, Blank
  <2>3. ts[k].from \in 1 .. n /\ ts[k].to \in 1 .. (n + 1) /\ ts[k].from < ts[k].to
    BY <2>1 DEF Token
  <2>4. [char |-> Blank, from |-> ts[k].from, to |-> ts[k].to] \in Token(n)
    BY <2>2, <2>3 DEF Token
  <2> QED
    BY <2>1, <2>4
<1>4. ASSUME NEW k \in 1 .. l
      PROVE  piece(k) \in Seq(Token(n)) /\ \A j \in 1 .. Len(piece(k)) : piece(k)[j].from = ts[k].from
  <2>1. CASE black(k)
    <3>0. PICK t : t = ts[k]
      OBVIOUS
    <3>1. piece(k) = <<t>>
      BY <2>1, <3>0
    <3> HIDE DEF piece
    <3>2. <<t>> \in Seq(Token(n)) /\ Len(<<t>>) = 1 /\ <<t>>[1] = t
      BY <1>3, <3>0, SingletonIs
    <3> QED
      BY <3>0, <3>1, <3>2
  <2>2. CASE ~ black(k) /\ parts(k)
    <3>0. PICK t : t = [char |-> Blank, from |-> ts[k].from, to |-> ts[k].to]
      OBVIOUS
    <3>1. piece(k) = <<t>>
      BY <2>2, <3>0
    <3> HIDE DEF piece
    <3>2. <<t>> \in Seq(Token(n)) /\ Len(<<t>>) = 1 /\ <<t>>[1] = t
      BY <1>3, <3>0, SingletonIs
    <3>3. t.from = ts[k].from
      BY <3>0
    <3> QED
      BY <3>1, <3>2, <3>3
  <2>3. CASE ~ black(k) /\ ~ parts(k)
    <3>1. piece(k) = <<>>
      BY <2>3
    <3> HIDE DEF piece
    <3> QED
      BY <3>1
  <2> QED
    BY <2>1, <2>2, <2>3
<1> HIDE DEF piece
<1>5. pieces \in [1 .. l -> Seq(Token(n))] /\ \A k \in 1 .. l : pieces[k] = piece(k)
  BY <1>1, <1>4
<1> HIDE DEF pieces
<1>6. ASSUME NEW k \in 1 .. l PROVE Ascending(pieces[k])
  <2>1. ts[k].from \in Nat
    <3>1. ts[k].from \in 1 .. n
      BY <1>3 DEF Token
    <3> QED
      BY <3>1
  <2>2. \A j \in 1 .. Len(pieces[k]) : pieces[k][j].from = ts[k].from
    BY <1>4, <1>5
  <2> QED
    BY <2>1, <2>2 DEF Ascending
<1>7. ASSUME NEW j \in 1 .. l, NEW k \in 1 .. l, j < k PROVE Before(pieces[j], pieces[k])
  <2>1. ts[j].from <= ts[k].from
    BY <1>0, <1>1, <1>7 DEF Ascending
  <2>2. /\ \A i \in 1 .. Len(pieces[j]) : pieces[j][i].from = ts[j].from
        /\ \A i \in 1 .. Len(pieces[k]) : pieces[k][i].from = ts[k].from
    BY <1>4, <1>5
  <2> QED
    BY <2>1, <2>2 DEF Before
<1> QED
  BY <1>1, <1>2, <1>5, <1>6, <1>7, FlattenAscends

LEMMA MarksAscend ==
    ASSUME NEW n \in Nat, NEW out \in Seq(Token(n)), Ascending(out),
           NEW marks,
           marks = FlattenSeq([k \in DOMAIN out |-> [m \in DOMAIN out[k].char |->
                       [byte |-> out[k].char[m], from |-> out[k].from, to |-> out[k].to]]])
    PROVE  marks \in Seq(Mark(n)) /\ Ascending(marks)
<1>0. PICK l : l = Len(out)
  OBVIOUS
<1>1. l \in Nat /\ DOMAIN out = 1 .. l
  BY <1>0, LenProperties
<1> DEFINE piece(k) == [m \in DOMAIN out[k].char |->
                           [byte |-> out[k].char[m], from |-> out[k].from, to |-> out[k].to]]
           pieces == [k \in DOMAIN out |-> piece(k)]
<1>2. ASSUME NEW k \in 1 .. l
      PROVE  /\ piece(k) \in Seq(Mark(n)) /\ out[k].from \in Nat
             /\ \A j \in 1 .. Len(piece(k)) : piece(k)[j].from = out[k].from
  <2>0. PICK c : c = out[k].char
    OBVIOUS
  <2>1. out[k] \in Token(n)
    BY <1>0, ElementOfSeq
  <2>2. /\ c \in Seq(Byte) /\ out[k].from \in 1 .. n /\ out[k].to \in 1 .. (n + 1)
        /\ out[k].from < out[k].to
    BY <2>0, <2>1 DEF Token
  <2>3. Len(c) \in Nat /\ DOMAIN c = 1 .. Len(c) /\ \A m \in 1 .. Len(c) : c[m] \in Byte
    BY <2>2, LenProperties, ElementOfSeq
  <2>4. piece(k) = [m \in 1 .. Len(c) |-> [byte |-> c[m], from |-> out[k].from, to |-> out[k].to]]
    BY <2>0, <2>3
  <2> HIDE DEF piece
  <2>5. \A m \in 1 .. Len(c) : [byte |-> c[m], from |-> out[k].from, to |-> out[k].to] \in Mark(n)
    BY <2>2, <2>3 DEF Mark
  <2>6. piece(k) \in [1 .. Len(c) -> Mark(n)]
    BY <2>4, <2>5
  <2>7. piece(k) \in Seq(Mark(n)) /\ Len(piece(k)) = Len(c)
    BY <2>3, <2>6, SeqDef, LenProperties
  <2>8. \A j \in 1 .. Len(c) : piece(k)[j].from = out[k].from
    BY <2>4
  <2> QED
    BY <2>2, <2>7, <2>8
<1>3. marks = FlattenSeq(pieces)
  BY Zenon
<1> HIDE DEF piece
<1>4. pieces \in [1 .. l -> Seq(Mark(n))] /\ \A k \in 1 .. l : pieces[k] = piece(k)
  BY <1>1, <1>2
<1> HIDE DEF pieces
<1>5. ASSUME NEW k \in 1 .. l PROVE Ascending(pieces[k])
  BY <1>2, <1>4 DEF Ascending
<1>6. ASSUME NEW j \in 1 .. l, NEW k \in 1 .. l, j < k PROVE Before(pieces[j], pieces[k])
  <2>1. out[j].from <= out[k].from
    BY <1>0, <1>1, <1>6 DEF Ascending
  <2>2. /\ \A i \in 1 .. Len(pieces[j]) : pieces[j][i].from = out[j].from
        /\ \A i \in 1 .. Len(pieces[k]) : pieces[k][i].from = out[k].from
    BY <1>2, <1>4
  <2> QED
    BY <2>1, <2>2 DEF Before
<1> QED
  BY <1>1, <1>3, <1>4, <1>5, <1>6, FlattenAscends

-----------------------------------------------------------------------------
(* Characters and markup: each token leads on, and ends within the body.    *)
LEMMA FirstIs ==
    \A S \in SUBSET Nat : /\ S = {} => First(S) = Nowhere
                          /\ S # {} => First(S) \in S /\ First(S) # Nowhere
<1> SUFFICES ASSUME NEW S \in SUBSET Nat
             PROVE  /\ S = {} => First(S) = Nowhere
                    /\ S # {} => First(S) \in S /\ First(S) # Nowhere
  OBVIOUS
<1>1. ASSUME S # {} PROVE First(S) \in S
  <2>1. \E j \in S : \A k \in S : j <= k
    BY <1>1, Least
  <2> QED
    BY <1>1, <2>1, Zenon DEF First
<1>2. Nowhere \notin Nat
  BY EvidenceAssumption DEF EvidenceAssumption
<1> QED
  BY <1>1, <1>2 DEF First

\* Not found, or beyond i in a body of n bytes.
Past(x, i, n) == x = Nowhere \/ x \in (i + 1) .. (n + 1)

LEMMA FirstPast ==
    ASSUME NEW i \in Nat, NEW n \in Nat, NEW S, S \subseteq (i + 1) .. (n + 1)
    PROVE  Past(First(S), i, n)
<1>1. S \in SUBSET Nat
  OBVIOUS
<1>2. First(S) = Nowhere \/ First(S) \in S
  BY <1>1, FirstIs
<1> QED
  BY <1>2 DEF Past

LEMMA PartIs ==
    ASSUME NEW S, NEW b \in Seq(S), NEW i \in 1 .. Len(b), NEW j \in i .. Len(b)
    PROVE  /\ SubSeq(b, i, j) \in Seq(S) /\ Len(SubSeq(b, i, j)) = j - i + 1
           /\ SubSeq(b, i, j) # <<>>
<1>1. Len(b) \in Nat
  BY LenProperties
<1>2. i \in Int /\ j \in Int /\ i <= j /\ 1 <= i /\ j <= Len(b)
  BY <1>1
<1>3. \A k \in i .. j : b[k] \in S
  <2> TAKE k \in i .. j
  <2>1. k \in 1 .. Len(b)
    BY <1>1, <1>2
  <2> QED
    BY <2>1, ElementOfSeq
<1>4. PICK s : s = SubSeq(b, i, j)
  OBVIOUS
<1>5. s \in Seq(S) /\ Len(s) = IF i <= j THEN j - i + 1 ELSE 0
  BY <1>2, <1>3, <1>4, SubSeqProperties
<1>6. Len(s) = j - i + 1 /\ Len(s) # 0
  BY <1>2, <1>5
<1>7. s # <<>>
  BY <1>6
<1> QED
  BY <1>4, <1>5, <1>6, <1>7

LEMMA RuneAtIs ==
    ASSUME NEW b \in Seq(Byte), NEW i \in 1 .. Len(b)
    PROVE  /\ RuneAt(b, i) \in Seq(Byte) /\ RuneAt(b, i) # <<>>
           /\ i + Len(RuneAt(b, i)) \in (i + 1) .. (Len(b) + 1)
<1>1. Len(b) \in Nat /\ i \in Nat /\ 1 <= i /\ i <= Len(b)
  BY LenProperties
<1>2. PICK ends : ends = {j \in i .. Len(b) : SubSeq(b, i, j) \in Rune}
  OBVIOUS
<1>3. CASE ends = {}
  <2>1. RuneAt(b, i) = <<b[i]>>
    BY <1>2, <1>3, Zenon DEF RuneAt
  <2>2. b[i] \in Byte
    BY ElementOfSeq
  <2>3. <<b[i]>> \in Seq(Byte) /\ <<b[i]>> # <<>> /\ Len(<<b[i]>>) = 1
    BY <2>2, SingletonIs
  <2> QED
    BY <1>1, <2>1, <2>3
<1>4. CASE ends # {}
  <2>1. PICK j : j = CHOOSE k \in ends : TRUE
    OBVIOUS
  <2>2. j \in ends
    BY <1>4, <2>1, Zenon
  <2>3. RuneAt(b, i) = SubSeq(b, i, j)
    BY <1>2, <1>4, <2>1, Zenon DEF RuneAt
  <2>4. j \in i .. Len(b)
    BY <1>2, <2>2
  <2>5. PICK r : r = SubSeq(b, i, j)
    OBVIOUS
  <2>6. r \in Seq(Byte) /\ r # <<>> /\ Len(r) = j - i + 1
    BY <2>4, <2>5, PartIs
  <2>7. i + Len(r) \in (i + 1) .. (Len(b) + 1)
    BY <1>1, <2>4, <2>6
  <2> QED
    BY <2>3, <2>5, <2>6, <2>7
<1> QED
  BY <1>3, <1>4

LEMMA CharIs ==
    ASSUME NEW b \in Seq(Byte), NEW i \in 1 .. Len(b)
    PROVE  /\ Char(b, i) \in Token(Len(b)) /\ Char(b, i).from = i
           /\ Char(b, i).to \in (i + 1) .. (Len(b) + 1)
<1>1. PICK c : c = RuneAt(b, i)
  OBVIOUS
<1>2. PICK x : x = i + Len(c)
  OBVIOUS
<1>3. c \in Seq(Byte) /\ c # <<>> /\ x \in (i + 1) .. (Len(b) + 1)
  BY <1>1, <1>2, RuneAtIs
<1>4. Char(b, i) = [char |-> c, from |-> i, to |-> x]
  BY <1>1, <1>2 DEF Char
<1>5. Len(b) \in Nat
  BY LenProperties
<1>6. x \in 1 .. (Len(b) + 1) /\ i < x
  BY <1>3, <1>5
<1>7. [char |-> c, from |-> i, to |-> x] \in Token(Len(b))
  BY <1>3, <1>6 DEF Token
<1> QED
  BY <1>3, <1>4, <1>7

LEMMA RunesIs ==
    ASSUME NEW b \in Seq(Byte)
    PROVE  /\ Runes(b) \in Seq(Token(Len(b))) /\ Ascending(Runes(b))
           /\ b # <<>> => Runes(b) # <<>>
<1>1. PICK n : n = Len(b)
  OBVIOUS
<1>2. n \in Nat /\ DOMAIN b = 1 .. n
  BY <1>1, LenProperties
<1>3. PICK tokens : tokens = [i \in DOMAIN b |-> <<Char(b, i)>>]
  OBVIOUS
<1>4. Runes(b) = Walk(b, tokens)
  BY <1>3 DEF Runes
<1>5. ASSUME NEW i \in 1 .. n PROVE tokens[i] \in Seq(Token(n)) /\ Leads(tokens, i, n)
  <2>1. PICK c : c = Char(b, i)
    OBVIOUS
  <2>2. c \in Token(n) /\ c.from = i /\ c.to \in (i + 1) .. (n + 1)
    BY <1>1, <2>1, CharIs
  <2>3. tokens[i] = <<c>>
    BY <1>2, <1>3, <2>1
  <2>4. <<c>> \in Seq(Token(n)) /\ <<c>> # <<>> /\ Len(<<c>>) = 1 /\ <<c>>[1] = c
    BY <2>2, SingletonIs
  <2> QED
    BY <2>2, <2>3, <2>4 DEF Leads
<1>6. tokens \in [1 .. n -> Seq(Token(n))]
  BY <1>2, <1>3, <1>5
<1>7. \A t \in Token(n) : t.from \in Nat
  BY DEF Token
<1>8. /\ Walk(b, tokens) \in Seq(Token(n)) /\ Ascending(Walk(b, tokens))
      /\ n # 0 => Walk(b, tokens) # <<>>
  BY <1>1, <1>2, <1>5, <1>6, <1>7, WalkAscends
<1>9. b # <<>> => n # 0
  BY <1>1
<1> QED
  BY <1>1, <1>4, <1>8, <1>9

LEMMA SkipElementPast ==
    ASSUME NEW b \in Seq(Byte), NEW i \in 1 .. Len(b)
    PROVE  Past(SkipElement(b, i), i, Len(b))
<1>1. Len(b) \in Nat /\ i \in Nat
  BY LenProperties
<1> DEFINE name == IF i < Len(b) /\ b[i + 1] \in NonText THEN b[i + 1] ELSE Nowhere
           open == name # Nowhere /\ (i + 2 <= Len(b) => b[i + 2] \in SpaceByte \cup {">", "/"})
           places == {j \in i .. Len(b) : ReadsAt(b, j, <<"<", "/", name>>)}
           closing == First(places)
           ends == {j + 1 : j \in {k \in (closing + 3) .. Len(b) : b[k] = ">"}}
<1>2. SkipElement(b, i) = IF ~ open \/ closing = Nowhere THEN Nowhere ELSE First(ends)
  BY DEF SkipElement
<1>3. places \in SUBSET Nat /\ \A j \in places : j \in i .. Len(b)
  BY <1>1
<1> HIDE DEF places, open, name
<1>4. closing = Nowhere \/ closing \in i .. Len(b)
  BY <1>3, FirstIs
<1>5. ASSUME closing \in i .. Len(b) PROVE ends \subseteq (i + 1) .. (Len(b) + 1)
  BY <1>1, <1>5
<1> HIDE DEF closing, ends
<1>6. ASSUME closing \in i .. Len(b) PROVE Past(First(ends), i, Len(b))
  BY <1>1, <1>5, <1>6, FirstPast
<1> QED
  BY <1>2, <1>4, <1>6 DEF Past

LEMMA SkipTagPast ==
    ASSUME NEW b \in Seq(Byte), NEW i \in 1 .. Len(b)
    PROVE  Past(SkipTag(b, i), i, Len(b))
<1>1. Len(b) \in Nat /\ i \in Nat
  BY LenProperties
<1>2. Past(SkipComment(b, i), i, Len(b))
  <2> DEFINE ends == {j + 2 : j \in {k \in (i + 2) .. Len(b) : ReadsAt(b, k, <<"!", ">">>)}}
  <2>1. SkipComment(b, i) = First(ends)
    BY DEF SkipComment
  <2>2. ASSUME NEW k \in (i + 2) .. Len(b), ReadsAt(b, k, <<"!", ">">>) PROVE k + 2 \in (i + 1) .. (Len(b) + 1)
    <3>1. k + Len(<<"!", ">">>) - 1 <= Len(b)
      BY <2>2 DEF ReadsAt
    <3>2. Len(<<"!", ">">>) = 2
      OBVIOUS
    <3> QED
      BY <1>1, <2>2, <3>1, <3>2
  <2>3. ends \subseteq (i + 1) .. (Len(b) + 1)
    BY <2>2
  <2> HIDE DEF ends
  <2> QED
    BY <1>1, <2>1, <2>3, FirstPast
<1>3. Past(First({j + 1 : j \in {k \in (i + 1) .. Len(b) : b[k] = ">" /\ ~ Quoted(b, i, k)}}), i, Len(b))
  <2> DEFINE ends == {j + 1 : j \in {k \in (i + 1) .. Len(b) : b[k] = ">" /\ ~ Quoted(b, i, k)}}
  <2>1. ends \subseteq (i + 1) .. (Len(b) + 1)
    BY <1>1
  <2> HIDE DEF ends
  <2>2. Past(First(ends), i, Len(b))
    BY <1>1, <2>1, FirstPast
  <2> QED
    BY <2>2 DEF ends
<1> QED
  BY <1>2, <1>3 DEF SkipTag

LEMMA DecodeEntityIs ==
    ASSUME NEW b \in Seq(Byte), NEW i \in 1 .. Len(b), DecodeEntity(b, i) # Nowhere
    PROVE  \E d \in Seq(Byte) \ {<<>>}, x \in (i + 1) .. (Len(b) + 1) :
               DecodeEntity(b, i) = [decoded |-> d, end |-> x]
<1>1. Len(b) \in Nat /\ i \in Nat
  BY LenProperties
<1> DEFINE places == {j \in (i + 1) .. Len(b) :
                         /\ j < i + MaxEntityLen
                         /\ b[j] \in SpaceByte \cup {"&", ";"}}
           end == First(places)
           ref == IF end = Nowhere THEN <<>> ELSE SubSeq(b, i, end)
<1>2. DecodeEntity(b, i) = IF ref \in DOMAIN Unescape /\ Last(Unescape[ref]) # ";"
                           THEN [decoded |-> Unescape[ref], end |-> end + 1] ELSE Nowhere
  BY DEF DecodeEntity
<1>3. places \in SUBSET Nat /\ \A j \in places : j \in (i + 1) .. Len(b)
  <2> DEFINE after == (i + 1) .. Len(b)
  <2>1. after \in SUBSET Nat
    BY <1>1
  <2> HIDE DEF after
  <2>2. places \subseteq after
    BY Zenon DEF after
  <2>3. places \in SUBSET Nat /\ \A j \in places : j \in after
    BY <2>1, <2>2
  <2> QED
    BY <2>3 DEF after
<1> HIDE DEF places
<1>4. end = Nowhere \/ end \in (i + 1) .. Len(b)
  BY <1>3, FirstIs
<1> HIDE DEF end
<1>5. ref \in DOMAIN Unescape /\ DecodeEntity(b, i) = [decoded |-> Unescape[ref], end |-> end + 1]
  BY <1>2
<1>6. ref # <<>> /\ Unescape[ref] \in Seq(Byte) \ {<<>>}
  BY <1>5, EvidenceAssumption DEF EvidenceAssumption
<1>7. end \in (i + 1) .. Len(b)
  BY <1>4, <1>6
<1>8. end + 1 \in (i + 1) .. (Len(b) + 1)
  BY <1>1, <1>7
<1> QED
  BY <1>5, <1>6, <1>8


\* What stands at position i of a body of n bytes.
Led(t, i, n) ==
    /\ t \in Seq(Token(n)) /\ t # <<>>
    /\ \A k \in 1 .. Len(t) : t[k].from = i
    /\ t[1].to \in (i + 1) .. (n + 1)

LEMMA TokenIs ==
    ASSUME NEW n \in Nat, NEW i \in 1 .. n, NEW x \in (i + 1) .. (n + 1), NEW c \in Seq(Byte), c # <<>>
    PROVE  \A t : t = [char |-> c, from |-> i, to |-> x] => t \in Token(n) /\ t.from = i /\ t.to = x
<1> SUFFICES ASSUME NEW t, t = [char |-> c, from |-> i, to |-> x]
             PROVE  t \in Token(n) /\ t.from = i /\ t.to = x
  OBVIOUS
<1>1. x \in 1 .. (n + 1) /\ i < x
  OBVIOUS
<1>2. t \in [char : Seq(Byte), from : 1 .. n, to : 1 .. (n + 1)]
  BY <1>1
<1>3. t.char = c /\ t.from = i /\ t.to = x
  OBVIOUS
<1> QED
  BY <1>1, <1>2, <1>3 DEF Token

LEMMA OneTokenLeads ==
    ASSUME NEW n \in Nat, NEW i \in 1 .. n, NEW t \in Token(n), t.from = i, t.to \in (i + 1) .. (n + 1)
    PROVE  Led(<<t>>, i, n)
<1>1. <<t>> \in Seq(Token(n)) /\ <<t>> # <<>> /\ Len(<<t>>) = 1 /\ <<t>>[1] = t
  BY SingletonIs
<1> QED
  BY <1>1 DEF Led

LEMMA BlankLeads ==
    ASSUME NEW n \in Nat, NEW i \in 1 .. n, NEW x, x # Nowhere, Past(x, i, n)
    PROVE  Led(<<[char |-> Blank, from |-> i, to |-> x]>>, i, n)
<1>1. Blank \in Seq(Byte) /\ Blank # <<>>
  BY EvidenceAssumption, SingletonIs DEF EvidenceAssumption, Blank
<1>2. x \in (i + 1) .. (n + 1)
  BY DEF Past
<1>3. PICK t : t = [char |-> Blank, from |-> i, to |-> x]
  OBVIOUS
<1>4. t \in Token(n) /\ t.from = i /\ t.to = x
  BY <1>1, <1>2, <1>3, TokenIs
<1> QED
  BY <1>2, <1>3, <1>4, OneTokenLeads

LEMMA EntityLeads ==
    ASSUME NEW n \in Nat, NEW i \in 1 .. n, NEW x \in (i + 1) .. (n + 1),
           NEW d \in Seq(Byte), d # <<>>
    PROVE  Led([k \in DOMAIN Runes(d) |-> [char |-> Runes(d)[k].char, from |-> i, to |-> x]], i, n)
<1>1. PICK r : r = Runes(d)
  OBVIOUS
<1>2. PICK m : m = Len(r)
  OBVIOUS
<1>3. r \in Seq(Token(Len(d))) /\ r # <<>>
  BY <1>1, RunesIs
<1>4. m \in Nat /\ m # 0 /\ DOMAIN r = 1 .. m
  BY <1>2, <1>3, LenProperties
<1>5. PICK t : t = [k \in 1 .. m |-> [char |-> r[k].char, from |-> i, to |-> x]]
  OBVIOUS
<1>6. ASSUME NEW k \in 1 .. m PROVE t[k] \in Token(n) /\ t[k].from = i /\ t[k].to = x
  <2>1. r[k] \in Token(Len(d))
    BY <1>2, <1>3, <1>6, ElementOfSeq
  <2>2. PICK c : c = r[k].char
    OBVIOUS
  <2>3. c \in Seq(Byte) /\ c # <<>>
    BY <2>1, <2>2 DEF Token
  <2>4. t[k] = [char |-> c, from |-> i, to |-> x]
    BY <1>5, <1>6, <2>2
  <2> QED
    BY <2>3, <2>4, TokenIs
<1>7. DOMAIN t = 1 .. m
  BY <1>5
<1>8. t \in [1 .. m -> Token(n)]
  BY <1>5, <1>6
<1>9. t \in Seq(Token(n)) /\ Len(t) = m
  BY <1>4, <1>8
<1>10. t # <<>>
  BY <1>4, <1>9
<1>11. Led(t, i, n)
  BY <1>4, <1>6, <1>9, <1>10 DEF Led
<1> QED
  BY <1>1, <1>4, <1>5, <1>11

LEMMA TokensLead ==
    ASSUME NEW b \in Seq(Byte), NEW i \in 1 .. Len(b), NEW strip
    PROVE  Led(Tokens(b, i, strip), i, Len(b))
<1>1. PICK n : n = Len(b)
  OBVIOUS
<1>2. n \in Nat /\ i \in 1 .. n
  BY <1>1, LenProperties
<1> DEFINE element == IF strip /\ b[i] = "<" THEN SkipElement(b, i) ELSE Nowhere
           tag == IF strip /\ b[i] = "<" /\ element = Nowhere THEN SkipTag(b, i) ELSE Nowhere
           entity == IF b[i] = "&" THEN DecodeEntity(b, i) ELSE Nowhere
           letters == [k \in DOMAIN Runes(entity.decoded) |->
                          [char |-> Runes(entity.decoded)[k].char, from |-> i, to |-> entity.end]]
<1>3. Past(element, i, n)
  BY <1>1, SkipElementPast DEF Past
<1>4. Past(tag, i, n)
  BY <1>1, SkipTagPast DEF Past
<1>5. ASSUME entity # Nowhere PROVE Led(letters, i, n)
  <2>1. DecodeEntity(b, i) # Nowhere /\ entity = DecodeEntity(b, i)
    BY <1>5
  <2>2. PICK d \in Seq(Byte) \ {<<>>}, x \in (i + 1) .. (Len(b) + 1) :
            DecodeEntity(b, i) = [decoded |-> d, end |-> x]
    BY <2>1, DecodeEntityIs
  <2>3. entity.decoded = d /\ entity.end = x
    BY <2>1, <2>2
  <2> HIDE DEF entity
  <2>4. d \in Seq(Byte) /\ d # <<>> /\ x \in (i + 1) .. (n + 1)
    BY <1>1, <2>2
  <2>5. Led([k \in DOMAIN Runes(d) |-> [char |-> Runes(d)[k].char, from |-> i, to |-> x]], i, n)
    BY <1>2, <2>4, EntityLeads
  <2> QED
    BY <2>3, <2>5
<1>6. Led(<<Char(b, i)>>, i, n)
  BY <1>1, <1>2, CharIs, OneTokenLeads
<1>7. Tokens(b, i, strip) =
         CASE element # Nowhere -> <<[char |-> Blank, from |-> i, to |-> element]>>
           [] element = Nowhere /\ tag # Nowhere -> <<[char |-> Blank, from |-> i, to |-> tag]>>
           [] tag = Nowhere /\ element = Nowhere /\ entity # Nowhere -> letters
           [] OTHER -> <<Char(b, i)>>
  BY Zenon DEF Tokens
<1> HIDE DEF element, tag, entity, letters
<1>8. CASE element # Nowhere
  <2>1. Tokens(b, i, strip) = <<[char |-> Blank, from |-> i, to |-> element]>>
    BY <1>7, <1>8
  <2> QED
    BY <1>1, <1>2, <1>3, <1>8, <2>1, BlankLeads
<1>9. CASE element = Nowhere /\ tag # Nowhere
  <2>1. Tokens(b, i, strip) = <<[char |-> Blank, from |-> i, to |-> tag]>>
    BY <1>7, <1>9
  <2> QED
    BY <1>1, <1>2, <1>4, <1>9, <2>1, BlankLeads
<1>10. CASE element = Nowhere /\ tag = Nowhere /\ entity # Nowhere
  <2>1. Tokens(b, i, strip) = letters
    BY <1>7, <1>10
  <2> QED
    BY <1>1, <1>5, <1>10, <2>1
<1>11. CASE element = Nowhere /\ tag = Nowhere /\ entity = Nowhere
  <2>1. Tokens(b, i, strip) = <<Char(b, i)>>
    BY <1>7, <1>11
  <2> QED
    BY <1>1, <1>6, <2>1
<1> QED
  BY <1>8, <1>9, <1>10, <1>11


\* The rendered bytes from the i-th to the j-th come from a range of the n bytes.
Faithful(p, n) ==
    /\ p.norm \in Seq(Byte)
    /\ \A i, j \in 1 .. Len(p.norm) :
           i <= j => p.starts[i] \in 1 .. n /\ p.ends[j] \in (p.starts[i] + 1) .. (n + 1)

LEMMA WalkedTokens ==
    ASSUME NEW b \in Seq(Byte), NEW strip
    PROVE  /\ Walk(b, [i \in DOMAIN b |-> Tokens(b, i, strip)]) \in Seq(Token(Len(b)))
           /\ Ascending(Walk(b, [i \in DOMAIN b |-> Tokens(b, i, strip)]))
<1>1. PICK n : n = Len(b)
  OBVIOUS
<1>2. n \in Nat /\ DOMAIN b = 1 .. n
  BY <1>1, LenProperties
<1>3. PICK tokens : tokens = [i \in DOMAIN b |-> Tokens(b, i, strip)]
  OBVIOUS
<1>4. \A i \in 1 .. n : Led(tokens[i], i, n)
  BY <1>1, <1>2, <1>3, TokensLead
<1>5. \A i \in 1 .. n : Leads(tokens, i, n)
  BY <1>4, Zenon DEF Led, Leads
<1>6. tokens \in [1 .. n -> Seq(Token(n))]
  BY <1>2, <1>3, <1>4 DEF Led
<1>7. \A t \in Token(n) : t.from \in Nat
  BY DEF Token
<1>8. Walk(b, tokens) \in Seq(Token(n)) /\ Ascending(Walk(b, tokens))
  BY <1>1, <1>2, <1>5, <1>6, <1>7, WalkAscends
<1> QED
  BY <1>1, <1>3, <1>8

LEMMA ProjectionIs ==
    ASSUME NEW b \in Seq(Byte), NEW strip
    PROVE  Faithful(BuildProjection(b, strip), Len(b))
<1>1. PICK n : n = Len(b)
  OBVIOUS
<1>2. n \in Nat
  BY <1>1, LenProperties
<1>3. PICK ts : ts = Walk(b, [i \in DOMAIN b |-> Tokens(b, i, strip)])
  OBVIOUS
<1>4. ts \in Seq(Token(n)) /\ Ascending(ts)
  BY <1>1, <1>3, WalkedTokens
<1>5. PICK out : out = Collapse(ts)
  OBVIOUS
<1>6. out \in Seq(Token(n)) /\ Ascending(out)
  BY <1>2, <1>4, <1>5, CollapseAscends
<1>7. PICK marks : marks = FlattenSeq([k \in DOMAIN out |-> [m \in DOMAIN out[k].char |->
                       [byte |-> out[k].char[m], from |-> out[k].from, to |-> out[k].to]]])
  OBVIOUS
<1>8. marks \in Seq(Mark(n)) /\ Ascending(marks)
  BY <1>2, <1>6, <1>7, MarksAscend
<1>9. PICK p : p = [norm |-> [m \in DOMAIN marks |-> marks[m].byte],
                    starts |-> [m \in DOMAIN marks |-> marks[m].from],
                    ends |-> [m \in DOMAIN marks |-> marks[m].to]]
  OBVIOUS
<1>10. BuildProjection(b, strip) = p
  BY <1>3, <1>5, <1>7, <1>9, Zenon DEF BuildProjection
<1>11. PICK l : l = Len(marks)
  OBVIOUS
<1>12. l \in Nat /\ DOMAIN marks = 1 .. l /\ \A m \in 1 .. l : marks[m] \in Mark(n)
  BY <1>8, <1>11, LenProperties, ElementOfSeq
<1>13. /\ p.norm = [m \in 1 .. l |-> marks[m].byte] /\ p.starts = [m \in 1 .. l |-> marks[m].from]
       /\ p.ends = [m \in 1 .. l |-> marks[m].to]
  BY <1>9, <1>12
<1>14. p.norm \in Seq(Byte) /\ Len(p.norm) = l
  <2>1. \A m \in 1 .. l : marks[m].byte \in Byte
    BY <1>12 DEF Mark
  <2>2. p.norm \in [1 .. l -> Byte]
    BY <1>13, <2>1
  <2> QED
    BY <1>12, <2>2
<1>15. ASSUME NEW i \in 1 .. l, NEW j \in 1 .. l, i <= j
       PROVE  p.starts[i] \in 1 .. n /\ p.ends[j] \in (p.starts[i] + 1) .. (n + 1)
  <2>1. /\ marks[i].from \in 1 .. n /\ marks[j].from \in 1 .. n
        /\ marks[j].to \in 1 .. (n + 1) /\ marks[j].from < marks[j].to
    BY <1>12, <1>15 DEF Mark
  <2>2. marks[i].from <= marks[j].from
    BY <1>8, <1>11, <1>15 DEF Ascending
  <2>3. p.starts[i] = marks[i].from /\ p.ends[j] = marks[j].to
    BY <1>13, <1>15
  <2>4. PICK x, y, z : x = marks[i].from /\ y = marks[j].from /\ z = marks[j].to
    OBVIOUS
  <2>5. x \in 1 .. n /\ y \in 1 .. n /\ z \in 1 .. (n + 1) /\ y < z /\ x <= y
    BY <2>1, <2>2, <2>4
  <2>6. z \in (x + 1) .. (n + 1)
    BY <1>2, <2>5
  <2> QED
    BY <2>3, <2>4, <2>5, <2>6
<1>16. Faithful(p, n)
  BY <1>14, <1>15 DEF Faithful
<1> QED
  BY <1>1, <1>10, <1>16

LEMMA BytesIs ==
    ASSUME NEW n, NEW ts \in Seq(Token(n))
    PROVE  Bytes(ts) \in Seq(Byte)
<1>1. PICK l : l = Len(ts)
  OBVIOUS
<1>2. l \in Nat /\ DOMAIN ts = 1 .. l /\ \A k \in 1 .. l : ts[k] \in Token(n)
  BY <1>1, LenProperties, ElementOfSeq
<1>3. PICK seqs : seqs = [k \in DOMAIN ts |-> ts[k].char]
  OBVIOUS
<1>4. seqs \in [1 .. l -> Seq(Byte)]
  BY <1>2, <1>3 DEF Token
<1>5. FlattenSeq(seqs) \in Seq(Byte)
  BY <1>2, <1>4, FlattenedIn
<1> QED
  BY <1>3, <1>5 DEF Bytes

LEMMA NormalisedIs ==
    ASSUME NEW b \in Seq(Byte)
    PROVE  NormaliseSpace(b) \in Seq(Byte)
<1>1. PICK n : n = Len(b)
  OBVIOUS
<1>2. n \in Nat /\ Runes(b) \in Seq(Token(n)) /\ Ascending(Runes(b))
  BY <1>1, RunesIs, LenProperties
<1>3. Collapse(Runes(b)) \in Seq(Token(n))
  BY <1>2, CollapseAscends
<1> QED
  BY <1>3, BytesIs DEF NormaliseSpace


LEMMA AlignedIs ==
    ASSUME NEW b \in Seq(Byte), NEW needle \in Seq(Byte), needle # <<>>, NEW x,
           x = IndexAligned(b, needle), x # Nowhere
    PROVE  /\ x \in 1 .. Len(b) /\ x + Len(needle) \in (x + 1) .. (Len(b) + 1)
           /\ SubSeq(b, x, x + Len(needle) - 1) = needle /\ RuneStart(b[x])
<1>1. PICK n, m : n = Len(b) /\ m = Len(needle)
  OBVIOUS
<1>2. n \in Nat /\ m \in Nat /\ m # 0
  BY <1>1, LenProperties, EmptySeq
<1>3. PICK places : places = {i \in 1 .. (n - m + 1) : ReadsAt(b, i, needle) /\ RuneAligned(b, i, m)}
  OBVIOUS
<1>4. x = First(places)
  BY <1>1, <1>3, Zenon DEF IndexAligned
<1>5. places \in SUBSET Nat
  BY <1>2, <1>3
<1>6. x \in places
  BY <1>4, <1>5, FirstIs
<1>7. x \in 1 .. (n - m + 1) /\ ReadsAt(b, x, needle) /\ RuneAligned(b, x, m)
  BY <1>3, <1>6, Zenon
<1>8. x \in 1 .. n /\ x + m \in (x + 1) .. (n + 1)
  BY <1>2, <1>7
<1>9. SubSeq(b, x, x + m - 1) = needle /\ RuneStart(b[x])
  BY <1>1, <1>7, Zenon DEF ReadsAt, RuneAligned
<1> QED
  BY <1>1, <1>8, <1>9

LEMMA AlignedFound ==
    ASSUME NEW b \in Seq(Byte), NEW i \in 1 .. Len(b), NEW j \in i .. Len(b),
           RuneStart(b[i]), j < Len(b) => RuneStart(b[j + 1])
    PROVE  IndexAligned(b, SubSeq(b, i, j)) # Nowhere
<1>1. PICK n, needle, m : n = Len(b) /\ needle = SubSeq(b, i, j) /\ m = Len(needle)
  OBVIOUS
<1>2. n \in Nat /\ i \in 1 .. n /\ j \in i .. n
  BY <1>1, LenProperties
<1>3. m = j - i + 1
  BY <1>1, PartIs
<1>4. i + m - 1 = j /\ i + m = j + 1 /\ i \in 1 .. (n - m + 1) /\ j <= n
  BY <1>2, <1>3
<1>5. ReadsAt(b, i, needle)
  BY <1>1, <1>4 DEF ReadsAt
<1>6. RuneAligned(b, i, m)
  <2>1. i + m <= n => RuneStart(b[i + m])
    <3>1. j + 1 <= n => j < n
      BY <1>2
    <3> QED
      BY <1>1, <1>4, <3>1
  <2> QED
    BY <1>1, <2>1 DEF RuneAligned
<1>7. PICK places : places = {k \in 1 .. (n - m + 1) : ReadsAt(b, k, needle) /\ RuneAligned(b, k, m)}
  OBVIOUS
<1>8. i \in places
  BY <1>4, <1>5, <1>6, <1>7, Zenon
<1>9. places \in SUBSET Nat
  BY <1>2, <1>3, <1>7
<1>10. First(places) # Nowhere
  BY <1>8, <1>9, FirstIs
<1>11. IndexAligned(b, needle) = First(places)
  BY <1>1, <1>7, Zenon DEF IndexAligned
<1> QED
  BY <1>1, <1>10, <1>11

\* A range of a body of n bytes.
Span(span, n) == \E from \in 1 .. n : \E to \in (from + 1) .. (n + 1) : span = <<from, to>>

LEMMA SourceRangeIs ==
    ASSUME NEW n \in Nat, NEW p, Faithful(p, n), NEW needle \in Seq(Byte), needle # <<>>,
           NEW i, i = IndexAligned(p.norm, needle), i # Nowhere
    PROVE  Span(SourceRange(p, i, Len(needle)), n)
<1>1. PICK m, l : m = Len(needle) /\ l = Len(p.norm)
  OBVIOUS
<1>2. p.norm \in Seq(Byte)
  BY DEF Faithful
<1>3. m \in Nat /\ m # 0 /\ l \in Nat
  BY <1>1, <1>2, LenProperties, EmptySeq
<1>4. i \in 1 .. l /\ i + m \in (i + 1) .. (l + 1)
  BY <1>1, <1>2, AlignedIs
<1>5. i + m - 1 \in 1 .. l /\ i <= i + m - 1
  BY <1>3, <1>4
<1>6. p.starts[i] \in 1 .. n /\ p.ends[i + m - 1] \in (p.starts[i] + 1) .. (n + 1)
  BY <1>1, <1>4, <1>5 DEF Faithful
<1> QED
  BY <1>1, <1>6 DEF SourceRange, Span

\* The three places a claim may be found at.
Exact(b, c) == IndexAligned(b, c)
InMarkup(b, c) == IndexAligned(BuildProjection(b, FALSE).norm, NormaliseSpace(c))
InText(b, c) == IndexAligned(BuildProjection(b, TRUE).norm, NormaliseSpace(c))

LEMMA LocateIs ==
    ASSUME NEW b \in Seq(Byte), NEW c \in Seq(Byte), c # <<>>, b # <<>>, NEW span,
           span = Locate(EvidenceIndex(b), c)
    PROVE  /\ span # Nowhere => Span(span, Len(b))
           /\ Exact(b, c) # Nowhere => span = <<Exact(b, c), Exact(b, c) + Len(c)>> /\ span # Nowhere
           /\ NormaliseSpace(c) # <<>> /\ (InMarkup(b, c) # Nowhere \/ InText(b, c) # Nowhere)
              => span # Nowhere
<1>1. PICK n, needle : n = Len(b) /\ needle = NormaliseSpace(c)
  OBVIOUS
<1>2. PICK m : m = Len(needle)
  OBVIOUS
<1>3. PICK e, k, t : e = Exact(b, c) /\ k = InMarkup(b, c) /\ t = InText(b, c)
  OBVIOUS
<1>4. PICK P, Q : P = BuildProjection(b, FALSE) /\ Q = BuildProjection(b, TRUE)
  OBVIOUS
<1>5. n \in Nat /\ needle \in Seq(Byte) /\ Faithful(P, n) /\ Faithful(Q, n)
  BY <1>1, <1>4, LenProperties, NormalisedIs, ProjectionIs
<1>6. PICK ix : ix = [body |-> b, markup |-> P, text |-> Q]
  OBVIOUS
<1>7. ix.body = b /\ ix.markup = P /\ ix.text = Q /\ ix = EvidenceIndex(b)
  BY <1>4, <1>6 DEF EvidenceIndex
<1>8. /\ e = IndexAligned(b, c)
      /\ k = IndexAligned(P.norm, needle)
      /\ t = IndexAligned(Q.norm, needle)
  BY <1>1, <1>3, <1>4 DEF Exact, InMarkup, InText
<1>9. span = CASE b = <<>> \/ c = <<>> -> Nowhere
               [] e # Nowhere -> <<e, e + Len(c)>>
               [] e = Nowhere /\ needle = <<>> -> Nowhere
               [] e = Nowhere /\ needle # <<>> /\ k # Nowhere -> SourceRange(P, k, m)
               [] e = Nowhere /\ needle # <<>> /\ k = Nowhere /\ t # Nowhere -> SourceRange(Q, t, m)
               [] OTHER -> Nowhere
  BY <1>1, <1>2, <1>7, <1>8, Zenon DEF Locate
<1>10. ASSUME NEW s, Span(s, n) PROVE s # Nowhere
  <2>0. PICK from \in 1 .. n : \E to \in (from + 1) .. (n + 1) : s = <<from, to>>
    BY <1>10 DEF Span
  <2>1. PICK to \in (from + 1) .. (n + 1) : s = <<from, to>>
    BY <2>0
  <2>2. from \in Nat /\ to \in Nat
    BY <1>5
  <2>3. s \in Nat \X Nat
    BY <2>1, <2>2
  <2> QED
    BY <2>3, EvidenceAssumption, Zenon DEF EvidenceAssumption
<1>11. CASE e # Nowhere
  <2>1. span = <<e, e + Len(c)>>
    BY <1>9, <1>11
  <2>2. e \in 1 .. n /\ e + Len(c) \in (e + 1) .. (n + 1)
    BY <1>1, <1>8, <1>11, AlignedIs
  <2>3. Span(span, n)
    BY <2>1, <2>2 DEF Span
  <2> QED
    BY <1>1, <1>3, <1>10, <2>1, <2>3
<1>12. CASE e = Nowhere /\ needle # <<>> /\ k # Nowhere
  <2>1. span = SourceRange(P, k, m)
    BY <1>9, <1>12
  <2>2. Span(span, n)
    BY <1>2, <1>5, <1>8, <1>12, <2>1, SourceRangeIs
  <2> QED
    BY <1>1, <1>3, <1>10, <1>12, <2>2
<1>13. CASE e = Nowhere /\ needle # <<>> /\ k = Nowhere /\ t # Nowhere
  <2>1. span = SourceRange(Q, t, m)
    BY <1>9, <1>13
  <2>2. Span(span, n)
    BY <1>2, <1>5, <1>8, <1>13, <2>1, SourceRangeIs
  <2> QED
    BY <1>1, <1>3, <1>10, <1>13, <2>2
<1>14. CASE e = Nowhere /\ (needle = <<>> \/ (k = Nowhere /\ t = Nowhere))
  <2>1. span = Nowhere
    BY <1>9, <1>14
  <2> QED
    BY <1>1, <1>3, <1>14, <2>1
<1> QED
  BY <1>11, <1>12, <1>13, <1>14


\* The searches for a claim that settle whether it is found.
LEMMA ReadingIs ==
    ASSUME NEW b \in Seq(Byte), NEW c \in Readings(b)
    PROVE  c \in Seq(Byte) /\ c # <<>> /\ b # <<>> /\ IndexAligned(b, c) # Nowhere
<1>1. PICK n : n = Len(b)
  OBVIOUS
<1>2. n \in Nat
  BY <1>1, LenProperties
<1>3. PICK r \in {q \in (1 .. n) \X (1 .. n) : q[1] <= q[2] /\ Whole(b, q[1], q[2])} :
          c = SubSeq(b, r[1], r[2])
  BY <1>1, Zenon DEF Readings
<1>4. PICK i, j : i = r[1] /\ j = r[2]
  OBVIOUS
<1>5. i \in 1 .. n /\ j \in 1 .. n /\ i <= j /\ Whole(b, i, j) /\ c = SubSeq(b, i, j)
  BY <1>3, <1>4
<1>6. i \in 1 .. Len(b) /\ j \in i .. Len(b)
  BY <1>1, <1>2, <1>5
<1>7. c \in Seq(Byte) /\ c # <<>>
  BY <1>5, <1>6, PartIs
<1>8. RuneStart(b[i]) /\ (j < Len(b) => RuneStart(b[j + 1]))
  BY <1>5, Zenon DEF Whole
<1>9. IndexAligned(b, c) # Nowhere
  BY <1>5, <1>6, <1>8, AlignedFound
<1>10. b # <<>>
  BY <1>1, <1>5
<1> QED
  BY <1>7, <1>9, <1>10

LEMMA RunIs ==
    ASSUME NEW b \in Seq(Byte), NEW c \in Runs(b)
    PROVE  c \in Seq(Byte) /\ c # <<>> /\ b # <<>>
<1>1. PICK n : n = Len(b)
  OBVIOUS
<1>2. n \in Nat
  BY <1>1, LenProperties
<1>3. PICK i \in 1 .. Len(b), j \in 1 .. Len(b) : c = SubSeq(b, i, j)
  <2> DEFINE places == 1 .. Len(b)
             parts == {SubSeq(b, i, j) : i, j \in places}
  <2>1. c \in parts
    BY SMT DEF Runs
  <2> HIDE DEF places
  <2>2. \E i, j \in places : c = SubSeq(b, i, j)
    BY <2>1, SMT
  <2> QED
    BY <2>2, Zenon DEF places
<1>4. \A k \in i .. j : b[k] \in Byte
  <2> TAKE k \in i .. j
  <2>1. k \in 1 .. Len(b)
    BY <1>1, <1>2, <1>3
  <2> QED
    BY <2>1, ElementOfSeq
<1>5. c \in Seq(Byte)
  BY <1>3, <1>4, SubSeqProperties
<1>6. b # <<>>
  BY <1>1, <1>3
<1> QED
  BY <1>5, <1>6 DEF Runs

LEMMA NotEmpty ==
    ASSUME NEW b \in Seq(Byte), NEW strip, BuildProjection(b, strip).norm # <<>>
    PROVE  b # <<>>
<1>1. PICK p : p = BuildProjection(b, strip)
  OBVIOUS
<1>2. Faithful(p, Len(b)) /\ p.norm # <<>>
  BY <1>1, ProjectionIs
<1>3. Len(p.norm) \in Nat /\ Len(p.norm) # 0
  BY <1>2, LenProperties, EmptySeq DEF Faithful
<1>4. 1 \in 1 .. Len(p.norm)
  BY <1>3
<1>5. p.starts[1] \in 1 .. Len(b)
  BY <1>2, <1>4 DEF Faithful
<1> QED
  BY <1>5

LEMMA GroundIs ==
    ASSUME NEW ix, NEW c, NEW span, span = Locate(ix, c)
    PROVE  /\ Ground(ix, Unchecked, c).validated <=> span # Nowhere
           /\ span # Nowhere => Ground(ix, Unchecked, c).evidence = span
<1>1. CASE span = Nowhere
  <2>1. Ground(ix, Unchecked, c).validated = FALSE
    BY <1>1 DEF Ground, Unchecked
  <2> QED
    BY <1>1, <2>1
<1>2. CASE span # Nowhere
  <2>1. Ground(ix, Unchecked, c) = [Unchecked EXCEPT !.evidence = span, !.validated = TRUE, !.unsupported = FALSE]
    BY <1>2 DEF Ground
  <2>2. Ground(ix, Unchecked, c).validated = TRUE /\ Ground(ix, Unchecked, c).evidence = span
    BY <2>1 DEF Unchecked
  <2> QED
    BY <1>2, <2>2
<1> QED
  BY <1>1, <1>2

\* A claim of bytes the page has is found in itself, from end to end.
LEMMA FoundInItself ==
    ASSUME NEW c \in Seq(Byte), c # <<>>, RuneStart(c[1])
    PROVE  Locate(EvidenceIndex(c), c) = <<1, Len(c) + 1>>
<1>1. PICK n, x : n = Len(c) /\ x = Exact(c, c)
  OBVIOUS
<1>2. n \in Nat /\ n # 0
  BY <1>1, LenProperties, EmptySeq
<1>3. 1 \in 1 .. Len(c) /\ n \in 1 .. Len(c) /\ ~ (n < Len(c))
  BY <1>1, <1>2
<1>4. SubSeq(c, 1, n) = c
  <2>1. \A k \in 1 .. n : c[k] \in Byte
    BY <1>1, ElementOfSeq
  <2>2. PICK d : d = SubSeq(c, 1, n)
    OBVIOUS
  <2>3. /\ d \in Seq(Byte) /\ Len(d) = (IF 1 <= n THEN n - 1 + 1 ELSE 0)
        /\ \A k \in 1 .. n - 1 + 1 : d[k] = c[1 + k - 1]
    BY <1>2, <2>1, <2>2, SubSeqProperties
  <2>4. Len(d) = n
    BY <1>2, <2>3
  <2>5. \A k \in 1 .. n : k \in 1 .. n - 1 + 1 /\ 1 + k - 1 = k
    BY <1>2
  <2>6. \A k \in 1 .. n : d[k] = c[k]
    BY <2>3, <2>5
  <2> QED
    BY <1>1, <2>2, <2>3, <2>4, <2>6, SeqEqual
<1>5. IndexAligned(c, SubSeq(c, 1, n)) # Nowhere
  BY <1>3, AlignedFound
<1>6. x # Nowhere /\ x = IndexAligned(c, c)
  BY <1>1, <1>4, <1>5 DEF Exact
<1>7. x \in 1 .. n /\ x + n \in (x + 1) .. (n + 1)
  BY <1>1, <1>6, AlignedIs
<1>8. x = 1 /\ x + n = n + 1
  BY <1>2, <1>7
<1>9. Locate(EvidenceIndex(c), c) = <<x, x + n>>
  BY <1>1, <1>6, LocateIs
<1> QED
  BY <1>1, <1>8, <1>9


\* The index kept is that of some body.
IndexInv == \E b \in Seq(Byte) : index = EvidenceIndex(b)

LEMMA SourceIs ==
    ASSUME NEW fragments \in Seq(Fragment)
    PROVE  Source(fragments) \in Seq(Byte)
<1>1. PICK l : l = Len(fragments)
  OBVIOUS
<1>2. l \in Nat /\ DOMAIN fragments = 1 .. l /\ \A k \in 1 .. l : fragments[k] \in Fragment
  BY <1>1, LenProperties, ElementOfSeq
<1>3. PICK seqs : seqs = [k \in DOMAIN fragments |-> fragments[k].source]
  OBVIOUS
<1>4. seqs \in [1 .. l -> Seq(Byte)]
  BY <1>2, <1>3, EvidenceAssumption DEF EvidenceAssumption
<1>5. FlattenSeq(seqs) \in Seq(Byte)
  BY <1>2, <1>4, FlattenedIn
<1> QED
  BY <1>3, <1>5 DEF Source

LEMMA ReadingsFound ==
    ASSUME NEW b \in Seq(Byte), index = EvidenceIndex(b)
    PROVE  ReadingsAreGrounded
<1>1. PICK P, Q : P = BuildProjection(b, FALSE) /\ Q = BuildProjection(b, TRUE)
  OBVIOUS
<1>2. index.body = b /\ index.markup = P /\ index.text = Q
  BY <1>1 DEF EvidenceIndex
<1>3. ASSUME NEW c \in Readings(b) PROVE IsValid(c)
  <2>1. c \in Seq(Byte) /\ c # <<>> /\ b # <<>> /\ Exact(b, c) # Nowhere
    BY <1>3, ReadingIs DEF Exact
  <2>2. Locate(index, c) # Nowhere
    BY <2>1, LocateIs
  <2> QED
    BY <2>2, GroundIs DEF IsValid
<1>4. ASSUME NEW strip \in BOOLEAN, NEW c \in Readings(BuildProjection(b, strip).norm), NormaliseSpace(c) = c
      PROVE  IsValid(c)
  <2>1. PICK p : p = BuildProjection(b, strip)
    OBVIOUS
  <2>2. p.norm \in Seq(Byte)
    BY <2>1, ProjectionIs DEF Faithful
  <2>3. c \in Seq(Byte) /\ c # <<>> /\ p.norm # <<>> /\ IndexAligned(p.norm, c) # Nowhere
    BY <1>4, <2>1, <2>2, ReadingIs
  <2>4. b # <<>>
    BY <2>1, <2>3, NotEmpty
  <2>5. InMarkup(b, c) # Nowhere \/ InText(b, c) # Nowhere
    <3>1. CASE strip = FALSE
      BY <1>4, <2>1, <2>3, <3>1 DEF InMarkup
    <3>2. CASE strip = TRUE
      BY <1>4, <2>1, <2>3, <3>2 DEF InText
    <3> QED
      BY <3>1, <3>2
  <2>6. NormaliseSpace(c) # <<>>
    BY <1>4, <2>3
  <2>7. Locate(index, c) # Nowhere
    BY <2>3, <2>4, <2>5, <2>6, LocateIs
  <2> QED
    BY <2>7, GroundIs DEF IsValid
<1>5. ASSUME NEW c \in Readings(index.body) \cup Trimmed(UNION {Readings(p) : p \in Rendered})
      PROVE  IsValid(c)
  <2>1. CASE c \in Readings(index.body)
    BY <1>2, <1>3, <2>1
  <2>2. CASE c \in Trimmed(UNION {Readings(p) : p \in Rendered})
    <3>1. c \in UNION {Readings(p) : p \in Rendered} /\ NormaliseSpace(c) = c
      BY <2>2, Zenon DEF Trimmed
    <3>2. PICK p \in Rendered : c \in Readings(p)
      BY <3>1, Zenon
    <3>3. p = BuildProjection(b, FALSE).norm \/ p = BuildProjection(b, TRUE).norm
      BY <1>1, <1>2, <3>2, Zenon DEF Rendered
    <3> QED
      BY <1>4, <3>1, <3>2, <3>3
  <2> QED
    BY <1>5, <2>1, <2>2, Zenon
<1> QED
  BY <1>5, Zenon DEF ReadingsAreGrounded

\* The bytes of the page read as the claim.
Verbatim(citation) == IndexAligned(index.body, citation.claimed) # Nowhere

LEMMA ClaimIs ==
    ASSUME NEW b \in Seq(Byte), index = EvidenceIndex(b), NEW c \in Claims
    PROVE  c \in Seq(Byte) /\ c # <<>> /\ b # <<>>
<1>1. PICK P, Q : P = BuildProjection(b, FALSE) /\ Q = BuildProjection(b, TRUE)
  OBVIOUS
<1>2. index.body = b /\ index.markup = P /\ index.text = Q
  BY <1>1 DEF EvidenceIndex
<1>3. CASE c \in Runs(b)
  BY <1>3, RunIs
<1>4. ASSUME NEW strip \in BOOLEAN, c \in Runs(BuildProjection(b, strip).norm)
      PROVE  c \in Seq(Byte) /\ c # <<>> /\ b # <<>>
  <2>1. PICK p : p = BuildProjection(b, strip)
    OBVIOUS
  <2>2. p.norm \in Seq(Byte)
    BY <2>1, ProjectionIs DEF Faithful
  <2>3. c \in Seq(Byte) /\ c # <<>> /\ p.norm # <<>>
    BY <1>4, <2>1, <2>2, RunIs
  <2> QED
    BY <2>1, <2>3, NotEmpty
<1>5. c \in Runs(b) \/ c \in Runs(P.norm) \/ c \in Runs(Q.norm)
  <2>1. c \in Runs(b) \/ \E p \in {P.norm, Q.norm} : c \in Runs(p)
    BY <1>2, Zenon DEF Claims, Rendered
  <2> QED
    BY <2>1, Zenon
<1> QED
  BY <1>1, <1>3, <1>4, <1>5

LEMMA CitationsGood ==
    ASSUME NEW b \in Seq(Byte), index = EvidenceIndex(b), NEW citation \in Citations(Claims)
    PROVE  LiesInPage(citation) /\ (Verbatim(citation) => StandsAlone(citation))
<1>1. index.body = b
  BY DEF EvidenceIndex
<1>2. PICK g \in Grounded(Claims) : citation = Citation(g.claimed, g.as.evidence)
  BY Zenon DEF Citations
<1>3. PICK c \in Claims : g = [claimed |-> c, as |-> Ground(index, Unchecked, c)]
  BY <1>2, Zenon DEF Grounded
<1>4. g.as.validated
  BY <1>2, Zenon DEF Grounded
<1>5. PICK span : span = Locate(index, c)
  OBVIOUS
<1>6. g.claimed = c /\ g.as = Ground(index, Unchecked, c)
  BY <1>3
<1>7. span # Nowhere /\ g.as.evidence = span
  BY <1>4, <1>5, <1>6, GroundIs
<1>8. c \in Seq(Byte) /\ c # <<>> /\ b # <<>>
  BY <1>3, ClaimIs
<1>9. citation = [claimed |-> c, span |-> span, alone |-> EvidenceIndex(Cut(b, span))]
  BY <1>1, <1>2, <1>6, <1>7, Zenon DEF Citation
<1>10. /\ Span(span, Len(b))
       /\ Exact(b, c) # Nowhere => span = <<Exact(b, c), Exact(b, c) + Len(c)>>
  BY <1>5, <1>7, <1>8, LocateIs
<1>11. LiesInPage(citation)
  <2>1. PICK from \in 1 .. Len(b) : \E to \in (from + 1) .. (Len(b) + 1) : span = <<from, to>>
    BY <1>10 DEF Span
  <2>2. PICK to \in (from + 1) .. (Len(b) + 1) : span = <<from, to>>
    BY <2>1
  <2>3. citation.span = span /\ span[1] = from /\ span[2] = to
    BY <1>9, <2>2
  <2> QED
    BY <1>1, <2>1, <2>2, <2>3 DEF LiesInPage
<1>12. ASSUME Verbatim(citation) PROVE StandsAlone(citation)
  <2>1. PICK x, m : x = Exact(b, c) /\ m = Len(c)
    OBVIOUS
  <2>2. citation.claimed = c /\ citation.alone = EvidenceIndex(Cut(b, span))
    BY <1>9
  <2>3. x # Nowhere /\ x = IndexAligned(b, c)
    BY <1>1, <1>12, <2>1, <2>2, Zenon DEF Verbatim, Exact
  <2>4. x \in 1 .. Len(b) /\ x + m \in (x + 1) .. (Len(b) + 1)
        /\ SubSeq(b, x, x + m - 1) = c /\ RuneStart(b[x])
    BY <1>8, <2>1, <2>3, AlignedIs
  <2>5. span = <<x, x + m>>
    BY <1>10, <2>1, <2>3
  <2>6. span[1] = x /\ span[2] = x + m
    BY <2>5
  <2>7. Cut(b, span) = c
    <3>1. \A i, j : span = <<i, j>> => Cut(b, span) = SubSeq(b, i, j - 1)
      <4> TAKE i, j
      <4> HAVE span = <<i, j>>
      <4>1. <<i, j>>[1] = i /\ <<i, j>>[2] = j
        OBVIOUS
      <4>2. Cut(b, <<i, j>>) = SubSeq(b, i, j - 1)
        BY <4>1 DEF Cut
      <4> QED
        BY <4>2
    <3>2. Cut(b, span) = SubSeq(b, x, (x + m) - 1)    \* "-" binds tighter than "+"
      <4>1. PICK y : y = x + m
        OBVIOUS
      <4>2. Cut(b, span) = SubSeq(b, x, y - 1)
        BY <2>5, <3>1, <4>1
      <4> QED
        BY <4>1, <4>2
    <3>3. x \in Nat /\ m \in Nat
      BY <1>8, <2>1, <2>4, LenProperties
    <3>4. (x + m) - 1 = x + m - 1
      BY <3>3
    <3> QED
      BY <2>4, <3>2, <3>4, Zenon
  <2>8. c[1] = b[x]
    <3>1. Len(b) \in Nat /\ m \in Nat
      BY <1>8, <2>1, LenProperties
    <3>2. x \in Int /\ x + m - 1 \in Int /\ 1 \in 1 .. (x + m - 1) - x + 1 /\ x + 1 - 1 = x
          /\ \A k \in x .. (x + m - 1) : k \in 1 .. Len(b)
      BY <2>4, <3>1
    <3>3. \A k \in x .. (x + m - 1) : b[k] \in Byte
      BY <3>2, ElementOfSeq
    <3>4. \A k \in 1 .. (x + m - 1) - x + 1 : SubSeq(b, x, x + m - 1)[k] = b[x + k - 1]
      BY <3>2, <3>3, SubSeqProperties
    <3>5. SubSeq(b, x, x + m - 1)[1] = b[x + 1 - 1]
      BY <3>2, <3>4
    <3> QED
      BY <2>4, <3>2, <3>5
  <2>9. citation.alone = EvidenceIndex(c) /\ citation.alone.body = c
    BY <2>2, <2>7 DEF EvidenceIndex
  <2>10. Locate(EvidenceIndex(c), c) = <<1, Len(c) + 1>> /\ RuneStart(c[1])
    BY <1>8, <2>4, <2>8, FoundInItself
  <2> QED
    BY <1>11, <2>2, <2>9, <2>10, Zenon DEF StandsAlone
<1> QED
  BY <1>11, <1>12

\* Whatever page an extractor reads: a run of whole characters of its bytes, or
\* a trimmed one of a rendering, is grounded in it (Locate, indexAligned,
\* assertion.go); what an assertion cites lies in the page; and bytes found
\* verbatim are found again in themselves, from end to end.
THEOREM ClaimsGrounded ==
    EvidenceSpec => [](/\ ReadingsAreGrounded
                       /\ \A citation \in Citations(Claims) :
                              LiesInPage(citation) /\ (Verbatim(citation) => StandsAlone(citation)))
<1> DEFINE PageInv == page \in Seq(Fragment) /\ IndexInv
<1>1. InitPage => PageInv
  <2>1. \A S : <<>> \in Seq(S)
    OBVIOUS
  <2>2. InitPage => page \in Seq(Fragment)
    BY <2>1, Zenon DEF InitPage
  <2>3. InitPage => IndexInv
    BY <2>1, Zenon DEF InitPage, IndexInv
  <2> QED
    BY <2>2, <2>3
<1>2. PageInv /\ [Grow]_<<page, index>> => PageInv'
  <2> SUFFICES ASSUME PageInv, [Grow]_<<page, index>> PROVE PageInv'
    OBVIOUS
  <2>1. CASE Grow
    <3>1. PICK f \in Fragment : page' = Append(page, f)
      BY <2>1 DEF Grow
    <3>2. page' \in Seq(Fragment)
      BY <3>1, AppendProperties
    <3>3. Source(page') \in Seq(Byte)
      BY <3>2, SourceIs
    <3>4. index' = EvidenceIndex(Source(page'))
      BY <2>1 DEF Grow
    <3> QED
      BY <3>2, <3>3, <3>4 DEF IndexInv
  <2>2. CASE UNCHANGED <<page, index>>
    BY <2>2 DEF IndexInv
  <2> QED
    BY <2>1, <2>2
<1>3. PageInv => /\ ReadingsAreGrounded
                 /\ \A citation \in Citations(Claims) :
                        LiesInPage(citation) /\ (Verbatim(citation) => StandsAlone(citation))
  <2> SUFFICES ASSUME IndexInv
               PROVE  /\ ReadingsAreGrounded
                      /\ \A citation \in Citations(Claims) :
                             LiesInPage(citation) /\ (Verbatim(citation) => StandsAlone(citation))
    OBVIOUS
  <2>1. PICK b \in Seq(Byte) : index = EvidenceIndex(b)
    BY DEF IndexInv
  <2> QED
    BY <2>1, ReadingsFound, CitationsGood
<1> QED
  BY <1>1, <1>2, <1>3, PTL DEF EvidenceSpec
=============================================================================
