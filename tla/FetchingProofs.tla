--------------------------- MODULE FetchingProofs ---------------------------
(* Proofs about what stands between a URL and its page: the limiters and   *)
(* their LRU, the robots.txt cache, the exchange under its guard, and the  *)
(* deduplicators, for any number of workers, hosts, domains, slots,        *)
(* redirects and addresses.                                                *)
EXTENDS Fetching, Dedup, SequenceTheorems, FiniteSetTheorems, WellFoundedInduction, TLAPS

Distinct(seq) == \A i, j \in DOMAIN seq : seq[i] = seq[j] => i = j

\* The limiters kept are the domains looked at last, as many as there are slots.
ListsInv ==
    /\ touched \in Seq(Domain) /\ lru \in Seq(Domain) /\ Distinct(touched)
    /\ Len(lru) <= MaxSlots /\ Len(lru) <= Len(touched)
    /\ Len(lru) < MaxSlots => Len(lru) = Len(touched)
    /\ \A k \in 1 .. Len(lru) : lru[k] = touched[k]

\* A domain asked less than Delay ago has its limiter, which will not let
\* another request pass sooner, or as many others were looked at since.
SpacedInv ==
    /\ ListsInv
    /\ wait \in [Domain -> Nat] /\ due \in [Domain -> Nat]
    /\ \A d \in Domain :
          due[d] > 0 => LongAgo(d) \/ (d \in Range(lru) /\ due[d] <= wait[d])
    /\ early = {}

-----------------------------------------------------------------------------
(* The lists. *)

\* What is moved to the front, or pushed there, comes first; what was before
\* it is one place further.
LEMMA ToFrontIs ==
    ASSUME NEW seq \in Seq(Domain), NEW d \in Domain, Distinct(seq)
    PROVE  /\ ToFront(d, seq) \in Seq(Domain) /\ ToFront(d, seq)[1] = d
           /\ d \notin Range(seq) =>
                 /\ Len(ToFront(d, seq)) = Len(seq) + 1
                 /\ \A k \in 1 .. Len(seq) : ToFront(d, seq)[k + 1] = seq[k]
           /\ \A i \in DOMAIN seq : seq[i] = d =>
                 /\ Len(ToFront(d, seq)) = Len(seq)
                 /\ \A k \in 1 .. i - 1 : ToFront(d, seq)[k + 1] = seq[k]
                 /\ \A k \in i + 1 .. Len(seq) : ToFront(d, seq)[k] = seq[k]
<1> PICK L : L = Len(seq)
  OBVIOUS
<1>0. L \in Nat /\ DOMAIN seq = 1 .. L /\ \A k \in 1 .. L : seq[k] \in Domain
  BY LenProperties, ElementOfSeq
<1>1. <<d>> \in Seq(Domain) /\ Len(<<d>>) = 1 /\ <<d>>[1] = d
  OBVIOUS
<1>2. ASSUME NEW r \in Seq(Domain), ToFront(d, seq) = <<d>> \o r
      PROVE  /\ ToFront(d, seq) \in Seq(Domain) /\ ToFront(d, seq)[1] = d
             /\ Len(ToFront(d, seq)) = Len(r) + 1 /\ Len(r) \in Nat
             /\ \A k \in 1 .. Len(r) : ToFront(d, seq)[k + 1] = r[k]
  <2>1. Len(r) \in Nat
    BY LenProperties
  <2>2. /\ <<d>> \o r \in Seq(Domain) /\ Len(<<d>> \o r) = 1 + Len(r)
        /\ \A i \in 1 .. 1 + Len(r) : (<<d>> \o r)[i] = IF i <= 1 THEN <<d>>[i] ELSE r[i - 1]
    BY <1>1, ConcatProperties
  <2>3. \A k \in 1 .. Len(r) : (<<d>> \o r)[k + 1] = r[k]
    BY <2>1, <2>2
  <2> QED
    BY <1>1, <1>2, <2>1, <2>2, <2>3
<1>3. CASE d \notin Range(seq)
  <2>1. ToFront(d, seq) = <<d>> \o seq
    BY <1>0, <1>3 DEF ToFront, RemoveFirst, Range
  <2> QED
    BY <1>0, <1>2, <1>3, <2>1 DEF Range
<1>4. CASE d \in Range(seq)
  <2>1. PICK i \in 1 .. L : seq[i] = d
    BY <1>0, <1>4 DEF Range
  <2>2. \A j \in DOMAIN seq : seq[j] = d => j = i
    BY <1>0, <2>1 DEF Distinct
  <2>3. SelectInSeq(seq, LAMBDA v : v = d) = i
    BY <1>0, <2>1, <2>2 DEF SelectInSeq, Min
  <2>4. ToFront(d, seq) = <<d>> \o (SubSeq(seq, 1, i - 1) \o SubSeq(seq, i + 1, L))
    BY <1>0, <2>1, <2>3 DEF ToFront, RemoveFirst, RemoveAt
  <2> DEFINE a == SubSeq(seq, 1, i - 1)
             b == SubSeq(seq, i + 1, L)
  <2>5. a \in Seq(Domain) /\ Len(a) = i - 1 /\ \A k \in 1 .. i - 1 : a[k] = seq[k]
    BY <1>0, <2>1, SubSeqProperties
  <2>6. b \in Seq(Domain) /\ Len(b) = L - i /\ \A k \in 1 .. L - i : b[k] = seq[i + k]
    BY <1>0, <2>1, SubSeqProperties
  <2> HIDE DEF a, b
  <2>7. /\ a \o b \in Seq(Domain) /\ Len(a \o b) = Len(a) + Len(b)
        /\ \A k \in 1 .. Len(a) + Len(b) :
              (a \o b)[k] = IF k <= Len(a) THEN a[k] ELSE b[k - Len(a)]
    BY <2>5, <2>6, ConcatProperties
  <2>a. Len(a) + Len(b) = L - 1 /\ i - 1 \in Nat /\ L - i \in Nat
    BY <1>0, <2>1, <2>5, <2>6
  <2>8. \A k \in 1 .. L - 1 : (a \o b)[k] = IF k <= i - 1 THEN seq[k] ELSE seq[k + 1]
    <3> SUFFICES ASSUME NEW k \in 1 .. L - 1
                 PROVE  (a \o b)[k] = IF k <= i - 1 THEN seq[k] ELSE seq[k + 1]
      OBVIOUS
    <3>1. CASE k <= i - 1
      BY <1>0, <2>1, <2>5, <2>7, <2>a, <3>1
    <3>2. CASE k > i - 1
      <4>1. k - (i - 1) \in 1 .. L - i /\ i + (k - (i - 1)) = k + 1 /\ ~(k <= i - 1)
        BY <1>0, <2>1, <3>2
      <4>2. b[k - (i - 1)] = seq[k + 1]
        BY <2>6, <4>1
      <4>3. (a \o b)[k] = b[k - (i - 1)]
        BY <2>5, <2>7, <2>a, <4>1
      <4> QED
        BY <4>1, <4>2, <4>3
    <3>3. k <= i - 1 \/ k > i - 1
      BY <1>0, <2>1
    <3> QED
      BY <3>1, <3>2, <3>3
  <2>b. ToFront(d, seq) = <<d>> \o (a \o b)
    BY <2>4 DEF a, b
  <2>9. /\ ToFront(d, seq) \in Seq(Domain) /\ ToFront(d, seq)[1] = d
        /\ Len(ToFront(d, seq)) = L
        /\ \A k \in 1 .. L - 1 : ToFront(d, seq)[k + 1] = (a \o b)[k]
    <3>1. Len(a \o b) = L - 1
      BY <2>7, <2>a
    <3>2. /\ ToFront(d, seq) \in Seq(Domain) /\ ToFront(d, seq)[1] = d
          /\ Len(ToFront(d, seq)) = Len(a \o b) + 1
          /\ \A k \in 1 .. Len(a \o b) : ToFront(d, seq)[k + 1] = (a \o b)[k]
      BY <1>2, <2>7, <2>b
    <3> QED
      BY <1>0, <3>1, <3>2
  <2>10. \A k \in 1 .. i - 1 : ToFront(d, seq)[k + 1] = seq[k]
    <3> SUFFICES ASSUME NEW k \in 1 .. i - 1 PROVE ToFront(d, seq)[k + 1] = seq[k]
      OBVIOUS
    <3>1. k \in 1 .. L - 1 /\ k <= i - 1
      BY <1>0, <2>1
    <3> QED
      BY <2>8, <2>9, <3>1
  <2>11. \A k \in i + 1 .. L : ToFront(d, seq)[k] = seq[k]
    <3> SUFFICES ASSUME NEW k \in i + 1 .. L PROVE ToFront(d, seq)[k] = seq[k]
      OBVIOUS
    <3>1. PICK j \in i .. L - 1 : k = j + 1
      BY <1>0, <2>1
    <3>2. j \in 1 .. L - 1 /\ ~(j <= i - 1)
      BY <1>0, <2>1
    <3> QED
      BY <2>8, <2>9, <3>1, <3>2
  <2> QED
    BY <1>4, <2>2, <2>9, <2>10, <2>11
<1> QED
  BY <1>3, <1>4

\* The same at the place of what is moved.
LEMMA ToFrontAt ==
    ASSUME NEW seq \in Seq(Domain), NEW d \in Domain, Distinct(seq),
           NEW i \in DOMAIN seq, seq[i] = d
    PROVE  /\ Len(ToFront(d, seq)) = Len(seq)
           /\ \A k \in 1 .. i - 1 : ToFront(d, seq)[k + 1] = seq[k]
           /\ \A k \in i + 1 .. Len(seq) : ToFront(d, seq)[k] = seq[k]
<1>1. \A j \in DOMAIN seq : seq[j] = d =>
          /\ Len(ToFront(d, seq)) = Len(seq)
          /\ \A k \in 1 .. j - 1 : ToFront(d, seq)[k + 1] = seq[k]
          /\ \A k \in j + 1 .. Len(seq) : ToFront(d, seq)[k] = seq[k]
  BY ToFrontIs
<1> QED
  BY <1>1, Zenon

\* Nothing comes twice, and nothing else moves towards the front.
LEMMA ToFrontKeeps ==
    ASSUME NEW seq \in Seq(Domain), NEW d \in Domain, Distinct(seq)
    PROVE  /\ Distinct(ToFront(d, seq))
           /\ Len(ToFront(d, seq)) \in {Len(seq), Len(seq) + 1}
           /\ \A p \in DOMAIN seq : seq[p] # d =>
                 \E q \in DOMAIN ToFront(d, seq) :
                     q \in {p, p + 1} /\ ToFront(d, seq)[q] = seq[p]
<1> PICK L : L = Len(seq)
  OBVIOUS
<1> PICK t \in Seq(Domain) : t = ToFront(d, seq)
  BY ToFrontIs
<1>0. L \in Nat /\ DOMAIN seq = 1 .. L /\ DOMAIN t = 1 .. Len(t) /\ Len(t) \in Nat
  BY LenProperties
<1>1. t[1] = d
  BY ToFrontIs
<1>2. CASE d \notin Range(seq)
  <2>1. Len(t) = L + 1 /\ \A k \in 1 .. L : t[k + 1] = seq[k]
    BY <1>2, ToFrontIs
  <2>2. \A k \in 1 .. L : seq[k] # d
    BY <1>0, <1>2 DEF Range
  <2>3. \A q \in DOMAIN t : q = 1 \/ \E k \in 1 .. L : q = k + 1
    <3>1. \A q \in DOMAIN t : q = 1 \/ (q - 1 \in 1 .. L /\ q = (q - 1) + 1)
      BY <1>0, <2>1
    <3> QED
      BY <3>1
  <2>4. Distinct(t)
    <3> SUFFICES ASSUME NEW a \in DOMAIN t, NEW b \in DOMAIN t, t[a] = t[b] PROVE a = b
      BY DEF Distinct
    <3>1. CASE a = 1 \/ b = 1
      BY <1>1, <2>1, <2>2, <2>3, <3>1
    <3>2. ASSUME NEW k \in 1 .. L, a = k + 1, NEW l \in 1 .. L, b = l + 1 PROVE a = b
      <4>1. seq[k] = seq[l]
        BY <2>1, <3>2
      <4> QED
        BY <1>0, <3>2, <4>1 DEF Distinct
    <3> QED
      BY <2>3, <3>1, <3>2
  <2>5. ASSUME NEW p \in DOMAIN seq
        PROVE  \E q \in DOMAIN t : q \in {p, p + 1} /\ t[q] = seq[p]
    <3>1. p + 1 \in DOMAIN t /\ t[p + 1] = seq[p]
      BY <1>0, <2>1
    <3> QED
      BY <3>1
  <2> QED
    BY <2>1, <2>4, <2>5
<1>3. CASE d \in Range(seq)
  <2>1. PICK i \in DOMAIN seq : seq[i] = d
    BY <1>3 DEF Range
  <2>2. /\ Len(t) = L
        /\ \A k \in 1 .. i - 1 : t[k + 1] = seq[k]
        /\ \A k \in i + 1 .. L : t[k] = seq[k]
    BY <2>1, ToFrontAt
  <2>3. \A k \in 1 .. L : k # i => seq[k] # d
    BY <1>0, <2>1 DEF Distinct
  <2>4. \A q \in DOMAIN t : \/ q = 1
                            \/ \E k \in 1 .. i - 1 : q = k + 1
                            \/ q \in i + 1 .. L
    <3>1. \A q \in DOMAIN t : \/ q = 1
                              \/ q - 1 \in 1 .. i - 1 /\ q = (q - 1) + 1
                              \/ q \in i + 1 .. L
      BY <1>0, <2>1, <2>2
    <3> QED
      BY <3>1
  <2>5. ASSUME NEW q \in DOMAIN t, q # 1
        PROVE  \E k \in 1 .. L : /\ t[q] = seq[k] /\ k # i
                                 /\ (k < i /\ q = k + 1) \/ (k > i /\ q = k)
    <3>1. ASSUME NEW k \in 1 .. i - 1, q = k + 1
          PROVE  k \in 1 .. L /\ t[q] = seq[k] /\ k < i
      BY <1>0, <2>1, <2>2, <3>1
    <3>2. ASSUME q \in i + 1 .. L PROVE q \in 1 .. L /\ t[q] = seq[q] /\ q > i
      BY <1>0, <2>1, <2>2, <3>2
    <3> QED
      BY <1>0, <2>1, <2>4, <2>5, <3>1, <3>2
  <2>6. Distinct(t)
    <3> SUFFICES ASSUME NEW a \in DOMAIN t, NEW b \in DOMAIN t, t[a] = t[b] PROVE a = b
      BY DEF Distinct
    <3>1. CASE a = 1 \/ b = 1
      <4>1. \A q \in DOMAIN t : q # 1 => t[q] # d
        BY <2>3, <2>5
      <4> QED
        BY <1>1, <3>1, <4>1
    <3>2. CASE a # 1 /\ b # 1
      <4>1. PICK k \in 1 .. L :
                t[a] = seq[k] /\ k # i /\ ((k < i /\ a = k + 1) \/ (k > i /\ a = k))
        BY <2>5, <3>2
      <4>2. PICK l \in 1 .. L :
                t[b] = seq[l] /\ l # i /\ ((l < i /\ b = l + 1) \/ (l > i /\ b = l))
        BY <2>5, <3>2
      <4>3. k = l
        BY <1>0, <4>1, <4>2 DEF Distinct
      <4> QED
        BY <1>0, <2>1, <4>1, <4>2, <4>3
    <3> QED
      BY <3>1, <3>2
  <2>7. ASSUME NEW p \in DOMAIN seq, seq[p] # d
        PROVE  \E q \in DOMAIN t : q \in {p, p + 1} /\ t[q] = seq[p]
    <3>1. CASE p < i
      <4>1. p + 1 \in DOMAIN t /\ t[p + 1] = seq[p]
        BY <1>0, <2>1, <2>2, <3>1
      <4> QED
        BY <4>1
    <3>2. CASE p > i
      <4>1. p \in DOMAIN t /\ t[p] = seq[p]
        BY <1>0, <2>1, <2>2, <3>2
      <4> QED
        BY <4>1
    <3> QED
      BY <1>0, <2>1, <2>7, <3>1, <3>2
  <2> QED
    BY <2>2, <2>6, <2>7
<1> QED
  BY <1>2, <1>3

-----------------------------------------------------------------------------
(* The limiters. *)

\* What looking at a domain does to the lists: it is the first, and every
\* other is still kept, or as many were looked at since as there are slots.
LEMMA TouchKeeps ==
    ASSUME ListsInv, NEW d \in Domain, Touch(d)
    PROVE  /\ ListsInv' /\ d \in Range(lru')
           /\ \A e \in Domain \ {d} :
                 /\ LongAgo(e) => LongAgo(e)'
                 /\ e \in Range(lru) => e \in Range(lru') \/ LongAgo(e)'
<1> PICK L, T : L = Len(lru) /\ T = Len(touched)
  OBVIOUS
<1> PICK M \in Nat : M = MaxSlots /\ M >= 1
  BY FetchingAssumption DEF FetchingAssumption
<1>0. /\ touched \in Seq(Domain) /\ lru \in Seq(Domain) /\ Distinct(touched)
      /\ L \in Nat /\ T \in Nat /\ DOMAIN lru = 1 .. L /\ DOMAIN touched = 1 .. T
      /\ L <= M /\ L <= T /\ (L < M => L = T)
      /\ \A k \in 1 .. L : lru[k] = touched[k]
  BY LenProperties DEF ListsInv
<1>a. /\ DOMAIN lru = 1 .. L /\ DOMAIN touched = 1 .. T /\ L \in Nat /\ T \in Nat
      /\ L <= T /\ L <= M /\ (L < M => L = T)
      /\ \A k \in 1 .. L : lru[k] = touched[k]
  BY <1>0
<1>1. touched' = ToFront(d, touched)
  BY DEF Touch
<1>2. /\ touched' \in Seq(Domain) /\ Distinct(touched') /\ touched'[1] = d
      /\ Len(touched') = T \/ Len(touched') = T + 1
      /\ DOMAIN touched' = 1 .. Len(touched') /\ Len(touched') \in Nat
  <2>1. touched' \in Seq(Domain) /\ touched'[1] = d
    BY <1>0, <1>1, ToFrontIs
  <2>2. DOMAIN touched' = 1 .. Len(touched')
    BY <2>1, LenProperties
  <2>3. Distinct(touched') /\ Len(touched') \in {Len(touched), Len(touched) + 1}
    BY <1>0, <1>1, ToFrontKeeps
  <2>4. (Len(touched') = T \/ Len(touched') = T + 1) /\ Len(touched') \in Nat
    BY <1>a, <2>3
  <2> QED
    BY <2>1, <2>2, <2>3, <2>4
\* The lists stay in step.
<1>3. /\ lru' \in Seq(Domain) /\ Len(lru') \in Nat /\ DOMAIN lru' = 1 .. Len(lru')
      /\ Len(lru') <= M /\ Len(lru') <= Len(touched') /\ Len(lru') >= 1
      /\ Len(lru') < M => Len(lru') = Len(touched')
      /\ \A k \in 1 .. Len(lru') : lru'[k] = touched'[k]
  <2>1. CASE d \in Range(lru)
    <3>1. PICK i \in 1 .. L : lru[i] = d
      BY <1>0, <2>1 DEF Range
    <3>2. i \in DOMAIN touched /\ touched[i] = d
      BY <1>0, <3>1
    <3>3. Distinct(lru) /\ lru' = ToFront(d, lru)
      BY <1>0, <2>1 DEF Distinct, Touch
    <3>4. /\ lru' \in Seq(Domain) /\ lru'[1] = d /\ Len(lru') = L
          /\ \A k \in 1 .. i - 1 : lru'[k + 1] = lru[k]
          /\ \A k \in i + 1 .. L : lru'[k] = lru[k]
      <4>1. i \in DOMAIN lru
        BY <1>0
      <4>2. lru' \in Seq(Domain) /\ lru'[1] = d
        BY <1>0, <3>3, ToFrontIs
      <4>3. /\ Len(lru') = L
            /\ \A k \in 1 .. i - 1 : lru'[k + 1] = lru[k]
            /\ \A k \in i + 1 .. L : lru'[k] = lru[k]
        BY <1>0, <3>1, <3>3, <4>1, ToFrontAt
      <4> QED
        BY <4>2, <4>3
    <3>5. /\ Len(touched') = T
          /\ \A k \in 1 .. i - 1 : touched'[k + 1] = touched[k]
          /\ \A k \in i + 1 .. T : touched'[k] = touched[k]
      BY <1>0, <1>1, <3>2, ToFrontAt
    <3>6. ASSUME NEW k \in 1 .. L PROVE lru'[k] = touched'[k]
      <4>1. CASE k = 1
        BY <1>2, <3>4, <4>1
      <4>2. CASE k \in 2 .. i
        <5>1. PICK j \in 1 .. i - 1 : k = j + 1 /\ j \in 1 .. L
          <6>1. k - 1 \in 1 .. i - 1 /\ k = (k - 1) + 1 /\ k - 1 \in 1 .. L
            BY <3>1, <4>2
          <6> QED
            BY <6>1
        <5> QED
          BY <1>0, <3>4, <3>5, <5>1
      <4>3. CASE k \in i + 1 .. L
        <5>1. k \in i + 1 .. T
          BY <1>0, <4>3
        <5> QED
          BY <1>0, <3>4, <3>5, <4>3, <5>1
      <4> QED
        BY <1>0, <3>1, <4>1, <4>2, <4>3
    <3>7. DOMAIN lru' = 1 .. Len(lru')
      BY <3>4, LenProperties
    <3> QED
      BY <1>0, <3>1, <3>4, <3>5, <3>6, <3>7
  <2>2. CASE d \notin Range(lru)
    <3> PICK E : E = Evict(lru)
      OBVIOUS
    <3>1. /\ E \in Seq(Domain) /\ \A k \in 1 .. Len(E) : E[k] = lru[k]
          /\ Len(E) = IF L < M THEN L ELSE M - 1
      <4>1. CASE L < M
        BY <1>0, <4>1 DEF Evict
      <4>2. CASE ~(L < M)
        <5>1. E = SubSeq(lru, 1, M - 1) /\ \A k \in 1 .. M - 1 : lru[k] \in Domain
          BY <1>0, <4>2, ElementOfSeq DEF Evict
        <5>2. /\ E \in Seq(Domain) /\ Len(E) = M - 1
              /\ \A k \in 1 .. M - 1 : E[k] = lru[k]
          BY <5>1, SubSeqProperties
        <5> QED
          BY <4>2, <5>2
      <4> QED
        BY <4>1, <4>2
    <3>2. /\ Len(E) \in Nat /\ Len(E) < M /\ Len(E) <= L /\ DOMAIN E = 1 .. Len(E)
          /\ L < M => Len(E) = T
          /\ ~(L < M) => Len(E) + 1 = M
      BY <1>0, <3>1, LenProperties
    <3>3. Distinct(E) /\ d \notin Range(E)
      <4>1. \A k \in DOMAIN E : k \in DOMAIN lru /\ k \in DOMAIN touched
                                 /\ E[k] = lru[k] /\ E[k] = touched[k]
        BY <1>0, <3>1, <3>2
      <4> QED
        BY <1>0, <2>2, <4>1 DEF Distinct, Range
    <3>4. /\ lru' \in Seq(Domain) /\ lru'[1] = d /\ Len(lru') = Len(E) + 1
          /\ \A k \in 1 .. Len(E) : lru'[k + 1] = E[k]
      <4>1. lru' = ToFront(d, E)
        BY <2>2 DEF Touch
      <4>2. /\ ToFront(d, E) \in Seq(Domain) /\ ToFront(d, E)[1] = d
            /\ Len(ToFront(d, E)) = Len(E) + 1
            /\ \A k \in 1 .. Len(E) : ToFront(d, E)[k + 1] = E[k]
        BY <3>1, <3>3, ToFrontIs, ZenonT(30)
      <4> QED
        BY <4>1, <4>2, Zenon
    \* d was not among the first of the domains looked at.
    <3>5. /\ \A k \in 1 .. Len(E) : touched'[k + 1] = touched[k]
          /\ L < M => Len(touched') = T + 1
      <4>1. CASE d \notin Range(touched)
        <5>1. Len(touched') = T + 1 /\ \A k \in 1 .. T : touched'[k + 1] = touched[k]
          BY <1>0, <1>1, <4>1, ToFrontIs
        <5> QED
          <6>1. \A k \in 1 .. Len(E) : k \in 1 .. T
            <7>1. Len(E) \in Nat /\ Len(E) <= L
              BY <3>2
            <7>2. L \in Nat /\ T \in Nat /\ L <= T
              BY <1>a
            <7> QED
              BY <7>1, <7>2
          <6> QED
            BY <5>1, <6>1
      <4>2. CASE d \in Range(touched)
        <5>1. PICK j \in 1 .. T : touched[j] = d
          BY <1>0, <4>2 DEF Range
        <5>2. j > L
          BY <1>0, <2>2, <5>1 DEF Range
        <5>3. L = M
          BY <1>0, <5>1, <5>2
        <5>4. \A k \in 1 .. j - 1 : touched'[k + 1] = touched[k]
          <6>1. j \in DOMAIN touched
            BY <1>0
          <6> QED
            BY <1>0, <1>1, <5>1, <6>1, ToFrontIs
        <5>5. \A k \in 1 .. Len(E) : k \in 1 .. j - 1
          <6>1. Len(E) \in Nat /\ Len(E) <= L
            BY <3>2
          <6>2. L \in Nat /\ j \in Nat
            BY <1>0, <5>1
          <6> QED
            BY <5>2, <6>1, <6>2
        <5> QED
          BY <1>0, <5>3, <5>4, <5>5
      <4> QED
        BY <4>1, <4>2
    <3>6. ASSUME NEW k \in 1 .. Len(E) + 1 PROVE lru'[k] = touched'[k]
      <4>1. CASE k = 1
        BY <1>2, <3>4, <4>1
      <4>2. CASE k # 1
        <5>1. PICK j \in 1 .. Len(E) : k = j + 1
          <6>1. k - 1 \in 1 .. Len(E) /\ k = (k - 1) + 1
            BY <3>2, <4>2
          <6> QED
            BY <6>1
        <5>2. j \in 1 .. L
          <6>1. Len(E) \in Nat /\ Len(E) <= L
            BY <3>2
          <6>2. L \in Nat
            BY <1>0
          <6> QED
            BY <6>1, <6>2
        <5> QED
          BY <1>0, <3>1, <3>4, <3>5, <5>1, <5>2
      <4> QED
        BY <4>1, <4>2, Zenon
    <3>7. DOMAIN lru' = 1 .. Len(lru')
      BY <3>4, LenProperties
    <3>8. Len(lru') <= M /\ Len(lru') <= Len(touched')
          /\ (Len(lru') < M => Len(lru') = Len(touched'))
      <4> PICK a, b, n : a = Len(lru') /\ b = Len(touched') /\ n = Len(E)
        OBVIOUS
      <4>1. /\ a = n + 1 /\ n \in Nat /\ n < M
            /\ b = T \/ b = T + 1
            /\ L < M => n = T /\ b = T + 1
            /\ ~(L < M) => n + 1 = M
        BY <1>2, <3>2, <3>4, <3>5
      <4>2. a <= M /\ a <= b /\ (a < M => a = b)
        BY <1>a, <4>1
      <4> QED
        BY <4>2
    <3>9. Len(lru') \in Nat /\ Len(lru') >= 1
      <4>1. Len(E) \in Nat
        BY <3>2
      <4>2. Len(lru') = Len(E) + 1
        BY <3>4
      <4> QED
        BY <4>1, <4>2
    <3> QED
      BY <3>4, <3>6, <3>7, <3>8, <3>9, ZenonT(30)
  <2> QED
    BY <2>1, <2>2, ZenonT(30)
<1>4. ListsInv'
  BY <1>2, <1>3 DEF ListsInv
\* The places of the others.
<1> PICK A \in Nat, B \in Nat : A = Len(lru') /\ B = Len(touched')
  BY <1>2, <1>3
<1>b. /\ DOMAIN lru' = 1 .. A /\ DOMAIN touched' = 1 .. B
      /\ A >= 1 /\ A <= B /\ (A < M => A = B)
      /\ lru'[1] = d /\ \A k \in 1 .. A : lru'[k] = touched'[k]
  BY <1>2, <1>3
<1>5. d \in Range(lru')
  <2>1. 1 \in DOMAIN lru' /\ lru'[1] = d
    BY <1>b
  <2> QED
    BY <2>1 DEF Range
<1>6. ASSUME NEW e \in Domain \ {d}, NEW p \in 1 .. T, touched[p] = e
      PROVE  \E q \in 1 .. B : q >= p /\ touched'[q] = e
  <2>1. p \in DOMAIN touched /\ touched[p] # d
    BY <1>a, <1>6
  <2>2. PICK q \in DOMAIN touched' : q \in {p, p + 1} /\ touched'[q] = touched[p]
    <3>1. \E q \in DOMAIN ToFront(d, touched) :
              q \in {p, p + 1} /\ ToFront(d, touched)[q] = touched[p]
      BY <1>0, <2>1, ToFrontKeeps, ZenonT(30)
    <3> QED
      BY <1>1, <3>1, Zenon
  <2>3. q \in 1 .. B /\ q >= p
    BY <1>b, <2>2
  <2> QED
    BY <1>6, <2>2, <2>3
<1>7. ASSUME NEW e \in Domain \ {d}, LongAgo(e) PROVE LongAgo(e)'
  <2>1. PICK p \in 1 .. T : touched[p] = e /\ p > M
    BY <1>a, <1>7 DEF LongAgo
  <2>2. PICK q \in 1 .. B : q >= p /\ touched'[q] = e
    BY <1>6, <2>1
  <2>3. q > M
    BY <2>1, <2>2
  <2> QED
    BY <1>b, <2>2, <2>3 DEF LongAgo
<1>8. ASSUME NEW e \in Domain \ {d}, e \in Range(lru)
      PROVE  e \in Range(lru') \/ LongAgo(e)'
  <2>1. PICK p \in 1 .. L : lru[p] = e
    BY <1>a, <1>8 DEF Range
  <2>2. p \in 1 .. T /\ touched[p] = e
    BY <1>a, <2>1
  <2>3. PICK q \in 1 .. B : q >= p /\ touched'[q] = e
    BY <1>6, <2>2
  <2>4. CASE q <= A
    <3>1. q \in DOMAIN lru' /\ lru'[q] = e
      BY <1>b, <2>3, <2>4
    <3> QED
      BY <3>1 DEF Range
  <2>5. CASE q > A
    <3>1. q > M
      BY <1>b, <2>3, <2>5
    <3> QED
      BY <1>b, <2>3, <3>1 DEF LongAgo
  <2> QED
    BY <2>4, <2>5
<1> QED
  BY <1>4, <1>5, <1>7, <1>8

\* Kept limiters keep what is left to wait.
LEMMA KeptIs ==
    ASSUME NEW left \in [Domain -> Nat], wait' = Kept(left), NEW d \in Domain
    PROVE  wait' \in [Domain -> Nat] /\ (d \in Range(lru') => wait'[d] = left[d])
  BY DEF Kept

LEMMA SpacedStep == SpacedInv /\ [Next]_vars => SpacedInv'
<1> SUFFICES ASSUME SpacedInv, [Next]_vars PROVE SpacedInv'
  OBVIOUS
<1> /\ ListsInv /\ wait \in [Domain -> Nat] /\ due \in [Domain -> Nat] /\ early = {}
    /\ Delay \in Nat
  BY FetchingAssumption DEF SpacedInv, FetchingAssumption
<1>a. \A d \in Domain : due[d] > 0 => LongAgo(d) \/ (d \in Range(lru) /\ due[d] <= wait[d])
  BY DEF SpacedInv
<1>1. ASSUME NEW w \in Worker, NEW u \in Url, Claim(w, u) PROVE SpacedInv'
  <2> PICK d \in Domain : d = DomainOf[HostOf[u]]
    BY FetchingAssumption DEF FetchingAssumption
  <2>1. /\ Full(d) /\ Touch(d) /\ wait' = Kept([wait EXCEPT ![d] = Delay])
        /\ early' = IF due[d] > 0 /\ ~LongAgo(d) THEN early \cup {d} ELSE early
        /\ due' = [due EXCEPT ![d] = Delay]
    BY <1>1 DEF Claim
  <2>2. early' = {}
    <3>1. due[d] > 0 => LongAgo(d)
      BY <1>a, <2>1 DEF Full
    <3> QED
      BY <2>1, <3>1
  <2>3. /\ wait' \in [Domain -> Nat]
        /\ \A e \in Domain : e \in Range(lru') => wait'[e] = IF e = d THEN Delay ELSE wait[e]
    <3>1. PICK left \in [Domain -> Nat] : left = [wait EXCEPT ![d] = Delay]
      OBVIOUS
    <3>2. wait' = Kept(left)
      BY <2>1, <3>1
    <3> QED
      BY <3>1, <3>2, KeptIs
  <2>4. due' \in [Domain -> Nat]
    BY <2>1
  <2>5. ASSUME NEW e \in Domain, due'[e] > 0
        PROVE  LongAgo(e)' \/ (e \in Range(lru') /\ due'[e] <= wait'[e])
    <3>1. CASE e = d
      <4>1. d \in Range(lru')
        BY <2>1, TouchKeeps
      <4>2. due'[d] = Delay /\ wait'[d] = Delay
        BY <2>1, <2>3, <4>1
      <4> QED
        BY <3>1, <4>1, <4>2
    <3>2. CASE e # d
      <4>1. LongAgo(e) \/ (e \in Range(lru) /\ due[e] <= wait[e])
        BY <1>a, <2>1, <2>5, <3>2
      <4>2. LongAgo(e)' \/ (e \in Range(lru') /\ due[e] <= wait[e])
        BY <2>1, <3>2, <4>1, TouchKeeps
      <4> QED
        BY <2>1, <2>3, <3>2, <4>2
    <3> QED
      BY <3>1, <3>2
  <2>6. ListsInv'
    BY <2>1, TouchKeeps
  <2> QED
    BY <2>2, <2>3, <2>4, <2>5, <2>6 DEF SpacedInv
<1>2. ASSUME NEW d \in Domain, Probe(d) PROVE SpacedInv'
  <2>1. /\ Touch(d) /\ wait' = Kept([wait EXCEPT ![d] = IF Full(d) THEN 0 ELSE @])
        /\ due' = IF LongAgo(d) THEN [due EXCEPT ![d] = 0] ELSE due
        /\ early' = early
    BY <1>2 DEF Probe
  <2>2. /\ wait' \in [Domain -> Nat]
        /\ \A e \in Domain : e \in Range(lru') =>
              wait'[e] = IF e = d /\ Full(d) THEN 0 ELSE wait[e]
    <3>1. PICK left \in [Domain -> Nat] :
              left = [wait EXCEPT ![d] = IF Full(d) THEN 0 ELSE @]
      OBVIOUS
    <3>2. wait' = Kept(left)
      BY <2>1, <3>1
    <3> QED
      BY <3>1, <3>2, KeptIs
  <2>3. due' \in [Domain -> Nat]
    BY <2>1
  <2>4. ASSUME NEW e \in Domain, due'[e] > 0
        PROVE  LongAgo(e)' \/ (e \in Range(lru') /\ due'[e] <= wait'[e])
    <3>1. CASE e = d
      <4>1. ~LongAgo(d) /\ due'[d] = due[d] /\ due[d] > 0
        BY <2>1, <2>4, <3>1
      <4>2. d \in Range(lru) /\ due[d] <= wait[d]
        BY <1>a, <4>1
      <4>3. ~Full(d)
        BY <4>1, <4>2 DEF Full
      <4>4. d \in Range(lru')
        BY <2>1, TouchKeeps
      <4> QED
        BY <2>2, <3>1, <4>1, <4>2, <4>3, <4>4
    <3>2. CASE e # d
      <4>1. due'[e] = due[e]
        BY <2>1, <3>2
      <4>2. LongAgo(e) \/ (e \in Range(lru) /\ due[e] <= wait[e])
        BY <1>a, <2>4, <4>1
      <4>3. LongAgo(e)' \/ (e \in Range(lru') /\ due[e] <= wait[e])
        BY <2>1, <3>2, <4>2, TouchKeeps
      <4> QED
        BY <2>2, <3>2, <4>1, <4>3
    <3> QED
      BY <3>1, <3>2
  <2>5. ListsInv'
    BY <2>1, TouchKeeps
  <2> QED
    BY <2>1, <2>2, <2>3, <2>4, <2>5 DEF SpacedInv
<1>b. ASSUME UNCHANGED <<lru, touched>>
      PROVE  ListsInv' /\ \A d \in Domain : LongAgo(d)' <=> LongAgo(d)
  BY <1>b DEF ListsInv, LongAgo
<1>3. ASSUME Tick PROVE SpacedInv'
  <2>1. /\ wait' = Less(wait) /\ due' = Less(due) /\ UNCHANGED <<lru, touched, early>>
    BY <1>3 DEF Tick
  <2>2. wait' \in [Domain -> Nat] /\ due' \in [Domain -> Nat]
    BY <2>1 DEF Less
  <2>3. \A d \in Domain : due'[d] > 0 => /\ due[d] > 0
                                         /\ due[d] <= wait[d] => due'[d] <= wait'[d]
    BY <2>1 DEF Less
  <2> QED
    BY <1>a, <1>b, <2>1, <2>2, <2>3 DEF SpacedInv
<1>4. ASSUME UNCHANGED throttle PROVE SpacedInv'
  <2>1. UNCHANGED <<lru, wait, touched, due, early>>
    BY <1>4 DEF throttle
  <2> QED
    BY <1>a, <1>b, <2>1 DEF SpacedInv
<1>5. ASSUME NEW w \in Worker,
             \/ FetchPage(w)
             \/ \E got \in BOOLEAN : StoreRobots(w, got)
             \/ \E u \in Url : Check(w, u)
      PROVE  SpacedInv'
  BY <1>4, <1>5 DEF FetchPage, StoreRobots, Check
<1>6. UNCHANGED vars => SpacedInv'
  BY <1>4 DEF vars
<1> QED
  BY <1>1, <1>2, <1>3, <1>5, <1>6 DEF Next

\* Two requests to a domain are Delay apart, over any number of domains and
\* of limiters, unless as many other domains as limiters are kept were looked
\* at in between (Throttler.limiterFor, Allow, Reserve).
THEOREM SpacedUnlessForgotten == Spec => []SpacedOrForgotten
<1>1. Init => SpacedInv
  <2> SUFFICES ASSUME Init PROVE SpacedInv
    OBVIOUS
  <2>1. lru = <<>> /\ touched = <<>>
    BY DEF Init
  <2>2. <<>> \in Seq(Domain) /\ Len(<<>>) = 0 /\ DOMAIN <<>> = {}
    OBVIOUS
  <2>3. ListsInv
    BY <2>1, <2>2, FetchingAssumption DEF ListsInv, Distinct, FetchingAssumption
  <2> QED
    BY <2>3 DEF Init, SpacedInv
<1>2. SpacedInv => SpacedOrForgotten
  BY DEF SpacedInv, SpacedOrForgotten
<1> QED
  BY <1>1, <1>2, SpacedStep, PTL DEF Spec

-----------------------------------------------------------------------------
(* The exchange. *)

\* What the caps make of a body.
LEMMA ReadBodyIs ==
    ASSUME NEW x, x.plain \in Nat, x.wire \in Nat
    PROVE  /\ ReadBody(x).kind = "ok" =>
                 /\ \/ ReadBody(x).body = x.plain /\ x.broken = None
                    \/ ReadBody(x).body = MaxBody /\ x.encoding = "identity" /\ x.plain >= MaxBody
                 /\ ReadBody(x).body <= MaxBody
           /\ ReadBody(x).kind = "retry" =>
                 x.broken # None \/ (x.encoding # "identity" /\ x.wire > MaxBody)
  BY HttpFetchAssumption DEF ReadBody, Opens, Body, Final, Retryable, HttpFetchAssumption

LEMMA FetchIs ==
    ASSUME NEW x \in Exchanges
    PROVE  /\ Fetch(x).kind = "ok" =>
                 /\ \/ Fetch(x).body = x.plain /\ x.broken = None
                    \/ Fetch(x).body = MaxBody /\ x.encoding = "identity" /\ x.plain >= MaxBody
                 /\ Fetch(x).body <= MaxBody
           /\ Fetch(x).kind = "retry" =>
                 \/ x.status = 429 \/ x.status >= 500 \/ x.fault # None \/ x.broken # None
                 \/ x.encoding # "identity" /\ x.wire > MaxBody
<1>1. x.plain \in Nat /\ x.wire \in Nat /\ x.status \in Nat
  BY DEF Exchanges
<1>2. PICK y : y = [x EXCEPT !.status = 302]
  OBVIOUS
<1>3. /\ y.plain = x.plain /\ y.wire = x.wire
      /\ y.encoding = x.encoding /\ y.broken = x.broken
  BY <1>2 DEF Exchanges
<1>4. \/ Fetch(x) = ReadBody(y) \/ Fetch(x) = ReadBody(x)
      \/ Fetch(x) = Retryable(x.fault, 0) /\ x.fault # None
      \/ Fetch(x) = Retryable("429", ParseRetryAfter(x.retryAfter)) /\ x.status = 429
      \/ Fetch(x) = Retryable("5xx", 0) /\ x.status >= 500
      \/ \E e : Fetch(x) = Final(e)
  <2>1. \/ Responded(x) = ReadBody(x)
        \/ Responded(x) = Retryable("429", ParseRetryAfter(x.retryAfter)) /\ x.status = 429
        \/ Responded(x) = Retryable("5xx", 0) /\ x.status >= 500
    BY DEF Responded
  <2>2. \/ Fetch(x) = ReadBody(y) \/ Fetch(x) = Responded(x)
        \/ Fetch(x) = Retryable(x.fault, 0) /\ x.fault # None
        \/ Fetch(x) = Final("scheme") \/ Fetch(x) = Final("redirect")
        \/ Fetch(x) = Final("address") \/ Fetch(x) = Final(x.fault)
    BY <1>2, Zenon DEF Fetch
  <2>3. CASE Fetch(x) = Responded(x)
    BY <2>1, <2>3
  <2>4. CASE Fetch(x) # Responded(x)
    BY <2>2, <2>4
  <2> QED
    BY <2>3, <2>4
<1>5. /\ \A e, a : Retryable(e, a).kind = "retry"
      /\ \A e : Final(e).kind = "final"
  BY DEF Retryable, Final
<1>6. CASE Fetch(x) = ReadBody(y)
  <2>1. y.plain \in Nat /\ y.wire \in Nat
    BY <1>1, <1>3
  <2> QED
    BY <1>3, <1>6, <2>1, ReadBodyIs
<1>7. CASE Fetch(x) = ReadBody(x)
  BY <1>1, <1>7, ReadBodyIs
<1> QED
  BY <1>4, <1>5, <1>6, <1>7

\* What the last step fetched came of an exchange.
PageInv ==
    page # None =>
        /\ page.x \in Exchange
        /\ page.result = Fetch(page.x) /\ page.connections = Connections(page.x)

LEMMA PageStep == PageInv /\ [Next]_vars => PageInv'
<1> SUFFICES ASSUME PageInv, [Next]_vars PROVE PageInv'
  OBVIOUS
<1>1. ASSUME NEW w \in Worker, FetchPage(w) PROVE PageInv'
  BY <1>1 DEF FetchPage, PageInv
<1>2. ASSUME page' = None PROVE PageInv'
  BY <1>2 DEF PageInv
<1>3. ASSUME NEW w \in Worker,
             \/ \E got \in BOOLEAN : StoreRobots(w, got)
             \/ \E u \in Url : Check(w, u) \/ Claim(w, u)
      PROVE  PageInv'
  BY <1>2, <1>3 DEF StoreRobots, Check, Claim
<1>4. Tick \/ (\E d \in Domain : Probe(d)) => PageInv'
  BY <1>2 DEF Tick, Probe
<1>5. UNCHANGED vars => PageInv'
  BY DEF vars, PageInv
<1> QED
  BY <1>1, <1>3, <1>4, <1>5 DEF Next

LEMMA PageInvariant == Spec => []PageInv
<1>1. Init => PageInv
  BY DEF Init, PageInv
<1> QED
  BY <1>1, PageStep, PTL DEF Spec

\* Whatever is answered, wherever a body breaks off and at whatever size before
\* and after decompression, an accepted body is the whole or the first
\* max_body_size bytes of a plain one, and nothing is retried but a fault, a
\* status that asks for it, a body that broke off (a corrupt one too) and a
\* compressed one over the cap (HTTPFetcher.Fetch).
THEOREM BodyWholeOrCut == Spec => []BodyIsWholeOrCut
<1>1. PageInv => BodyIsWholeOrCut
  BY FetchIs, FetchingAssumption DEF PageInv, BodyIsWholeOrCut, FetchingAssumption
<1> QED
  BY <1>1, PageInvariant, PTL

\* Over any chain of redirects and any answer of the resolver, no connection
\* is made to an address that is not public, or that holds one that is not,
\* unless the settings exempt it (DialContext, blockReason).
THEOREM OnlyPublicConnections == Spec => []ConnectionsArePublic
<1>1. ASSUME NEW x, NEW c \in Connections(x)
      PROVE  AllowPrivate \/ c.host \in Exempt
             \/ (c.address.net = "public" /\ c.address.inside \in {None, "public"})
  <2> DEFINE from(i) == {[host |-> x.hops[i].host, address |-> a] : a \in Dial(x.hops[i])}
  <2>1. PICK i \in DOMAIN x.hops : c \in from(i)
    BY DEF Connections
  <2>2. PICK a \in Dial(x.hops[i]) : c = [host |-> x.hops[i].host, address |-> a]
    BY <2>1
  <2>3. AllowPrivate \/ x.hops[i].host \in Exempt \/ ~Blocked(a)
    BY <2>2 DEF Dial
  <2>4. c.host = x.hops[i].host /\ c.address = a
    BY <2>2
  <2> QED
    BY <2>3, <2>4 DEF Blocked
<1>2. PageInv => ConnectionsArePublic
  BY <1>1 DEF PageInv, ConnectionsArePublic
<1> QED
  BY <1>2, PageInvariant, PTL

-----------------------------------------------------------------------------
(* What is true of 0 and of a number's successor whenever it is of the     *)
(* number is true of all of them: there would be a least one it fails.     *)

LEMMA Least ==
    ASSUME NEW T, T \subseteq Nat, T # {}
    PROVE  \E n \in T : \A m \in T : n <= m
<1>1. IsWellFoundedOn({ss \in Nat \X Nat : ss[1] < ss[2]}, Nat)
  BY NatLessThanWellFounded DEF OpToRel
<1>2. PICK n \in T : \A m \in T : ~ (<<m, n>> \in {ss \in Nat \X Nat : ss[1] < ss[2]})
  BY <1>1, WFMin
<1>3. ASSUME NEW m \in T PROVE n <= m
  <2>1. m \in Nat /\ n \in Nat
    OBVIOUS
  <2>2. <<m, n>> \in Nat \X Nat /\ <<m, n>>[1] = m /\ <<m, n>>[2] = n
    BY <2>1
  <2>3. m < n => <<m, n>> \in {ss \in Nat \X Nat : ss[1] < ss[2]}
    BY <2>2
  <2>4. ~ (m < n)
    BY <1>2, <2>3, Zenon
  <2> QED
    BY <2>1, <2>4
<1> QED
  BY <1>3

LEMMA FromBelow ==
    ASSUME NEW n \in Nat, NEW T,
           \A i \in 0 .. n : (\A j \in 0 .. n : j < i => j \in T) => i \in T
    PROVE  \A i \in 0 .. n : i \in T
<1> DEFINE F == {i \in 0 .. n : i \notin T}
<1>1. CASE F = {}
  BY <1>1
<1>2. CASE F # {}
  <2>1. F \subseteq Nat
    OBVIOUS
  <2>2. PICK i \in F : \A j \in F : i <= j
    BY <1>2, <2>1, Least
  <2>3. ASSUME NEW j \in 0 .. n, j < i PROVE j \in T
    BY <2>1, <2>2, <2>3
  <2> QED
    BY <2>2, <2>3
<1> QED
  BY <1>1, <1>2

LEMMA StepByStep ==
    ASSUME NEW n \in Nat, NEW T, 0 \in T,
           \A i \in 0 .. (n - 1) : i \in T => i + 1 \in T
    PROVE  \A i \in 0 .. n : i \in T
<1>1. ASSUME NEW i \in 0 .. n, \A j \in 0 .. n : j < i => j \in T
      PROVE  i \in T
  <2>1. CASE i = 0
    BY <2>1
  <2>2. CASE i # 0
    <3>1. i - 1 \in 0 .. (n - 1) /\ i - 1 \in 0 .. n /\ i - 1 < i /\ (i - 1) + 1 = i
      BY <2>2
    <3> QED
      BY <1>1, <3>1
  <2> QED
    BY <2>1, <2>2
<1> QED
  BY <1>1, FromBelow

-----------------------------------------------------------------------------
(* The rules read from a file. *)

LEMMA ReadingIs ==
    ASSUME NEW lines \in Seq(Lines)
    PROVE  /\ Reading(lines)[0] = NoRules
           /\ \A i \in 1 .. Len(lines) :
                 Reading(lines)[i] = ReadRule(Reading(lines)[i - 1], lines[i])
<1> DEFINE Is(f, n) ==
        f = [i \in 0 .. n |-> IF i = 0 THEN NoRules ELSE ReadRule(f[i - 1], lines[i])]
<1> DEFINE T == {n \in 0 .. Len(lines) : \E f : Is(f, n)}
<1>1. Len(lines) \in Nat
  BY LenProperties
<1>2. 0 \in T
  <2> DEFINE f == [i \in 0 .. 0 |-> NoRules]
  <2>1. \A i \in 0 .. 0 : i = 0
    OBVIOUS
  <2>2. [i \in 0 .. 0 |-> IF i = 0 THEN NoRules ELSE ReadRule(f[i - 1], lines[i])] = f
    BY <2>1
  <2> HIDE DEF f
  <2>3. Is(f, 0)
    BY <2>2
  <2> QED
    BY <1>1, <2>3
<1>3. ASSUME NEW n \in 0 .. (Len(lines) - 1), n \in T PROVE n + 1 \in T
  <2>1. PICK f : Is(f, n)
    BY <1>3
  <2>2. n \in Nat /\ n + 1 \in 0 .. Len(lines)
    BY <1>1
  <2> DEFINE g == [i \in 0 .. (n + 1) |->
                     IF i <= n THEN f[i] ELSE ReadRule(f[n], lines[n + 1])]
  <2>3. ASSUME NEW i \in 0 .. (n + 1)
        PROVE  g[i] = IF i = 0 THEN NoRules ELSE ReadRule(g[i - 1], lines[i])
    <3>1. CASE i <= n
      <4>1. i \in 0 .. n /\ g[i] = f[i] /\ (i # 0 => i - 1 \in 0 .. (n + 1) /\ i - 1 <= n)
        BY <2>2, <3>1
      <4>2. f[i] = IF i = 0 THEN NoRules ELSE ReadRule(f[i - 1], lines[i])
        BY <2>1, <4>1
      <4>3. i # 0 => g[i - 1] = f[i - 1]
        BY <4>1
      <4> QED
        BY <4>1, <4>2, <4>3
    <3>2. CASE ~(i <= n)
      <4>1. i = n + 1 /\ i # 0 /\ i - 1 = n /\ n \in 0 .. (n + 1) /\ n <= n
        BY <2>2, <3>2
      <4>2. g[i] = ReadRule(f[n], lines[n + 1]) /\ g[n] = f[n]
        BY <3>2, <4>1
      <4> QED
        BY <4>1, <4>2
    <3> QED
      BY <3>1, <3>2
  <2>4. g = [i \in 0 .. (n + 1) |-> g[i]]
    OBVIOUS
  <2> HIDE DEF g
  <2>5. Is(g, n + 1)
    BY <2>3, <2>4
  <2> QED
    BY <2>2, <2>5
<1>4. \E f : Is(f, Len(lines))
  <2> HIDE DEF T
  <2>1. \A i \in 0 .. Len(lines) : i \in T
    BY <1>1, <1>2, <1>3, StepByStep
  <2>2. Len(lines) \in T
    BY <1>1, <2>1
  <2> QED
    BY <2>2 DEF T
<1>5. Is(Reading(lines), Len(lines))
  BY <1>4 DEF Reading
<1> HIDE DEF T
<1>6. 0 \in 0 .. Len(lines)
  BY <1>1
<1>7. ASSUME NEW i \in 1 .. Len(lines)
      PROVE  Reading(lines)[i] = ReadRule(Reading(lines)[i - 1], lines[i])
  <2>1. i \in 0 .. Len(lines) /\ i # 0
    BY <1>1
  <2> QED
    BY <1>5, <2>1
<1> QED
  BY <1>5, <1>6, <1>7

\* The section that the lines up to one end in is for this crawler.
OursAfter(lines, i) ==
    \E j \in 1 .. i :
        /\ lines[j].key = "user-agent" /\ lines[j].value \in {"us", "any"}
        /\ \A k \in (j + 1) .. i : lines[k].key # "user-agent"

Taken(lines, i, key) ==
    {lines[k].value : k \in {k \in 1 .. i : lines[k].key = key /\ OursAfter(lines, k - 1)}}

ReadOk(lines, i) ==
    LET rules == Reading(lines)[i] IN
    /\ rules \in Rules /\ (rules.ours <=> OursAfter(lines, i))
    /\ Range(rules.allowed) = Taken(lines, i, "allow")
    /\ Range(rules.disallowed) = Taken(lines, i, "disallow")

LEMMA RangeOfAppend ==
    ASSUME NEW S, NEW s \in Seq(S), NEW e \in S
    PROVE  Append(s, e) \in Seq(S) /\ Range(Append(s, e)) = Range(s) \cup {e}
<1>1. Len(s) \in Nat /\ DOMAIN s = 1 .. Len(s)
  BY LenProperties
<1>2. /\ Append(s, e) \in Seq(S) /\ DOMAIN Append(s, e) = 1 .. (Len(s) + 1)
      /\ Append(s, e)[Len(s) + 1] = e
      /\ \A i \in 1 .. Len(s) : Append(s, e)[i] = s[i]
  BY <1>1
<1>3. ASSUME NEW x \in Range(Append(s, e)) PROVE x \in Range(s) \cup {e}
  <2>1. PICK i \in 1 .. (Len(s) + 1) : x = Append(s, e)[i]
    BY <1>2 DEF Range
  <2> QED
    BY <1>1, <1>2, <2>1 DEF Range
<1>4. ASSUME NEW x \in Range(s) \cup {e} PROVE x \in Range(Append(s, e))
  <2>1. CASE x = e
    BY <1>1, <1>2, <2>1 DEF Range
  <2>2. CASE x \in Range(s)
    <3>1. PICK i \in 1 .. Len(s) : x = s[i]
      BY <1>1, <2>2 DEF Range
    <3>2. i \in 1 .. (Len(s) + 1)
      BY <1>1
    <3> QED
      BY <1>2, <3>1, <3>2 DEF Range
  <2> QED
    BY <2>1, <2>2
<1> QED
  BY <1>2, <1>3, <1>4

LEMMA OursStep ==
    ASSUME NEW lines, NEW i \in Nat
    PROVE  OursAfter(lines, i + 1) <=>
              IF lines[i + 1].key = "user-agent" THEN lines[i + 1].value \in {"us", "any"}
              ELSE OursAfter(lines, i)
<1>1. CASE lines[i + 1].key = "user-agent"
  <2>1. ASSUME OursAfter(lines, i + 1) PROVE lines[i + 1].value \in {"us", "any"}
    <3>1. PICK j \in 1 .. (i + 1) :
             /\ lines[j].key = "user-agent" /\ lines[j].value \in {"us", "any"}
             /\ \A k \in (j + 1) .. (i + 1) : lines[k].key # "user-agent"
      BY <2>1 DEF OursAfter
    <3>2. j # i + 1 => i + 1 \in (j + 1) .. (i + 1)
      OBVIOUS
    <3>3. j = i + 1
      BY <1>1, <3>1, <3>2
    <3> QED
      BY <3>1, <3>3
  <2>2. ASSUME lines[i + 1].value \in {"us", "any"} PROVE OursAfter(lines, i + 1)
    <3>1. i + 1 \in 1 .. (i + 1) /\ (i + 1 + 1) .. (i + 1) = {}
      OBVIOUS
    <3> QED
      BY <1>1, <2>2, <3>1 DEF OursAfter
  <2> QED
    BY <1>1, <2>1, <2>2
<1>2. CASE lines[i + 1].key # "user-agent"
  <2>1. ASSUME OursAfter(lines, i + 1) PROVE OursAfter(lines, i)
    <3>1. PICK j \in 1 .. (i + 1) :
             /\ lines[j].key = "user-agent" /\ lines[j].value \in {"us", "any"}
             /\ \A k \in (j + 1) .. (i + 1) : lines[k].key # "user-agent"
      BY <2>1 DEF OursAfter
    <3>2. j # i + 1
      BY <1>2, <3>1
    <3>3. j \in 1 .. i /\ \A k \in (j + 1) .. i : k \in (j + 1) .. (i + 1)
      BY <3>2
    <3> QED
      BY <3>1, <3>3 DEF OursAfter
  <2>2. ASSUME OursAfter(lines, i) PROVE OursAfter(lines, i + 1)
    <3>1. PICK j \in 1 .. i :
             /\ lines[j].key = "user-agent" /\ lines[j].value \in {"us", "any"}
             /\ \A k \in (j + 1) .. i : lines[k].key # "user-agent"
      BY <2>2 DEF OursAfter
    <3>2. j \in 1 .. (i + 1) /\ \A k \in (j + 1) .. (i + 1) : k # i + 1 => k \in (j + 1) .. i
      OBVIOUS
    <3>3. \A k \in (j + 1) .. (i + 1) : lines[k].key # "user-agent"
      BY <1>2, <3>1, <3>2
    <3> QED
      BY <3>1, <3>2, <3>3 DEF OursAfter
  <2> QED
    BY <1>2, <2>1, <2>2
<1> QED
  BY <1>1, <1>2

LEMMA TakenStep ==
    ASSUME NEW lines, NEW i \in Nat, NEW key
    PROVE  Taken(lines, i + 1, key) =
              Taken(lines, i, key) \cup
                  (IF lines[i + 1].key = key /\ OursAfter(lines, i) THEN {lines[i + 1].value}
                   ELSE {})
<1> DEFINE In(k) == lines[k].key = key /\ OursAfter(lines, k - 1)
<1>1. /\ (i + 1) - 1 = i /\ i + 1 \in 1 .. (i + 1)
      /\ \A k \in 1 .. (i + 1) : k \in 1 .. i \/ k = i + 1
      /\ \A k \in 1 .. i : k \in 1 .. (i + 1)
  OBVIOUS
<1>2. In(i + 1) <=> lines[i + 1].key = key /\ OursAfter(lines, i)
  BY <1>1
<1> HIDE DEF In
<1>3. /\ Taken(lines, i + 1, key) = {lines[k].value : k \in {k \in 1 .. (i + 1) : In(k)}}
      /\ Taken(lines, i, key) = {lines[k].value : k \in {k \in 1 .. i : In(k)}}
  BY DEF Taken, In
<1>4. CASE In(i + 1)
  BY <1>1, <1>2, <1>3, <1>4
<1>5. CASE ~In(i + 1)
  BY <1>1, <1>2, <1>3, <1>5
<1> QED
  BY <1>4, <1>5

\* What is read up to a line: whose section it is in, and the rules that are
\* in sections of this crawler's.
LEMMA ReadOkStep ==
    ASSUME NEW lines \in Seq(Lines), NEW i \in 0 .. (Len(lines) - 1), ReadOk(lines, i)
    PROVE  ReadOk(lines, i + 1)
<1>1. Len(lines) \in Nat
  BY LenProperties
<1>2. i \in Nat /\ i + 1 \in 1 .. Len(lines) /\ (i + 1) - 1 = i
  BY <1>1
<1>3. lines[i + 1] \in Lines
  BY <1>2, ElementOfSeq
<1> DEFINE rules == Reading(lines)[i]  line == lines[i + 1]  next == Reading(lines)[i + 1]
<1>4. next = ReadRule(rules, line)
  BY <1>2, ReadingIs
<1>5. /\ rules \in Rules /\ (rules.ours <=> OursAfter(lines, i))
      /\ Range(rules.allowed) = Taken(lines, i, "allow")
      /\ Range(rules.disallowed) = Taken(lines, i, "disallow")
  BY DEF ReadOk
<1>6. /\ line.key \in {"user-agent", "sitemap", "allow", "disallow", "crawl-delay"}
      /\ line.key \in {"sitemap", "allow", "disallow"} => line.value \in Seq(Letter)
      /\ line.key = "crawl-delay" => line.value \in Nat
  BY <1>3 DEF Lines
<1>7. OursAfter(lines, i + 1) <=>
          IF line.key = "user-agent" THEN line.value \in {"us", "any"} ELSE OursAfter(lines, i)
  BY <1>2, OursStep
<1>8. \A key : Taken(lines, i + 1, key) =
          Taken(lines, i, key) \cup
              (IF line.key = key /\ OursAfter(lines, i) THEN {line.value} ELSE {})
  BY <1>2, TakenStep
<1> HIDE DEF rules, line, next
<1>9. SUFFICES /\ next \in Rules /\ (next.ours <=> OursAfter(lines, i + 1))
               /\ Range(next.allowed) = Taken(lines, i + 1, "allow")
               /\ Range(next.disallowed) = Taken(lines, i + 1, "disallow")
  BY DEF ReadOk, next
<1>10. CASE line.key = "user-agent"
  <2>1. next = [rules EXCEPT !.ours = line.value \in {"us", "any"}]
    BY <1>4, <1>10 DEF ReadRule
  <2> DEFINE ours == line.value \in {"us", "any"}
  <2>2. ours \in BOOLEAN
    OBVIOUS
  <2>3. ours <=> OursAfter(lines, i + 1)
    BY <1>7, <1>10
  <2> HIDE DEF ours
  <2>4. next = [rules EXCEPT !.ours = ours]
    BY <2>1 DEF ours
  <2>5. /\ next \in Rules /\ next.ours = ours
        /\ next.allowed = rules.allowed /\ next.disallowed = rules.disallowed
    BY <1>5, <2>2, <2>4 DEF Rules
  <2>6. /\ Taken(lines, i + 1, "allow") = Taken(lines, i, "allow")
        /\ Taken(lines, i + 1, "disallow") = Taken(lines, i, "disallow")
    BY <1>8, <1>10
  <2> QED
    BY <1>5, <2>3, <2>5, <2>6
<1>11. CASE line.key = "sitemap"
  <2>1. next = [rules EXCEPT !.sitemaps = Append(@, line.value)]
    BY <1>4, <1>11 DEF ReadRule
  <2>2. Append(rules.sitemaps, line.value) \in Seq(Seq(Letter))
    BY <1>5, <1>6, <1>11, RangeOfAppend DEF Rules
  <2>3. /\ next \in Rules /\ next.ours = rules.ours
        /\ next.allowed = rules.allowed /\ next.disallowed = rules.disallowed
    BY <1>5, <2>1, <2>2 DEF Rules
  <2>4. /\ Taken(lines, i + 1, "allow") = Taken(lines, i, "allow")
        /\ Taken(lines, i + 1, "disallow") = Taken(lines, i, "disallow")
    BY <1>8, <1>11
  <2> QED
    BY <1>5, <1>7, <1>11, <2>3, <2>4
<1>12. CASE line.key \notin {"user-agent", "sitemap"} /\ ~rules.ours
  <2>1. next = rules
    BY <1>4, <1>12 DEF ReadRule
  <2>2. ~OursAfter(lines, i)
    BY <1>5, <1>12
  <2>3. /\ Taken(lines, i + 1, "allow") = Taken(lines, i, "allow")
        /\ Taken(lines, i + 1, "disallow") = Taken(lines, i, "disallow")
    BY <1>8, <2>2
  <2> QED
    BY <1>5, <1>7, <1>12, <2>1, <2>3
<1>13. CASE line.key = "allow" /\ rules.ours
  <2>1. next = [rules EXCEPT !.allowed = Append(@, line.value)]
    BY <1>4, <1>13 DEF ReadRule
  <2>2. /\ Append(rules.allowed, line.value) \in Seq(Seq(Letter))
        /\ Range(Append(rules.allowed, line.value)) = Range(rules.allowed) \cup {line.value}
    BY <1>5, <1>6, <1>13, RangeOfAppend DEF Rules
  <2>3. /\ next \in Rules /\ next.ours = rules.ours
        /\ next.allowed = Append(rules.allowed, line.value)
        /\ next.disallowed = rules.disallowed
    BY <1>5, <2>1, <2>2 DEF Rules
  <2>4. Taken(lines, i + 1, "allow") = Taken(lines, i, "allow") \cup {line.value}
    BY <1>5, <1>8, <1>13
  <2>5. Taken(lines, i + 1, "disallow") = Taken(lines, i, "disallow")
    BY <1>8, <1>13
  <2> QED
    BY <1>5, <1>7, <1>13, <2>2, <2>3, <2>4, <2>5
<1>14. CASE line.key = "disallow" /\ rules.ours
  <2>1. next = [rules EXCEPT !.disallowed = Append(@, line.value)]
    BY <1>4, <1>14 DEF ReadRule
  <2>2. /\ Append(rules.disallowed, line.value) \in Seq(Seq(Letter))
        /\ Range(Append(rules.disallowed, line.value))
              = Range(rules.disallowed) \cup {line.value}
    BY <1>5, <1>6, <1>14, RangeOfAppend DEF Rules
  <2>3. /\ next \in Rules /\ next.ours = rules.ours
        /\ next.disallowed = Append(rules.disallowed, line.value)
        /\ next.allowed = rules.allowed
    BY <1>5, <2>1, <2>2 DEF Rules
  <2>4. Taken(lines, i + 1, "disallow") = Taken(lines, i, "disallow") \cup {line.value}
    BY <1>5, <1>8, <1>14
  <2>5. Taken(lines, i + 1, "allow") = Taken(lines, i, "allow")
    BY <1>8, <1>14
  <2> QED
    BY <1>5, <1>7, <1>14, <2>2, <2>3, <2>4, <2>5
<1>15. CASE line.key = "crawl-delay" /\ rules.ours
  <2>1. next = [rules EXCEPT !.crawlDelay = line.value]
    BY <1>4, <1>15 DEF ReadRule
  <2>2. /\ next \in Rules /\ next.ours = rules.ours
        /\ next.allowed = rules.allowed /\ next.disallowed = rules.disallowed
    BY <1>5, <1>6, <1>15, <2>1 DEF Rules
  <2>3. /\ Taken(lines, i + 1, "allow") = Taken(lines, i, "allow")
        /\ Taken(lines, i + 1, "disallow") = Taken(lines, i, "disallow")
    BY <1>8, <1>15
  <2> QED
    BY <1>5, <1>7, <1>15, <2>2, <2>3
<1> QED
  BY <1>6, <1>10, <1>11, <1>12, <1>13, <1>14, <1>15

LEMMA ParseTakes ==
    ASSUME NEW lines \in Seq(Lines)
    PROVE  LET rules == ParseRobots(lines) IN
           /\ rules \in Rules
           /\ Range(rules.allowed) = Taken(lines, Len(lines), "allow")
           /\ Range(rules.disallowed) = Taken(lines, Len(lines), "disallow")
<1> DEFINE T == {i \in 0 .. Len(lines) : ReadOk(lines, i)}
<1>1. Len(lines) \in Nat
  BY LenProperties
<1>2. 0 \in T
  <2>1. Reading(lines)[0] = NoRules
    BY ReadingIs
  <2>2. NoRules \in Rules /\ ~NoRules.ours /\ NoRules.allowed = <<>> /\ NoRules.disallowed = <<>>
    BY DEF NoRules, Rules
  <2>3. Range(<<>>) = {}
    BY DEF Range
  <2>4. 1 .. 0 = {}
    OBVIOUS
  <2>5. ~OursAfter(lines, 0) /\ \A key : Taken(lines, 0, key) = {}
    BY <2>4 DEF OursAfter, Taken
  <2> QED
    <3>1. ReadOk(lines, 0)
      BY <2>1, <2>2, <2>3, <2>5, Zenon DEF ReadOk
    <3> QED
      BY <1>1, <3>1
<1>3. ASSUME NEW i \in 0 .. (Len(lines) - 1), i \in T PROVE i + 1 \in T
  <2>1. i + 1 \in 0 .. Len(lines)
    BY <1>1
  <2> QED
    BY <1>3, <2>1, ReadOkStep
<1>4. Len(lines) \in T
  <2> HIDE DEF T
  <2>1. \A i \in 0 .. Len(lines) : i \in T
    BY <1>1, <1>2, <1>3, StepByStep
  <2> QED
    BY <1>1, <2>1
<1> QED
  BY <1>4 DEF ReadOk, ParseRobots

\* With a rule between any two user-agent lines, the rules meant for this
\* crawler are the ones parseRobotsTxt takes.
LEMMA TakenIsMeant ==
    ASSUME NEW lines \in Seq(Lines), NEW key,
           \A j, l \in AgentsAt(lines) : j < l => Apart(lines, j, l)
    PROVE  RulesMeant(lines, key) = Taken(lines, Len(lines), key)
<1>1. Len(lines) \in Nat /\ DOMAIN lines = 1 .. Len(lines)
  BY LenProperties
<1>2. ASSUME NEW i \in 1 .. Len(lines)
      PROVE  AgentsOf(lines, i) \cap {"us", "any"} # {} <=> OursAfter(lines, i - 1)
  <2>1. ASSUME AgentsOf(lines, i) \cap {"us", "any"} # {} PROVE OursAfter(lines, i - 1)
    <3>1. PICK j \in AgentsAt(lines) :
             /\ lines[j].value \in {"us", "any"} /\ j < i
             /\ \A l \in AgentsAt(lines) : l < i => ~Apart(lines, j, l)
      BY <2>1 DEF AgentsOf
    <3>2. j \in 1 .. (i - 1) /\ lines[j].key = "user-agent"
      BY <1>1, <3>1 DEF AgentsAt
    <3>3. ASSUME NEW k \in (j + 1) .. (i - 1), lines[k].key = "user-agent" PROVE FALSE
      <4>1. k \in DOMAIN lines /\ j < k /\ k < i
        BY <1>1, <3>2
      <4>2. k \in AgentsAt(lines)
        BY <3>3, <4>1 DEF AgentsAt
      <4> QED
        BY <3>1, <4>1, <4>2
    <3> QED
      BY <3>1, <3>2, <3>3 DEF OursAfter
  <2>2. ASSUME OursAfter(lines, i - 1) PROVE AgentsOf(lines, i) \cap {"us", "any"} # {}
    <3>1. PICK j \in 1 .. (i - 1) :
             /\ lines[j].key = "user-agent" /\ lines[j].value \in {"us", "any"}
             /\ \A k \in (j + 1) .. (i - 1) : lines[k].key # "user-agent"
      BY <2>2 DEF OursAfter
    <3>2. j \in AgentsAt(lines) /\ j < i
      BY <1>1, <3>1 DEF AgentsAt
    <3>3. ASSUME NEW l \in AgentsAt(lines), l < i PROVE ~Apart(lines, j, l)
      <4>1. l \in 1 .. Len(lines) /\ lines[l].key = "user-agent"
        BY <1>1 DEF AgentsAt
      <4>2. ~(l \in (j + 1) .. (i - 1))
        BY <3>1, <4>1
      <4>3. (j + 1) .. (l - 1) = {}
        BY <3>3, <4>1, <4>2
      <4> QED
        BY <4>3 DEF Apart
    <3>4. lines[j].value \in AgentsOf(lines, i)
      BY <3>2, <3>3 DEF AgentsOf
    <3> QED
      BY <3>1, <3>4
  <2> QED
    BY <2>1, <2>2
<1>3. {i \in DOMAIN lines : lines[i].key = key /\ AgentsOf(lines, i) \cap {"us", "any"} # {}}
          = {i \in 1 .. Len(lines) : lines[i].key = key /\ OursAfter(lines, i - 1)}
  BY <1>1, <1>2
<1> QED
  BY <1>3 DEF RulesMeant, Taken

-----------------------------------------------------------------------------
(* The matching of a path. *)

\* The letters of part are those of the path behind a position.
Fits(part, path, o) ==
    o + Len(part) <= Len(path) /\ \A m \in 1 .. Len(part) : part[m] = path[o + m]

LEMMA FitsIs ==
    ASSUME NEW part \in Seq(Letter), NEW path \in Seq(Letter), NEW o \in 0 .. Len(path)
    PROVE  IsPrefix(part, SubSeq(path, o + 1, Len(path))) <=> Fits(part, path, o)
<1> DEFINE sub == SubSeq(path, o + 1, Len(path))
<1>1. Len(path) \in Nat /\ Len(part) \in Nat
  BY LenProperties
<1>2. o \in Nat /\ o <= Len(path) /\ \A i \in (o + 1) .. Len(path) : i \in 1 .. Len(path)
  BY <1>1
<1>3. \A i \in (o + 1) .. Len(path) : path[i] \in Letter
  BY <1>2, ElementOfSeq
<1>4. /\ sub \in Seq(Letter)
      /\ Len(sub) = IF o + 1 <= Len(path) THEN Len(path) - (o + 1) + 1 ELSE 0
      /\ \A i \in 1 .. Len(path) - (o + 1) + 1 : sub[i] = path[o + 1 + i - 1]
  BY <1>1, <1>2, <1>3, SubSeqProperties
<1>5. Len(sub) = Len(path) - o /\ \A i \in 1 .. (Len(path) - o) : sub[i] = path[o + i]
  BY <1>1, <1>2, <1>4
<1>6. SubSeq(part, 1, Len(part)) = part
  BY SubSeqFull
<1> HIDE DEF sub
<1>7. CASE ~(Len(part) <= Len(sub))
  BY <1>1, <1>2, <1>5, <1>7 DEF IsPrefix, Fits, sub
<1>8. CASE Len(part) <= Len(sub)
  <2> DEFINE front == SubSeq(sub, 1, Len(part))
  <2>1. \A i \in 1 .. Len(part) : i \in 1 .. Len(sub) /\ i \in 1 .. (Len(path) - o)
    BY <1>1, <1>2, <1>5, <1>8
  <2>2. \A i \in 1 .. Len(part) : sub[i] \in Letter
    BY <1>4, <2>1, ElementOfSeq
  <2>3. /\ front \in Seq(Letter)
        /\ Len(front) = IF 1 <= Len(part) THEN Len(part) - 1 + 1 ELSE 0
        /\ \A i \in 1 .. Len(part) - 1 + 1 : front[i] = sub[1 + i - 1]
    BY <1>1, <2>2, SubSeqProperties
  <2>4. Len(front) = Len(part) /\ \A i \in 1 .. Len(part) : front[i] = sub[i]
    BY <1>1, <2>3
  <2>5. \A i \in 1 .. Len(part) : front[i] = path[o + i]
    BY <1>5, <2>1, <2>4
  <2>6. part = front <=> \A i \in 1 .. Len(part) : part[i] = path[o + i]
    BY <2>3, <2>4, <2>5, SeqEqual
  <2>7. o + Len(part) <= Len(path)
    BY <1>1, <1>2, <1>5, <1>8
  <2>8. Fits(part, path, o) <=> \A i \in 1 .. Len(part) : part[i] = path[o + i]
    BY <2>7 DEF Fits
  <2>9. IsPrefix(part, sub) <=> part = front
    BY <1>6, <1>8 DEF IsPrefix
  <2> QED
    BY <2>6, <2>8, <2>9 DEF sub
<1> QED
  BY <1>7, <1>8

LEMMA PrefixFits ==
    ASSUME NEW part \in Seq(Letter), NEW path \in Seq(Letter)
    PROVE  IsPrefix(part, path) <=> Fits(part, path, 0)
<1>1. Len(path) \in Nat /\ 0 \in 0 .. Len(path) /\ 0 + 1 = 1
  BY LenProperties
<1>2. SubSeq(path, 1, Len(path)) = path
  BY SubSeqFull
<1> QED
  BY <1>1, <1>2, FitsIs

\* The least of the positions where the part fits, or none.
FirstFit(part, path, from, o) ==
    /\ o \in from .. Len(path) /\ Fits(part, path, o)
    /\ \A q \in from .. Len(path) : Fits(part, path, q) => o <= q

LEMMA BehindIs ==
    ASSUME NEW part \in Seq(Letter), NEW path \in Seq(Letter), NEW pos \in 0 .. Len(path)
    PROVE  \/ /\ Behind(part, path, pos) = Len(path) + 1
              /\ \A o \in pos .. Len(path) : ~Fits(part, path, o)
           \/ \E o : FirstFit(part, path, pos, o) /\ Behind(part, path, pos) = o + Len(part)
<1> DEFINE found == {i \in pos .. Len(path) : IsPrefix(part, SubSeq(path, i + 1, Len(path)))}
<1>1. Len(path) \in Nat
  BY LenProperties
<1>2. pos .. Len(path) \subseteq 0 .. Len(path) /\ pos .. Len(path) \subseteq Nat
  BY <1>1
<1>3. \A i \in pos .. Len(path) : i \in found <=> Fits(part, path, i)
  BY <1>2, FitsIs
<1>4. Behind(part, path, pos) = IF found = {} THEN Len(path) + 1 ELSE Min(found) + Len(part)
  BY DEF Behind
<1>5. found \subseteq pos .. Len(path)
  OBVIOUS
<1> HIDE DEF found
<1>6. CASE found = {}
  BY <1>3, <1>4, <1>6
<1>7. CASE found # {}
  <2>1. \E n \in found : \A m \in found : n <= m
    BY <1>2, <1>5, <1>7, Least
  <2>2. Min(found) \in found /\ \A m \in found : Min(found) <= m
    BY <2>1 DEF Min
  <2>3. FirstFit(part, path, pos, Min(found))
    BY <1>3, <1>5, <2>2 DEF FirstFit
  <2> QED
    BY <1>4, <1>7, <2>3
<1> QED
  BY <1>6, <1>7

LEMMA StarBeforeIs ==
    ASSUME NEW pattern \in Seq(Letter), NEW i \in 1 .. (Len(pattern) + 1)
    PROVE  LET star == StarBefore(pattern, i) IN
           /\ star \in 0 .. (i - 1) /\ (star = 0 \/ star \in Stars(pattern))
           /\ \A k \in (star + 1) .. (i - 1) : k \in 1 .. Len(pattern) /\ pattern[k] # "*"
<1> DEFINE S == {0} \cup {j \in Stars(pattern) : j < i}
<1> DEFINE T == {i - j : j \in S}
<1>1. Len(pattern) \in Nat /\ DOMAIN pattern = 1 .. Len(pattern)
  BY LenProperties
<1>2. S \subseteq 0 .. (i - 1) /\ 0 \in S
  BY <1>1 DEF Stars
<1>3. T \subseteq Nat /\ T # {}
  BY <1>2
<1>4. PICK n \in T : \A m \in T : n <= m
  BY <1>3, Least
<1>5. PICK j \in S : n = i - j
  BY <1>4
<1>6. \A k \in S : k <= j
  <2> TAKE k \in S
  <2>1. i - k \in T
    OBVIOUS
  <2>2. i - j <= i - k
    BY <1>4, <1>5, <2>1
  <2>3. i \in Nat /\ j \in Nat /\ k \in Nat
    BY <1>1, <1>2
  <2> QED
    BY <2>2, <2>3
<1> HIDE DEF T
<1>7. \E x \in S : \A y \in S : x >= y
  BY <1>1, <1>2, <1>6
<1>8. StarBefore(pattern, i) = Max(S)
  BY DEF StarBefore
<1> HIDE DEF S
<1>9. Max(S) \in S /\ \A y \in S : Max(S) >= y
  BY <1>7 DEF Max
<1>10. PICK star : star = Max(S)
  OBVIOUS
<1>11. star \in 0 .. (i - 1) /\ \A y \in S : star >= y
  BY <1>2, <1>9, <1>10
<1>12. star = 0 \/ star \in Stars(pattern)
  BY <1>9, <1>10 DEF S
<1>13. ASSUME NEW k \in (star + 1) .. (i - 1)
       PROVE  k \in 1 .. Len(pattern) /\ pattern[k] # "*"
  <2>1. k \in 1 .. Len(pattern) /\ k < i /\ ~(star >= k)
    BY <1>1, <1>11
  <2>2. k \notin S
    BY <1>11, <2>1
  <2>3. k \notin Stars(pattern)
    BY <2>1, <2>2 DEF S
  <2> QED
    BY <1>1, <2>1, <2>3 DEF Stars
<1> QED
  BY <1>8, <1>10, <1>11, <1>12, <1>13

LEMMA MatchingIs ==
    ASSUME NEW pattern \in Seq(Letter), NEW path \in Seq(Letter)
    PROVE  LET pos == Matching(pattern, path) IN
           /\ pos[0] = 0
           /\ \A i \in 1 .. (Len(pattern) + 1) :
                 LET star == StarBefore(pattern, i)
                     part == SubSeq(pattern, star + 1, i - 1)
                 IN pos[i] = IF pos[star] > Len(path) \/ part = <<>> THEN pos[star]
                             ELSE IF star = 0 /\ ~IsPrefix(part, path) THEN Len(path) + 1
                             ELSE Behind(part, path, pos[star])
<1> DEFINE E(f, i) ==
        LET star == StarBefore(pattern, i)
            part == SubSeq(pattern, star + 1, i - 1)
        IN IF i = 0 THEN 0
           ELSE IF f[star] > Len(path) \/ part = <<>> THEN f[star]
           ELSE IF star = 0 /\ ~IsPrefix(part, path) THEN Len(path) + 1
           ELSE Behind(part, path, f[star])
<1> DEFINE Is(f, n) == f = [i \in 0 .. n |-> E(f, i)]
<1> DEFINE N == Len(pattern) + 1
<1> DEFINE T == {n \in 0 .. N : \E f : Is(f, n)}
<1>1. N \in Nat
  BY LenProperties
<1>2. \A f, g : \A i \in 1 .. N :
          f[StarBefore(pattern, i)] = g[StarBefore(pattern, i)] => E(f, i) = E(g, i)
  OBVIOUS
<1>3. \A i \in 1 .. N : StarBefore(pattern, i) \in 0 .. (i - 1)
  BY StarBeforeIs
<1>4. \A f : E(f, 0) = 0
  OBVIOUS
<1>5. Matching(pattern, path) = CHOOSE f : Is(f, N)
  BY DEF Matching
<1>6. SUFFICES ASSUME NEW pos, Is(pos, N) PROVE pos[0] = 0 /\ \A i \in 1 .. N : pos[i] = E(pos, i)
  <2>1. 0 \in T
    <3> DEFINE f == [i \in 0 .. 0 |-> 0]
    <3>1. \A i \in 0 .. 0 : i = 0
      OBVIOUS
    <3> HIDE DEF E
    <3>2. [i \in 0 .. 0 |-> E(f, i)] = f
      BY <1>4, <3>1
    <3> HIDE DEF f
    <3> QED
      BY <1>1, <3>2
  <2>2. ASSUME NEW n \in 0 .. (N - 1), n \in T PROVE n + 1 \in T
    <3>1. PICK f : Is(f, n)
      BY <2>2
    <3>2. n \in Nat /\ n + 1 \in 1 .. N /\ n + 1 \in 0 .. N
      BY <1>1
    <3> HIDE DEF E, N
    <3> DEFINE g == [i \in 0 .. (n + 1) |-> IF i <= n THEN f[i] ELSE E(f, n + 1)]
    <3>3. \A k \in 0 .. n : g[k] = f[k]
      BY <3>2
    <3>4. ASSUME NEW i \in 1 .. (n + 1) PROVE E(g, i) = E(f, i)
      <4>1. i \in 1 .. N /\ StarBefore(pattern, i) \in 0 .. (i - 1)
        BY <1>1, <1>3, <3>2
      <4>2. StarBefore(pattern, i) \in 0 .. n
        BY <3>2, <4>1
      <4>3. f[StarBefore(pattern, i)] = g[StarBefore(pattern, i)]
        BY <3>3, <4>2
      <4> HIDE DEF g
      <4> QED
        BY <1>2, <4>1, <4>3
    <3>5. ASSUME NEW i \in 0 .. (n + 1) PROVE g[i] = E(g, i)
      <4>1. CASE i = 0
        <5>1. 0 \in 0 .. n /\ f[0] = E(f, 0)
          <6>1. 0 \in 0 .. n
            BY <3>2
          <6>2. f = [j \in 0 .. n |-> E(f, j)]
            BY <3>1, Zenon
          <6> QED
            BY <6>1, <6>2, Zenon
        <5> QED
          BY <1>4, <3>3, <4>1, <5>1
      <4>2. CASE i # 0 /\ i <= n
        <5>1. i \in 1 .. (n + 1) /\ i \in 0 .. n
          BY <3>2, <4>2
        <5>2. f[i] = E(f, i)
          BY <3>1, <5>1
        <5> QED
          BY <3>3, <3>4, <5>1, <5>2
      <4>3. CASE ~(i <= n)
        <5>1. i = n + 1 /\ i \in 1 .. (n + 1)
          BY <3>2, <4>3
        <5>2. g[i] = E(f, n + 1)
          BY <4>3, <5>1
        <5> QED
          BY <3>4, <5>1, <5>2
      <4> QED
        BY <4>1, <4>2, <4>3
    <3>6. g = [i \in 0 .. (n + 1) |-> g[i]]
      OBVIOUS
    <3> HIDE DEF g
    <3>7. Is(g, n + 1)
      BY <3>5, <3>6
    <3> QED
      BY <3>2, <3>7
  <2>3. \E f : Is(f, N)
    <3> HIDE DEF T
    <3>1. \A n \in 0 .. N : n \in T
      BY <1>1, <2>1, <2>2, StepByStep
    <3>2. N \in T
      BY <1>1, <3>1
    <3> QED
      BY <3>2 DEF T
  <2> HIDE DEF E, N
  <2>4. Is(Matching(pattern, path), N)
    BY <1>5, <2>3
  <2>5. \A i \in 1 .. N : i # 0
    BY <1>1
  <2>6. /\ Matching(pattern, path)[0] = 0
        /\ \A i \in 1 .. N : Matching(pattern, path)[i] = E(Matching(pattern, path), i)
    BY <1>6, <2>4
  <2> QED
    BY <2>5, <2>6 DEF E, N
<1> HIDE DEF E
<1>7. 0 \in 0 .. N /\ \A i \in 1 .. N : i \in 0 .. N
  BY <1>1
<1> HIDE DEF N
<1> QED
  BY <1>4, <1>6, <1>7

\* f lays the first n letters of p on the path (Means).
Laying(p, path, n, f) ==
    /\ f \in [0 .. n -> 0 .. Len(path)] /\ f[0] = 0
    /\ \A i \in 1 .. n : IF p[i] = "*" THEN f[i] >= f[i - 1]
                         ELSE f[i] = f[i - 1] + 1 /\ p[i] = path[f[i]]

\* No star comes behind the letter at s up to the one at n.
Straight(p, s, n) ==
    n \in 0 .. Len(p) /\ s \in 0 .. n /\ \A k \in (s + 1) .. n : p[k] # "*"

\* Between stars the letters are laid one after the other.
LEMMA Run ==
    ASSUME NEW p \in Seq(Letter), NEW path \in Seq(Letter), NEW n, NEW s, Straight(p, s, n),
           NEW f, Laying(p, path, n, f)
    PROVE  f[n] = f[s] + (n - s) /\ Fits(SubSeq(p, s + 1, n), path, f[s])
<1> DEFINE part == SubSeq(p, s + 1, n)
<1> DEFINE T == {m \in 0 .. (n - s) : f[s + m] = f[s] + m}
<1>0. n \in 0 .. Len(p) /\ s \in 0 .. n /\ \A k \in (s + 1) .. n : p[k] # "*"
  BY DEF Straight
<1>1. Len(p) \in Nat /\ Len(path) \in Nat
  BY LenProperties
<1>2. n \in Nat /\ s \in Nat /\ n - s \in Nat /\ n <= Len(p)
  BY <1>0, <1>1
<1>3. \A k \in 0 .. n : f[k] \in 0 .. Len(path)
  BY DEF Laying
<1>4. s \in 0 .. n /\ f[s] \in 0 .. Len(path)
  BY <1>2, <1>3
<1>5. 0 \in T
  BY <1>1, <1>2, <1>4
<1>6. ASSUME NEW m \in 0 .. (n - s - 1)
      PROVE  /\ f[s + (m + 1)] = f[s + m] + 1 /\ p[s + (m + 1)] = path[f[s + (m + 1)]]
  <2>1. PICK k, l : k = s + (m + 1) /\ l = s + m
    OBVIOUS
  <2>2. k \in 1 .. n /\ k \in (s + 1) .. n /\ k - 1 = l
    BY <1>2, <2>1
  <2>3. p[k] # "*"
    BY <1>0, <2>2
  <2>4. f[k] = f[l] + 1 /\ p[k] = path[f[k]]
    BY <2>2, <2>3 DEF Laying
  <2> QED
    BY <2>1, <2>4, Zenon
<1>7. ASSUME NEW m \in 0 .. (n - s - 1), m \in T PROVE m + 1 \in T
  <2>1. f[s + m] = f[s] + m /\ f[s + (m + 1)] = f[s + m] + 1
    BY <1>6, <1>7
  <2> QED
    BY <1>1, <1>2, <1>4, <2>1
<1>8. \A m \in 0 .. (n - s) : f[s + m] = f[s] + m
  <2> HIDE DEF T
  <2>1. \A m \in 0 .. (n - s) : m \in T
    BY <1>2, <1>5, <1>7, StepByStep
  <2> QED
    BY <2>1 DEF T
<1>9. f[n] = f[s] + (n - s)
  <2>1. n - s \in 0 .. (n - s) /\ s + (n - s) = n
    BY <1>2
  <2> QED
    BY <1>8, <2>1
<1>10. \A k \in (s + 1) .. n : p[k] \in Letter
  <2>1. \A k \in (s + 1) .. n : k \in 1 .. Len(p)
    BY <1>1, <1>2
  <2> QED
    BY <2>1, ElementOfSeq
<1>11. /\ Len(part) = n - s
       /\ \A m \in 1 .. (n - s) : part[m] = p[s + m]
  <2>1. /\ Len(part) = IF s + 1 <= n THEN n - (s + 1) + 1 ELSE 0
        /\ \A i \in 1 .. n - (s + 1) + 1 : part[i] = p[s + 1 + i - 1]
    BY <1>2, <1>10, SubSeqProperties
  <2> QED
    BY <1>2, <2>1
<1>12. f[s] + Len(part) <= Len(path)
  <2>1. n \in 0 .. n
    BY <1>2
  <2> QED
    BY <1>1, <1>2, <1>3, <1>9, <1>11, <2>1
<1>13. ASSUME NEW m \in 1 .. (n - s) PROVE part[m] = path[f[s] + m]
  <2>1. m - 1 \in 0 .. (n - s - 1) /\ (m - 1) + 1 = m /\ m \in 0 .. (n - s)
    BY <1>2
  <2>2. p[s + m] = path[f[s + m]]
    BY <1>6, <2>1
  <2>3. f[s + m] = f[s] + m
    BY <1>8, <2>1
  <2> QED
    BY <1>11, <2>2, <2>3
<1> QED
  BY <1>9, <1>11, <1>12, <1>13 DEF Fits

\* A laying of the letters before a star is continued by the letters between
\* that star and a later position, wherever behind it they fit.
Continues(p, path, s, n, f, o) ==
    /\ s \in 1 .. Len(p) /\ p[s] = "*"
    /\ n \in s .. Len(p) /\ \A k \in (s + 1) .. n : p[k] # "*"
    /\ Laying(p, path, s - 1, f)
    /\ o \in f[s - 1] .. Len(path) /\ Fits(SubSeq(p, s + 1, n), path, o)

LEMMA Continue ==
    ASSUME NEW p \in Seq(Letter), NEW path \in Seq(Letter), NEW s, NEW n, NEW f, NEW o,
           Continues(p, path, s, n, f, o)
    PROVE  \E g : Laying(p, path, n, g) /\ g[n] = o + (n - s)
<1> DEFINE part == SubSeq(p, s + 1, n)
<1> DEFINE g == [k \in 0 .. n |-> IF k <= s - 1 THEN f[k] ELSE o + (k - s)]
<1>0. /\ s \in 1 .. Len(p) /\ p[s] = "*"
      /\ n \in s .. Len(p) /\ \A k \in (s + 1) .. n : p[k] # "*"
      /\ Laying(p, path, s - 1, f)
      /\ o \in f[s - 1] .. Len(path) /\ Fits(SubSeq(p, s + 1, n), path, o)
  BY DEF Continues
<1>1. Len(p) \in Nat /\ Len(path) \in Nat
  BY LenProperties
<1>2. n \in Nat /\ s \in Nat \ {0} /\ s - 1 \in Nat /\ s <= n /\ n <= Len(p)
  BY <1>0, <1>1
<1>3. /\ \A k \in 0 .. (s - 1) : f[k] \in 0 .. Len(path)
      /\ f[0] = 0
      /\ \A i \in 1 .. (s - 1) : IF p[i] = "*" THEN f[i] >= f[i - 1]
                                 ELSE f[i] = f[i - 1] + 1 /\ p[i] = path[f[i]]
  BY <1>0 DEF Laying
<1>4. f[s - 1] \in 0 .. Len(path) /\ o \in Nat /\ f[s - 1] <= o
  <2>1. s - 1 \in 0 .. (s - 1)
    BY <1>2
  <2>2. f[s - 1] \in 0 .. Len(path)
    BY <1>3, <2>1
  <2> QED
    BY <1>0, <1>1, <2>2
<1>5. Len(part) = n - s /\ \A m \in 1 .. (n - s) : part[m] = p[s + m]
  <2>1. \A k \in (s + 1) .. n : k \in 1 .. Len(p)
    BY <1>1, <1>2
  <2>2. \A k \in (s + 1) .. n : p[k] \in Letter
    BY <2>1, ElementOfSeq
  <2>3. /\ Len(part) = IF s + 1 <= n THEN n - (s + 1) + 1 ELSE 0
        /\ \A i \in 1 .. n - (s + 1) + 1 : part[i] = p[s + 1 + i - 1]
    <3> HIDE DEF g
    <3>1. s + 1 \in Int /\ n \in Int
      BY <1>2
    <3> QED
      BY <2>2, <3>1, SubSeqProperties
  <2> QED
    BY <1>2, <2>3
<1>6. o + (n - s) <= Len(path) /\ \A m \in 1 .. (n - s) : p[s + m] = path[o + m]
  BY <1>0, <1>5 DEF Fits
<1>7. ASSUME NEW k \in 0 .. n PROVE g[k] \in 0 .. Len(path)
  <2>1. CASE k <= s - 1
    BY <1>2, <1>3, <2>1
  <2>2. CASE ~(k <= s - 1)
    BY <1>1, <1>2, <1>4, <1>6, <2>2
  <2> QED
    BY <2>1, <2>2
<1>8. g[0] = 0
  BY <1>2, <1>3
<1>9. ASSUME NEW i \in 1 .. n
      PROVE  IF p[i] = "*" THEN g[i] >= g[i - 1] ELSE g[i] = g[i - 1] + 1 /\ p[i] = path[g[i]]
  <2>1. i \in Nat \ {0} /\ i - 1 \in 0 .. n /\ i \in 0 .. n
    BY <1>2
  <2>2. CASE i <= s - 1
    <3>1. i - 1 <= s - 1 /\ i \in 1 .. (s - 1)
      BY <1>2, <2>1, <2>2
    <3>2. g[i] = f[i] /\ g[i - 1] = f[i - 1]
      BY <2>1, <2>2, <3>1
    <3> HIDE DEF g
    <3> QED
      BY <1>3, <3>1, <3>2
  <2>3. CASE i = s
    <3>1. ~(i <= s - 1) /\ i - 1 <= s - 1 /\ i - 1 = s - 1 /\ o + (i - s) = o
      BY <1>2, <1>4, <2>3
    <3>2. g[i] = o /\ g[i - 1] = f[s - 1]
      BY <2>1, <3>1
    <3> HIDE DEF g
    <3> QED
      BY <1>0, <1>4, <2>3, <3>2
  <2>4. CASE i > s
    <3>1. ~(i <= s - 1) /\ ~(i - 1 <= s - 1) /\ i - s \in 1 .. (n - s) /\ s + (i - s) = i
          /\ i \in (s + 1) .. n
      BY <1>2, <2>1, <2>4
    <3>2. g[i] = o + (i - s) /\ g[i - 1] = o + ((i - 1) - s)
      BY <2>1, <3>1
    <3> HIDE DEF g
    <3>3. g[i] = g[i - 1] + 1
      BY <1>2, <1>4, <2>1, <3>2
    <3>4. p[s + (i - s)] = path[o + (i - s)]
      BY <1>6, <3>1
    <3>5. p[i] # "*"
      BY <1>0, <3>1
    <3> QED
      BY <3>1, <3>2, <3>3, <3>4, <3>5
  <2> QED
    BY <1>2, <2>1, <2>2, <2>3, <2>4
<1>10. g[n] = o + (n - s)
  BY <1>2
<1>11. g \in [0 .. n -> 0 .. Len(path)]
  BY <1>7
<1> HIDE DEF g
<1> QED
  BY <1>8, <1>9, <1>10, <1>11 DEF Laying

\* The same for the letters before the first star.
LEMMA LayAtStart ==
    ASSUME NEW p \in Seq(Letter), NEW path \in Seq(Letter), NEW n \in 0 .. Len(p),
           \A k \in 1 .. n : p[k] # "*"
    PROVE  /\ Fits(SubSeq(p, 1, n), path, 0) => \E f : Laying(p, path, n, f) /\ f[n] = n
           /\ \A f : Laying(p, path, n, f) => f[n] = n /\ Fits(SubSeq(p, 1, n), path, 0)
<1>1. Len(p) \in Nat /\ Len(path) \in Nat /\ n \in Nat /\ n <= Len(p)
  BY LenProperties
<1>2. ASSUME Fits(SubSeq(p, 1, n), path, 0) PROVE \E f : Laying(p, path, n, f) /\ f[n] = n
  <2> DEFINE f == [k \in 0 .. n |-> k]  part == SubSeq(p, 1, n)
  <2>1. Len(part) = n /\ \A m \in 1 .. n : part[m] = p[m]
    <3>1. \A k \in 1 .. n : k \in 1 .. Len(p)
      BY <1>1
    <3>2. \A k \in 1 .. n : p[k] \in Letter
      BY <3>1, ElementOfSeq
    <3>3. /\ Len(part) = IF 1 <= n THEN n - 1 + 1 ELSE 0
          /\ \A i \in 1 .. n - 1 + 1 : part[i] = p[1 + i - 1]
      BY <1>1, <3>2, SubSeqProperties
    <3> QED
      BY <1>1, <3>3
  <2>2. n <= Len(path) /\ \A m \in 1 .. n : p[m] = path[m]
    BY <1>1, <1>2, <2>1 DEF Fits
  <2>3. f \in [0 .. n -> 0 .. Len(path)] /\ f[0] = 0 /\ f[n] = n
    BY <1>1, <2>2
  <2>4. ASSUME NEW i \in 1 .. n PROVE f[i] = f[i - 1] + 1 /\ p[i] = path[f[i]]
    BY <1>1, <2>2
  <2> HIDE DEF f
  <2> QED
    BY <2>3, <2>4 DEF Laying
<1>3. ASSUME NEW f, Laying(p, path, n, f)
      PROVE  f[n] = n /\ Fits(SubSeq(p, 1, n), path, 0)
  <2>1. 0 \in 0 .. n /\ 0 + 1 = 1 /\ f[0] = 0
    BY <1>1, <1>3 DEF Laying
  <2>2. f[n] = f[0] + (n - 0) /\ Fits(SubSeq(p, 0 + 1, n), path, f[0])
    <3>1. Straight(p, 0, n)
      BY <1>1, <2>1 DEF Straight
    <3> QED
      BY <1>3, <2>1, <3>1, Run
  <2> QED
    BY <1>1, <2>1, <2>2
<1> QED
  BY <1>2, <1>3

\* The position that the search has reached before the i-th letter: where the
\* laying that ends first ends, or behind the path when there is no laying.
Greedy(p, path, i) ==
    LET pos == Matching(p, path)[i] IN
    /\ pos \in 0 .. (Len(path) + 1)
    /\ pos <= Len(path) => \E f : Laying(p, path, i - 1, f) /\ f[i - 1] = pos
    /\ \A f : Laying(p, path, i - 1, f) => pos <= f[i - 1]

LEMMA GreedyStep ==
    ASSUME NEW p \in Seq(Letter), NEW path \in Seq(Letter), NEW i \in 1 .. (Len(p) + 1),
           \A j \in 1 .. (i - 1) : Greedy(p, path, j)
    PROVE  Greedy(p, path, i)
<1> PICK s : s = StarBefore(p, i)
  OBVIOUS
<1> DEFINE n == i - 1  part == SubSeq(p, s + 1, n)  pos == Matching(p, path)
<1>1. Len(p) \in Nat /\ Len(path) \in Nat /\ DOMAIN p = 1 .. Len(p)
  BY LenProperties
<1>2. n \in 0 .. Len(p) /\ n \in Nat /\ n = i - 1
  BY <1>1
<1>3. /\ s \in 0 .. n /\ (s = 0 \/ s \in Stars(p))
      /\ \A k \in (s + 1) .. n : k \in 1 .. Len(p) /\ p[k] # "*"
  BY StarBeforeIs
<1>4. pos[i] = IF pos[s] > Len(path) \/ part = <<>> THEN pos[s]
               ELSE IF s = 0 /\ ~IsPrefix(part, path) THEN Len(path) + 1
               ELSE Behind(part, path, pos[s])
  BY MatchingIs
<1>5. /\ part \in Seq(Letter) /\ Len(part) = n - s
  <2>1. \A k \in (s + 1) .. n : p[k] \in Letter
    BY <1>3, ElementOfSeq
  <2>2. part \in Seq(Letter) /\ Len(part) = IF s + 1 <= n THEN n - (s + 1) + 1 ELSE 0
    BY <1>2, <1>3, <2>1, SubSeqProperties
  <2> QED
    BY <1>2, <1>3, <2>2
<1>6. part = <<>> <=> n = s
  <2>1. Len(part) = 0 <=> part = <<>>
    BY <1>5, EmptySeq
  <2> QED
    BY <1>2, <1>3, <1>5, <2>1
<1>7. pos[0] = 0
  BY MatchingIs
<1>8. \A f : Laying(p, path, n, f) => \A k \in 0 .. n : f[k] \in 0 .. Len(path)
  BY DEF Laying
<1>9. SUFFICES /\ pos[i] \in 0 .. (Len(path) + 1)
               /\ pos[i] <= Len(path) => \E f : Laying(p, path, n, f) /\ f[n] = pos[i]
               /\ \A f : Laying(p, path, n, f) => pos[i] <= f[n]
  BY DEF Greedy
<1> HIDE DEF n, part, pos
<1>10. CASE s = 0
  <2>1. part = SubSeq(p, 1, n) /\ \A k \in 1 .. n : p[k] # "*"
    BY <1>3, <1>10 DEF part
  <2>2. /\ Fits(part, path, 0) => \E f : Laying(p, path, n, f) /\ f[n] = n
        /\ \A f : Laying(p, path, n, f) => f[n] = n /\ Fits(part, path, 0)
    BY <1>2, <2>1, LayAtStart
  <2>3. pos[s] = 0 /\ ~(pos[s] > Len(path)) /\ 0 \in 0 .. Len(path)
    BY <1>1, <1>7, <1>10
  <2>4. IsPrefix(part, path) <=> Fits(part, path, 0)
    BY <1>5, PrefixFits
  <2>5. CASE Fits(part, path, 0)
    <3>1. n <= Len(path)
      BY <1>1, <1>2, <1>5, <1>10, <2>5 DEF Fits
    <3>2. pos[i] = n
      <4>1. CASE part = <<>>
        BY <1>4, <1>6, <1>10, <2>3, <4>1
      <4>2. CASE part # <<>>
        <5>1. pos[i] = Behind(part, path, 0)
          BY <1>4, <2>3, <2>4, <2>5, <4>2
        <5>2. PICK o : FirstFit(part, path, 0, o) /\ Behind(part, path, 0) = o + Len(part)
          BY <1>5, <2>3, <2>5, BehindIs
        <5>3. o = 0
          BY <1>1, <2>3, <2>5, <5>2 DEF FirstFit
        <5> QED
          BY <1>2, <1>5, <1>10, <5>1, <5>2, <5>3
      <4> QED
        BY <4>1, <4>2
    <3> QED
      BY <1>1, <1>2, <2>2, <2>5, <3>1, <3>2
  <2>6. CASE ~Fits(part, path, 0)
    <3>1. part # <<>>
      <4>1. Len(<<>>) = 0 /\ 0 + 0 <= Len(path) /\ 1 .. 0 = {}
        BY <1>1
      <4>2. Fits(<<>>, path, 0)
        BY <4>1 DEF Fits
      <4> QED
        BY <2>6, <4>2
    <3>2. pos[i] = Len(path) + 1
      BY <1>4, <1>10, <2>3, <2>4, <2>6, <3>1
    <3> QED
      BY <1>1, <2>2, <2>6, <3>2
  <2> QED
    BY <2>5, <2>6
<1>11. CASE s # 0
  <2>1. s \in 1 .. n /\ s \in 1 .. Len(p) /\ s - 1 \in Nat /\ p[s] = "*" /\ n \in s .. Len(p)
    BY <1>1, <1>2, <1>3, <1>11 DEF Stars
  <2>2. Greedy(p, path, s)
    BY <1>2, <2>1
  <2>3. /\ pos[s] \in 0 .. (Len(path) + 1)
        /\ pos[s] <= Len(path) => \E f : Laying(p, path, s - 1, f) /\ f[s - 1] = pos[s]
        /\ \A f : Laying(p, path, s - 1, f) => pos[s] <= f[s - 1]
    BY <2>2 DEF Greedy, pos
  <2>4. ASSUME NEW f, Laying(p, path, n, f)
        PROVE  /\ f[s] \in pos[s] .. Len(path) /\ Fits(part, path, f[s])
               /\ f[n] = f[s] + (n - s)
    <3> DEFINE g == [k \in 0 .. (s - 1) |-> f[k]]
    <3>1. /\ s - 1 \in 0 .. (s - 1) /\ s \in 0 .. n /\ s - 1 \in 0 .. n
          /\ 0 \in 0 .. (s - 1) /\ s \in 1 .. n
          /\ \A k \in 0 .. (s - 1) : k \in 0 .. n
      BY <1>2, <2>1
    <3>2. f[s] >= f[s - 1] /\ f[0] = 0
      BY <2>1, <2>4, <3>1 DEF Laying
    <3>3. \A j \in 1 .. (s - 1) : j \in 1 .. n /\ j \in 0 .. (s - 1) /\ j - 1 \in 0 .. (s - 1)
      BY <1>2, <2>1
    <3>4. \A j \in 1 .. (s - 1) : g[j] = f[j] /\ g[j - 1] = f[j - 1]
      BY <3>3
    <3>5. g \in [0 .. (s - 1) -> 0 .. Len(path)] /\ g[0] = 0
      BY <1>8, <2>4, <3>1, <3>2
    <3>6. g[s - 1] = f[s - 1]
      BY <3>1
    <3> HIDE DEF g
    <3>7. \A j \in 1 .. (s - 1) : IF p[j] = "*" THEN g[j] >= g[j - 1]
                                  ELSE g[j] = g[j - 1] + 1 /\ p[j] = path[g[j]]
      BY <2>4, <3>3, <3>4 DEF Laying
    <3>8. Laying(p, path, s - 1, g)
      BY <3>5, <3>7 DEF Laying
    <3>9. pos[s] <= f[s - 1]
      BY <2>3, <3>6, <3>8
    <3>10. f[s] \in 0 .. Len(path) /\ f[s - 1] \in 0 .. Len(path)
      BY <1>8, <2>4, <3>1
    <3>11. f[s] \in pos[s] .. Len(path)
      <4>1. f[s] \in Nat /\ f[s - 1] \in Nat /\ f[s] <= Len(path) /\ pos[s] \in Nat
        BY <1>1, <2>3, <3>10
      <4> QED
        BY <1>1, <3>2, <3>9, <4>1
    <3>12. f[n] = f[s] + (n - s) /\ Fits(SubSeq(p, s + 1, n), path, f[s])
      <4>1. Straight(p, s, n)
        BY <1>2, <1>3 DEF Straight
      <4> QED
        BY <2>4, <4>1, Run
    <3> QED
      BY <3>11, <3>12 DEF part
  <2>5. CASE pos[s] > Len(path)
    <3>1. pos[i] = pos[s] /\ pos[s] = Len(path) + 1
      BY <1>1, <1>4, <2>3, <2>5
    <3>2. ASSUME NEW f, Laying(p, path, n, f) PROVE FALSE
      <4>1. f[s] \in pos[s] .. Len(path)
        BY <2>4, <3>2
      <4> QED
        BY <1>1, <3>1, <4>1
    <3> QED
      BY <1>1, <3>1, <3>2
  <2>6. CASE ~(pos[s] > Len(path))
    <3>1. pos[s] \in 0 .. Len(path)
      BY <1>1, <2>3, <2>6
    <3>2. \/ /\ pos[i] = Len(path) + 1
             /\ \A o \in pos[s] .. Len(path) : ~Fits(part, path, o)
          \/ \E o : FirstFit(part, path, pos[s], o) /\ pos[i] = o + Len(part)
      <4>1. CASE part = <<>>
        <5>1. pos[i] = pos[s] /\ Len(part) = 0
          BY <1>4, <4>1
        <5>2. Fits(part, path, pos[s])
          BY <1>1, <3>1, <5>1 DEF Fits
        <5>3. FirstFit(part, path, pos[s], pos[s])
          BY <1>1, <3>1, <5>2 DEF FirstFit
        <5>4. pos[i] = pos[s] + Len(part)
          BY <1>1, <3>1, <5>1
        <5> QED
          BY <5>3, <5>4
      <4>2. CASE part # <<>>
        <5>1. pos[i] = Behind(part, path, pos[s])
          BY <1>4, <1>11, <2>6, <4>2
        <5> QED
          BY <1>5, <3>1, <5>1, BehindIs
      <4> QED
        BY <4>1, <4>2
    <3>3. CASE \A o \in pos[s] .. Len(path) : ~Fits(part, path, o)
      <4>1. pos[i] = Len(path) + 1
        BY <3>2, <3>3 DEF FirstFit
      <4>2. \A f : ~Laying(p, path, n, f)
        BY <2>4, <3>3
      <4> QED
        BY <1>1, <4>1, <4>2
    <3>4. CASE ~(\A o \in pos[s] .. Len(path) : ~Fits(part, path, o))
      <4>1. PICK o : FirstFit(part, path, pos[s], o) /\ pos[i] = o + Len(part)
        BY <3>2, <3>4
      <4>2. /\ o \in pos[s] .. Len(path) /\ Fits(part, path, o) /\ pos[i] = o + (n - s)
            /\ \A q \in pos[s] .. Len(path) : Fits(part, path, q) => o <= q
        BY <1>5, <4>1 DEF FirstFit
      <4>3. PICK f : Laying(p, path, s - 1, f) /\ f[s - 1] = pos[s]
        BY <1>1, <2>3, <3>1
      <4>4. \A k \in (s + 1) .. n : p[k] # "*"
        BY <1>3
      <4>5. o \in f[s - 1] .. Len(path) /\ Fits(SubSeq(p, s + 1, n), path, o)
        BY <4>2, <4>3 DEF part
      <4>6. \E g : Laying(p, path, n, g) /\ g[n] = o + (n - s)
        <5>1. Continues(p, path, s, n, f, o)
          BY <2>1, <4>3, <4>4, <4>5 DEF Continues
        <5> QED
          BY <5>1, Continue
      <4>7. o \in Nat /\ n - s \in Nat /\ o + (n - s) <= Len(path)
        <5>1. o + Len(part) <= Len(path)
          BY <4>2 DEF Fits
        <5>2. Len(path) \in Nat /\ pos[s] \in Nat /\ n - s \in Nat
          BY <1>1, <1>2, <2>1, <3>1
        <5>3. o \in Nat
          BY <4>2, <5>2
        <5>4. Len(part) = n - s
          BY <1>5
        <5> QED
          BY <5>1, <5>2, <5>3, <5>4
      <4>8. ASSUME NEW g, Laying(p, path, n, g) PROVE pos[i] <= g[n]
        <5>1. /\ g[s] \in pos[s] .. Len(path) /\ Fits(part, path, g[s])
              /\ g[n] = g[s] + (n - s)
          BY <2>4, <4>8
        <5>2. o <= g[s]
          BY <4>2, <5>1
        <5>3. PICK y : y = g[s]
          OBVIOUS
        <5>4. y \in Nat /\ o <= y
          <6>1. Len(path) \in Nat /\ pos[s] \in Nat
            BY <1>1, <1>2, <2>1, <3>1
          <6> QED
            BY <5>1, <5>2, <5>3, <6>1
        <5>5. o + (n - s) <= y + (n - s)
          BY <4>7, <5>4
        <5> QED
          BY <4>2, <5>1, <5>3, <5>5
      <4> QED
        BY <1>1, <4>2, <4>6, <4>7, <4>8
    <3> QED
      BY <3>3, <3>4
  <2> QED
    BY <2>5, <2>6
<1> QED
  BY <1>10, <1>11

LEMMA Search ==
    ASSUME NEW p \in Seq(Letter), NEW path \in Seq(Letter)
    PROVE  MatchWildcard(p, path, FALSE) <=> \E f : Laying(p, path, Len(p), f)
<1> DEFINE N == Len(p) + 1  T == {i \in 0 .. Len(p) : Greedy(p, path, i + 1)}
<1>1. Len(p) \in Nat /\ Len(path) \in Nat /\ N - 1 = Len(p)
  BY LenProperties
<1>2. ASSUME NEW i \in 0 .. Len(p), \A j \in 0 .. Len(p) : j < i => j \in T
      PROVE  i \in T
  <2>1. i + 1 \in 1 .. (Len(p) + 1)
    BY <1>1
  <2>2. ASSUME NEW j \in 1 .. ((i + 1) - 1) PROVE Greedy(p, path, j)
    <3>1. j - 1 \in 0 .. Len(p) /\ j - 1 < i /\ (j - 1) + 1 = j
      BY <1>1
    <3> QED
      BY <1>2, <3>1
  <2>3. Greedy(p, path, i + 1)
    BY <2>1, <2>2, GreedyStep
  <2> QED
    BY <2>3
<1>3. Greedy(p, path, N)
  <2>1. Len(p) \in 0 .. Len(p)
    BY <1>1
  <2> HIDE DEF T
  <2>2. \A i \in 0 .. Len(p) : i \in T
    BY <1>1, <1>2, FromBelow
  <2> QED
    BY <2>1, <2>2 DEF T
<1> DEFINE pos == Matching(p, path)[N]
<1>4. MatchWildcard(p, path, FALSE) <=> pos <= Len(path)
  BY DEF MatchWildcard
<1>5. /\ pos <= Len(path) => \E f : Laying(p, path, Len(p), f)
      /\ \A f : Laying(p, path, Len(p), f) => pos <= f[Len(p)]
      /\ pos \in 0 .. (Len(path) + 1)
  BY <1>1, <1>3 DEF Greedy
<1> HIDE DEF pos
<1>6. ASSUME NEW f, Laying(p, path, Len(p), f) PROVE pos <= Len(path)
  <2>1. Len(p) \in 0 .. Len(p)
    BY <1>1
  <2>2. f[Len(p)] \in 0 .. Len(path)
    BY <1>6, <2>1 DEF Laying
  <2>3. pos <= f[Len(p)]
    BY <1>5, <1>6
  <2> QED
    BY <1>1, <1>5, <2>2, <2>3
<1> QED
  BY <1>4, <1>5, <1>6

\* The search for the parts finds a place for each exactly when the letters of
\* the pattern can be laid on the path, unless it has both a star and a "$"
\* that ends it (matchRobotsPattern, matchWildcard).
LEMMA PatternAgrees ==
    ASSUME NEW pattern \in Seq(Letter), NEW path \in Seq(Letter),
           ~(Anchored(pattern) /\ Stars(pattern) # {})
    PROVE  MatchPattern(pattern, path) <=> Means(pattern, path)
<1> PICK p : p = IF Anchored(pattern) THEN Front(pattern) ELSE pattern
  OBVIOUS
<1>1. /\ Len(pattern) \in Nat /\ DOMAIN pattern = 1 .. Len(pattern)
      /\ pattern # <<>> => Len(pattern) \in Nat \ {0}
      /\ Len(path) \in Nat
  BY LenProperties, EmptySeq
<1>2. p \in Seq(Letter) /\ (Anchored(pattern) => Stars(p) = {})
  <2>1. CASE Anchored(pattern)
    <3>1. p = SubSeq(pattern, 1, Len(pattern) - 1) /\ pattern # <<>>
      BY <2>1 DEF Front, Anchored
    <3>2. \A i \in 1 .. (Len(pattern) - 1) : i \in 1 .. Len(pattern)
      BY <1>1
    <3>3. \A i \in 1 .. (Len(pattern) - 1) : pattern[i] \in Letter
      BY <3>2, ElementOfSeq
    <3>4. /\ p \in Seq(Letter)
          /\ Len(p) = IF 1 <= Len(pattern) - 1 THEN Len(pattern) - 1 - 1 + 1 ELSE 0
          /\ \A i \in 1 .. Len(pattern) - 1 - 1 + 1 : p[i] = pattern[1 + i - 1]
      BY <1>1, <3>1, <3>3, SubSeqProperties
    <3>5. DOMAIN p = 1 .. Len(p)
      BY <3>4, LenProperties
    <3>6. ASSUME NEW i \in Stars(p) PROVE FALSE
      <4>1. i \in 1 .. Len(p) /\ p[i] = "*"
        BY <3>5 DEF Stars
      <4>2. i \in DOMAIN pattern /\ pattern[i] = "*"
        BY <1>1, <3>1, <3>4, <4>1
      <4>3. i \in Stars(pattern)
        BY <4>2 DEF Stars
      <4> QED
        BY <2>1, <4>3
    <3> QED
      BY <3>4, <3>6
  <2>2. CASE ~Anchored(pattern)
    BY <2>2
  <2> QED
    BY <2>1, <2>2
<1>3. Len(p) \in Nat /\ DOMAIN p = 1 .. Len(p)
  BY <1>2, LenProperties
<1>4. Means(pattern, path) <=>
          /\ pattern # <<>>
          /\ \E f : Laying(p, path, Len(p), f) /\ (Anchored(pattern) => f[Len(p)] = Len(path))
  <2> DEFINE onward(f) == \A i \in 1 .. Len(p) : IF p[i] = "*" THEN f[i] >= f[i - 1]
                                                 ELSE f[i] = f[i - 1] + 1 /\ p[i] = path[f[i]]
  <2>1. Means(pattern, path) <=>
            /\ pattern # <<>>
            /\ \E f \in [0 .. Len(p) -> 0 .. Len(path)] :
                   /\ f[0] = 0 /\ (Anchored(pattern) => f[Len(p)] = Len(path))
                   /\ onward(f)
    <3>1. Means(pattern, path) <=>
              /\ pattern # <<>>
              /\ \E f \in [0 .. Len(p) -> 0 .. Len(path)] :
                     /\ f[0] = 0 /\ (Anchored(pattern) => f[Len(p)] = Len(path))
                     /\ \A i \in DOMAIN p : IF p[i] = "*" THEN f[i] >= f[i - 1]
                                             ELSE f[i] = f[i - 1] + 1 /\ p[i] = path[f[i]]
      BY SMT DEF Means
    <3> QED
      BY <1>3, <3>1, Zenon
  <2>2. \A f : Laying(p, path, Len(p), f) <=>
                 f \in [0 .. Len(p) -> 0 .. Len(path)] /\ f[0] = 0 /\ onward(f)
    BY Zenon DEF Laying
  <2> HIDE DEF onward
  <2> QED
    BY <2>1, <2>2, Zenon
<1>5. CASE pattern = <<>>
  BY <1>4, <1>5 DEF MatchPattern
<1>6. CASE pattern # <<>> /\ Stars(p) # {}
  <2>1. ~Anchored(pattern)
    BY <1>2, <1>6
  <2>2. MatchPattern(pattern, path) <=> MatchWildcard(p, path, FALSE)
    <3>1. Anchored(pattern) = FALSE
      BY <2>1 DEF Anchored
    <3>2. p = pattern
      BY <2>1
    <3> QED
      BY <1>6, <3>1, <3>2, Zenon DEF MatchPattern
  <2> QED
    BY <1>2, <1>4, <1>6, <2>1, <2>2, Search
<1>7. CASE pattern # <<>> /\ Stars(p) = {}
  <2>1. \A k \in 1 .. Len(p) : p[k] # "*"
    BY <1>3, <1>7 DEF Stars
  <2>2. Len(p) \in 0 .. Len(p) /\ SubSeq(p, 1, Len(p)) = p
    BY <1>2, <1>3, SubSeqFull
  <2>3. /\ Fits(p, path, 0) => \E f : Laying(p, path, Len(p), f) /\ f[Len(p)] = Len(p)
        /\ \A f : Laying(p, path, Len(p), f) => f[Len(p)] = Len(p) /\ Fits(p, path, 0)
    <3> PICK n : n = Len(p)
      OBVIOUS
    <3>1. n \in 0 .. Len(p) /\ SubSeq(p, 1, n) = p /\ \A k \in 1 .. n : p[k] # "*"
      BY <2>1, <2>2
    <3>2. /\ Fits(SubSeq(p, 1, n), path, 0) => \E f : Laying(p, path, n, f) /\ f[n] = n
          /\ \A f : Laying(p, path, n, f) => f[n] = n /\ Fits(SubSeq(p, 1, n), path, 0)
      BY <1>2, <3>1, LayAtStart, ZenonT(30)
    <3> QED
      BY <3>1, <3>2, Zenon
  <2>4. CASE Anchored(pattern)
    <3>1. MatchPattern(pattern, path) <=> path = p
      BY <1>7, <2>4 DEF MatchPattern
    <3>2. Means(pattern, path) <=> Fits(p, path, 0) /\ Len(p) = Len(path)
      BY <1>4, <1>7, <2>3, <2>4
    <3>3. ASSUME path = p PROVE Fits(p, path, 0) /\ Len(p) = Len(path)
      <4>1. 0 + Len(p) = Len(p) /\ \A m \in 1 .. Len(p) : 0 + m = m
        BY <1>3
      <4> QED
        BY <1>3, <3>3, <4>1 DEF Fits
    <3>4. ASSUME Fits(p, path, 0), Len(p) = Len(path) PROVE path = p
      <4>1. \A m \in 1 .. Len(p) : 0 + m = m
        BY <1>3
      <4>2. \A m \in 1 .. Len(p) : p[m] = path[m]
        BY <3>4, <4>1 DEF Fits
      <4> QED
        BY <1>2, <3>4, <4>2, SeqEqual
    <3> QED
      BY <3>1, <3>2, <3>3, <3>4
  <2>5. CASE ~Anchored(pattern)
    <3>1. MatchPattern(pattern, path) <=> IsPrefix(p, path)
      BY <1>7, <2>5 DEF MatchPattern
    <3>2. IsPrefix(p, path) <=> Fits(p, path, 0)
      BY <1>2, PrefixFits
    <3>3. Means(pattern, path) <=> Fits(p, path, 0)
      BY <1>4, <1>7, <2>3, <2>5
    <3> QED
      BY <3>1, <3>2, <3>3
  <2> QED
    BY <2>4, <2>5
<1> QED
  BY <1>5, <1>6, <1>7

\* What is made of a file that is not misread is what the file means
\* (parseRobotsTxt, IsAllowed).
LEMMA ParserAgrees ==
    ASSUME NEW u \in Clear
    PROVE  IsAllowed(RobotsTxt(HostOf[u], TRUE), u) <=> u \in Meant
<1> DEFINE lines == RobotsFile[HostOf[u]]  path == PathOf[u]  rules == ParseRobots(lines)
<1>1. u \in Url /\ (lines = None \/ ~Misread(lines))
  BY DEF Clear
<1>2. /\ path \in Seq(Letter) /\ lines \in Seq(Lines) \cup {None} /\ None \notin Rules
  BY <1>1, FetchingAssumption
<1>3. u \in Meant <=> lines = None \/ MeansAllowed(lines, path)
  BY <1>1 DEF Meant
<1>4. RobotsTxt(HostOf[u], TRUE) = IF lines # None THEN rules ELSE None
  BY DEF RobotsTxt
<1> HIDE DEF lines, path, rules
<1>5. CASE lines = None
  BY <1>3, <1>4, <1>5 DEF IsAllowed
<1>6. CASE lines # None
  <2>1. lines \in Seq(Lines) /\ ~Misread(lines)
    BY <1>1, <1>2, <1>6
  <2>2. /\ \A j, l \in AgentsAt(lines) : j < l => Apart(lines, j, l)
        /\ \A l \in Range(lines) : l.key \in {"allow", "disallow"} =>
               ~(Anchored(l.value) /\ Stars(l.value) # {})
    BY <2>1 DEF Misread
  <2>3. /\ rules \in Rules
        /\ Range(rules.allowed) = Taken(lines, Len(lines), "allow")
        /\ Range(rules.disallowed) = Taken(lines, Len(lines), "disallow")
    BY <2>1, ParseTakes DEF rules
  <2>4. /\ RulesMeant(lines, "allow") = Range(rules.allowed)
        /\ RulesMeant(lines, "disallow") = Range(rules.disallowed)
    BY <2>1, <2>2, <2>3, TakenIsMeant
  <2>5. ASSUME NEW key \in {"allow", "disallow"}, NEW p \in RulesMeant(lines, key)
        PROVE  MatchPattern(p, path) <=> Means(p, path)
    <3>1. PICK i \in DOMAIN lines : lines[i].key = key /\ p = lines[i].value
      BY DEF RulesMeant
    <3>2. i \in 1 .. Len(lines)
      BY <2>1, <3>1, LenProperties
    <3>3. lines[i] \in Lines /\ lines[i] \in Range(lines)
      BY <2>1, <3>1, <3>2, ElementOfSeq DEF Range
    <3>4. p \in Seq(Letter)
      BY <3>1, <3>3 DEF Lines
    <3>5. ~(Anchored(p) /\ Stars(p) # {})
      BY <2>2, <3>1, <3>3
    <3> QED
      BY <1>2, <3>4, <3>5, PatternAgrees
  <2>6. RulesAllow(rules, path) <=> MeansAllowed(lines, path)
    BY <2>4, <2>5 DEF RulesAllow, MeansAllowed
  <2>7. rules # None
    BY <1>2, <2>3
  <2>8. path = PathOf[u]
    BY DEF path
  <2> QED
    BY <1>3, <1>4, <1>6, <2>6, <2>7, <2>8 DEF IsAllowed
<1> QED
  BY <1>5, <1>6

-----------------------------------------------------------------------------
(* The robots.txt cache. *)

\* Its host's robots.txt lets u in.
Permitted(u) == IsAllowed(RobotsTxt(HostOf[u], TRUE), u)

\* The cache has what the hosts' files say, or nothing of one whose fetch
\* failed; what was let in or kept out was so by its host's file.
RobotsInv ==
    /\ DOMAIN cache = Host
    /\ \A h \in Host : /\ cache[h] \in {Unread, None, RobotsTxt(h, TRUE)}
                       /\ h \notin failed => cache[h] \in {Unread, RobotsTxt(h, TRUE)}
    /\ DOMAIN at = Worker /\ DOMAIN url = Worker
    /\ \A w \in Worker : at[w] = "missing" => url[w] \in Url
    /\ \A u \in Url : u \in Seen /\ HostOf[u] \notin failed => Permitted(u)
    /\ \A u \in Url \cap refused : ~Permitted(u) \/ ~IsDomainAllowed(Labels[HostOf[u]])

\* Rules that are the host's, or none where a fetch failed, decide well.
LEMMA DecideKeeps ==
    ASSUME RobotsInv, NEW u \in Url, NEW rules, Decide(u, rules),
           rules \in {None, RobotsTxt(HostOf[u], TRUE)},
           HostOf[u] \notin failed' => rules = RobotsTxt(HostOf[u], TRUE),
           failed \subseteq failed', Fetched' = Fetched
    PROVE  /\ \A v \in Url : v \in Seen' /\ HostOf[v] \notin failed' => Permitted(v)
           /\ \A v \in Url \cap refused' :
                 ~Permitted(v) \/ ~IsDomainAllowed(Labels[HostOf[v]])
<1>1. CASE IsAllowed(rules, u) /\ IsDomainAllowed(Labels[HostOf[u]])
  <2>1. queued' \subseteq queued \cup {u} /\ UNCHANGED <<refused, done>>
    BY <1>1 DEF Decide
  <2>2. Seen' \subseteq Seen \cup {u}
    BY <2>1 DEF Seen
  <2>3. HostOf[u] \notin failed' => Permitted(u)
    BY <1>1 DEF Permitted
  <2> QED
    BY <2>1, <2>2, <2>3 DEF RobotsInv
<1>2. CASE ~(IsAllowed(rules, u) /\ IsDomainAllowed(Labels[HostOf[u]]))
  <2>1. refused' = refused \cup {u} /\ UNCHANGED <<queued, done>>
    BY <1>2 DEF Decide
  <2>2. Seen' = Seen
    BY <2>1 DEF Seen
  <2>3. ~Permitted(u) \/ ~IsDomainAllowed(Labels[HostOf[u]])
    <3>1. IsAllowed(None, u)
      BY DEF IsAllowed
    <3> QED
      BY <1>2, <3>1 DEF Permitted
  <2> QED
    BY <2>1, <2>2, <2>3 DEF RobotsInv
<1> QED
  BY <1>1, <1>2

LEMMA RobotsStep == RobotsInv /\ [Next]_vars => RobotsInv'
<1> SUFFICES ASSUME RobotsInv, [Next]_vars PROVE RobotsInv'
  OBVIOUS
<1> \A u \in Url : HostOf[u] \in Host
  BY FetchingAssumption DEF FetchingAssumption
<1> DOMAIN at = Worker /\ DOMAIN url = Worker /\ DOMAIN cache = Host
  BY DEF RobotsInv
<1> USE DEF robots, workers, urls
<1>1. ASSUME NEW w \in Worker, NEW u \in Url, Check(w, u) PROVE RobotsInv'
  <2>1. UNCHANGED <<cache, failed>> /\ at[w] = "idle"
    BY <1>1 DEF Check
  <2>2. CASE cache[HostOf[u]] = Unread
    <3>1. /\ at' = [at EXCEPT ![w] = "missing"] /\ url' = [url EXCEPT ![w] = u]
          /\ UNCHANGED <<queued, refused, done>>
      BY <1>1, <2>2 DEF Check
    <3>2. Seen' = Seen
      <4>1. {v \in Worker : at'[v] = "fetching"} = {v \in Worker : at[v] = "fetching"}
        BY <2>1, <3>1
      <4>2. \A v \in Worker : at[v] = "fetching" => url'[v] = url[v]
        BY <2>1, <3>1
      <4>3. Fetched' = Fetched
        BY <4>1, <4>2 DEF Fetched
      <4> QED
        BY <3>1, <4>3 DEF Seen
    <3>3. DOMAIN at' = Worker /\ DOMAIN url' = Worker
      BY <3>1
    <3>4. \A v \in Worker : at'[v] = "missing" => url'[v] \in Url
      BY <3>1 DEF RobotsInv
    <3> QED
      BY <2>1, <3>1, <3>2, <3>3, <3>4 DEF RobotsInv
  <2>3. CASE cache[HostOf[u]] # Unread
    <3>1. Decide(u, cache[HostOf[u]]) /\ UNCHANGED <<at, url>>
      BY <1>1, <2>3 DEF Check
    <3>2. Fetched' = Fetched
      BY <3>1 DEF Fetched
    <3>3. /\ cache[HostOf[u]] \in {None, RobotsTxt(HostOf[u], TRUE)}
          /\ HostOf[u] \notin failed' => cache[HostOf[u]] = RobotsTxt(HostOf[u], TRUE)
      BY <2>1, <2>3 DEF RobotsInv
    <3> PICK rules : rules = cache[HostOf[u]]
      OBVIOUS
    <3>4. /\ \A v \in Url : v \in Seen' /\ HostOf[v] \notin failed' => Permitted(v)
          /\ \A v \in Url \cap refused' :
                ~Permitted(v) \/ ~IsDomainAllowed(Labels[HostOf[v]])
      BY <2>1, <3>1, <3>2, <3>3, DecideKeeps
    <3> QED
      BY <2>1, <3>1, <3>4 DEF RobotsInv
  <2> QED
    BY <2>2, <2>3
<1>2. ASSUME NEW w \in Worker, NEW got \in BOOLEAN, StoreRobots(w, got) PROVE RobotsInv'
  <2>1. at[w] = "missing" /\ url[w] \in Url
    BY <1>2 DEF StoreRobots, RobotsInv
  <2> PICK u \in Url : u = url[w]
    BY <2>1
  <2> PICK h \in Host : h = HostOf[u]
    OBVIOUS
  <2> PICK data : data = RobotsTxt(h, got)
    OBVIOUS
  <2>2. /\ cache' = [cache EXCEPT ![h] = data] /\ Decide(u, data)
        /\ failed' = IF got \/ RobotsFile[h] = None THEN failed ELSE failed \cup {h}
        /\ at' = [at EXCEPT ![w] = "idle"] /\ url' = [url EXCEPT ![w] = None]
    BY <1>2 DEF StoreRobots
  <2>3. /\ data \in {None, RobotsTxt(h, TRUE)}
        /\ h \notin failed' => data = RobotsTxt(h, TRUE)
    BY <2>2 DEF RobotsTxt
  <2>4. failed \subseteq failed' /\ \A g \in Host : g # h /\ g \notin failed' => g \notin failed
    BY <2>2
  <2>5. Fetched' = Fetched
    <3>1. {v \in Worker : at'[v] = "fetching"} = {v \in Worker : at[v] = "fetching"}
      BY <2>1, <2>2
    <3>2. \A v \in Worker : at[v] = "fetching" => url'[v] = url[v]
      BY <2>1, <2>2
    <3> QED
      BY <3>1, <3>2 DEF Fetched
  <2>6. /\ \A v \in Url : v \in Seen' /\ HostOf[v] \notin failed' => Permitted(v)
        /\ \A v \in Url \cap refused' :
              ~Permitted(v) \/ ~IsDomainAllowed(Labels[HostOf[v]])
    BY <2>2, <2>3, <2>4, <2>5, DecideKeeps
  <2>7. \A g \in Host : /\ cache'[g] \in {Unread, None, RobotsTxt(g, TRUE)}
                        /\ g \notin failed' => cache'[g] \in {Unread, RobotsTxt(g, TRUE)}
    BY <2>2, <2>3, <2>4 DEF RobotsInv
  <2>8. /\ DOMAIN cache' = Host /\ DOMAIN at' = Worker /\ DOMAIN url' = Worker
        /\ \A v \in Worker : at'[v] = "missing" => url'[v] \in Url
    BY <2>2 DEF RobotsInv
  <2> QED
    BY <2>6, <2>7, <2>8 DEF RobotsInv
\* The other steps find nothing and refuse nothing.
<1>3. ASSUME UNCHANGED <<cache, failed, refused>>, Seen' \subseteq Seen,
             DOMAIN at' = Worker, DOMAIN url' = Worker,
             \A v \in Worker : at'[v] = "missing" => at[v] = "missing" /\ url'[v] = url[v]
      PROVE  RobotsInv'
  BY <1>3 DEF RobotsInv
<1>4. ASSUME NEW w \in Worker, NEW u \in Url, Claim(w, u) PROVE RobotsInv'
  <2>1. /\ u \in queued /\ queued' = queued \ {u} /\ UNCHANGED <<cache, failed, refused, done>>
        /\ at' = [at EXCEPT ![w] = "fetching"] /\ url' = [url EXCEPT ![w] = u]
    BY <1>4 DEF Claim
  <2>2. \A v \in Worker : v # w => at'[v] = at[v] /\ url'[v] = url[v]
    BY <2>1
  <2>3. url'[w] = u /\ at'[w] = "fetching"
    BY <2>1
  <2>4. Fetched' \subseteq Fetched \cup {u}
    BY <2>2, <2>3 DEF Fetched
  <2>5. Seen' \subseteq Seen
    BY <2>1, <2>4 DEF Seen
  <2> QED
    BY <1>3, <2>1, <2>2, <2>3, <2>5
<1>5. ASSUME NEW w \in Worker, FetchPage(w) PROVE RobotsInv'
  <2>1. /\ at[w] = "fetching" /\ UNCHANGED <<cache, failed, refused>>
        /\ at' = [at EXCEPT ![w] = "idle"] /\ url' = [url EXCEPT ![w] = None]
        /\ queued' \subseteq queued \cup {url[w]} /\ done' \subseteq done \cup {url[w]}
    BY <1>5 DEF FetchPage
  <2>2. \A v \in Worker : v # w => at'[v] = at[v] /\ url'[v] = url[v]
    BY <2>1
  <2>3. at'[w] = "idle"
    BY <2>1
  <2>4. Fetched' \subseteq Fetched /\ url[w] \in Fetched
    BY <2>1, <2>2, <2>3 DEF Fetched
  <2>5. Seen' \subseteq Seen
    BY <2>1, <2>4 DEF Seen
  <2> QED
    BY <1>3, <2>1, <2>2, <2>3, <2>5
<1>6. ASSUME UNCHANGED <<cache, failed, at, url, queued, refused, done>> PROVE RobotsInv'
  <2>1. Seen' = Seen
    BY <1>6 DEF Seen, Fetched
  <2> QED
    BY <1>3, <1>6, <2>1
<1>7. Tick \/ (\E d \in Domain : Probe(d)) => RobotsInv'
  BY <1>6 DEF Tick, Probe
<1>8. UNCHANGED vars => RobotsInv'
  BY <1>6 DEF vars
<1> QED
  BY <1>1, <1>2, <1>4, <1>5, <1>7, <1>8 DEF Next

\* However the workers' reads of the cache and the fetches of robots.txt
\* interleave, succeed and fail, a URL is let in or kept out as its host's
\* file means it (RobotsManager.IsAllowed, getRobotsData, parseRobotsTxt,
\* matchRobotsPattern, Engine.AddRequest).
THEOREM RobotsObeyed == Spec => []RobotsAreObeyed
<1>1. Init => RobotsInv
  BY DEF Init, RobotsInv, Seen, Fetched
<1>2. RobotsInv => RobotsAreObeyed
  <2>1. \A u \in Clear : u \in Url /\ (Permitted(u) <=> u \in Meant)
    BY ParserAgrees DEF Permitted, Clear
  <2> QED
    BY <2>1 DEF RobotsInv, RobotsAreObeyed
<1> QED
  BY <1>1, <1>2, RobotsStep, PTL DEF Spec

-----------------------------------------------------------------------------
(* Numbers and sizes, for the deduplicators.                               *)

LEMMA GreatestPosition ==
    ASSUME NEW n \in Nat, NEW places, places \subseteq 1 .. n, places # {}
    PROVE  Max(places) \in places /\ \A j \in places : Max(places) >= j
<1> DEFINE T == {n - j : j \in places}
<1>1. T \subseteq Nat /\ T # {}
  <2>1. ASSUME NEW j \in places PROVE n - j \in Nat
    <3>1. j \in 1 .. n
      OBVIOUS
    <3> QED
      BY <3>1
  <2> QED
    BY <2>1
<1>2. PICK d \in T : \A m \in T : d <= m
  BY <1>1, Least
<1>3. PICK j \in places : d = n - j
  BY <1>2
<1>4. ASSUME NEW k \in places PROVE j >= k
  <2>1. n - k \in T
    OBVIOUS
  <2>2. n - j <= n - k
    BY <1>2, <1>3, <2>1
  <2> QED
    BY <2>2
<1>5. \E x \in places : \A y \in places : x >= y
  BY <1>4
<1> QED
  BY <1>5 DEF Max

LEMMA SizeOfUnion ==
    ASSUME NEW S, NEW T, IsFiniteSet(S), IsFiniteSet(T), S \cap T = {}
    PROVE  IsFiniteSet(S \cup T) /\ Cardinality(S \cup T) = Cardinality(S) + Cardinality(T)
<1>1. /\ IsFiniteSet(S \cup T)
      /\ Cardinality(S \cup T) = Cardinality(S) + Cardinality(T) - Cardinality(S \cap T)
  BY FS_Union
<1>2. Cardinality(S) \in Nat /\ Cardinality(T) \in Nat
  BY FS_CardinalityType
<1>3. Cardinality(S \cap T) = 0
  BY FS_EmptySet
<1> QED
  BY <1>1, <1>2, <1>3

-----------------------------------------------------------------------------
(* How often a parameter comes in a query.                                 *)

LEMMA PlacesAre ==
    ASSUME NEW S, NEW seq \in Seq(S), NEW p
    PROVE  /\ IsFiniteSet({i \in 1 .. Len(seq) : seq[i] = p})
           /\ Times(seq, p) = Cardinality({i \in 1 .. Len(seq) : seq[i] = p})
           /\ Times(seq, p) \in Nat
<1> PICK L : L = Len(seq)
  OBVIOUS
<1>1. L \in Nat /\ DOMAIN seq = 1 .. L
  BY LenProperties
<1>2. IsFiniteSet(1 .. L)
  BY <1>1, FS_Interval
<1> DEFINE places == {i \in 1 .. L : seq[i] = p}
<1>3. places \in SUBSET (1 .. L)
  OBVIOUS
<1>4. Times(seq, p) = Cardinality(places)
  BY <1>1, Zenon DEF Times
<1> HIDE DEF places
<1>5. IsFiniteSet(places)
  BY <1>2, <1>3, FS_Subset
<1>6. Cardinality(places) \in Nat
  BY <1>5, FS_CardinalityType
<1> QED
  BY <1>4, <1>5, <1>6 DEF places

LEMMA ShiftedIsAsLarge ==
    ASSUME NEW places, IsFiniteSet(places), places \subseteq Nat, NEW d \in Nat
    PROVE  /\ IsFiniteSet({d + i : i \in places})
           /\ Cardinality({d + i : i \in places}) = Cardinality(places)
<1> DEFINE f == [i \in places |-> d + i]
           to == {d + i : i \in places}
<1>1. f \in [places -> to] /\ \A i \in places : f[i] = d + i
  OBVIOUS
<1>2. \A a, b \in places : f[a] = f[b] => a = b
  BY <1>1
<1>3. \A t \in to : \E s \in places : f[s] = t
  OBVIOUS
<1>4. DOMAIN f = places
  OBVIOUS
<1> HIDE DEF f, to
<1>5. f \in Bijection(places, to)
  BY <1>1, <1>2, <1>3, <1>4 DEF Bijection, Injection, Surjection, IsInjective
<1>6. ExistsBijection(places, to)
  BY <1>5 DEF ExistsBijection
<1>7. IsFiniteSet(to) /\ Cardinality(to) = Cardinality(places)
  BY <1>6, FS_Bijection
<1> QED
  BY <1>7 DEF to

LEMMA TimesAdd ==
    ASSUME NEW S, NEW a \in Seq(S), NEW b \in Seq(S), NEW p
    PROVE  Times(a \o b, p) = Times(a, p) + Times(b, p)
<1>0. \A s \in Seq(S) : /\ IsFiniteSet({i \in 1 .. Len(s) : s[i] = p})
                         /\ Times(s, p) = Cardinality({i \in 1 .. Len(s) : s[i] = p})
  BY PlacesAre
<1> PICK l : l = Len(a)
  OBVIOUS
<1> PICK m : m = Len(b)
  OBVIOUS
<1>1. l \in Nat /\ m \in Nat
  BY LenProperties
<1> PICK c : c = a \o b
  OBVIOUS
<1>2. /\ c \in Seq(S) /\ Len(c) = l + m
      /\ \A i \in 1 .. l + m : c[i] = IF i <= l THEN a[i] ELSE b[i - l]
  BY ConcatProperties
<1> PICK A : A = {i \in 1 .. l : a[i] = p}
  OBVIOUS
<1> PICK B : B = {i \in 1 .. m : b[i] = p}
  OBVIOUS
<1> PICK D : D = {l + i : i \in B}
  OBVIOUS
<1> PICK C : C = {i \in 1 .. l + m : c[i] = p}
  OBVIOUS
<1>3. IsFiniteSet(A) /\ Times(a, p) = Cardinality(A)
  BY <1>0
<1>4. IsFiniteSet(B) /\ Times(b, p) = Cardinality(B)
  BY <1>0
<1>5. Times(c, p) = Cardinality(C)
  <2>1. c \in Seq(S) /\ Len(c) = l + m
    BY <1>2
  <2>2. Times(c, p) = Cardinality({i \in 1 .. Len(c) : c[i] = p})
    BY <1>0, <2>1
  <2> QED
    BY <2>1, <2>2
<1>6. B \subseteq Nat
  BY <1>1
<1>7. IsFiniteSet(D) /\ Cardinality(D) = Cardinality(B)
  BY <1>1, <1>4, <1>6, ShiftedIsAsLarge
<1>8. A \cap D = {}
  BY <1>1
<1>9. C = A \cup D
  <2>1. ASSUME NEW i \in C PROVE i \in A \cup D
    <3>1. i \in 1 .. l + m /\ c[i] = p
      OBVIOUS
    <3>2. CASE i <= l
      BY <1>1, <1>2, <3>1, <3>2
    <3>3. CASE ~ (i <= l)
      <4>1. i - l \in 1 .. m /\ i = l + (i - l) /\ b[i - l] = p
        BY <1>1, <1>2, <3>1, <3>3
      <4>2. i - l \in B
        BY <4>1
      <4> QED
        BY <4>1, <4>2
    <3> QED
      BY <3>2, <3>3
  <2>2. ASSUME NEW i \in A PROVE i \in C
    <3>1. i \in 1 .. l + m /\ i <= l /\ a[i] = p
      BY <1>1
    <3> QED
      BY <1>2, <3>1
  <2>3. ASSUME NEW i \in B PROVE l + i \in C
    <3>1. l + i \in 1 .. l + m /\ ~ (l + i <= l) /\ (l + i) - l = i /\ b[i] = p
      BY <1>1
    <3> QED
      BY <1>2, <3>1
  <2>4. D \subseteq C
    BY <2>3
  <2>5. A \subseteq C /\ C \subseteq A \cup D
    BY <2>1, <2>2
  <2> QED
    BY <2>4, <2>5, Zenon
<1>10. Cardinality(A \cup D) = Cardinality(A) + Cardinality(D)
  BY <1>3, <1>7, <1>8, SizeOfUnion
<1> QED
  BY <1>3, <1>4, <1>5, <1>7, <1>9, <1>10

LEMMA TimesOfOne ==
    ASSUME NEW S, NEW q \in S, NEW n \in Nat, NEW p
    PROVE  /\ [k \in 1 .. n |-> q] \in Seq(S)
           /\ Times([k \in 1 .. n |-> q], p) = IF p = q THEN n ELSE 0
<1> PICK s : s = [k \in 1 .. n |-> q]
  OBVIOUS
<1>1. s \in Seq(S)
  OBVIOUS
<1>2. DOMAIN s = 1 .. n /\ \A k \in 1 .. n : s[k] = q
  OBVIOUS
<1>3. CASE p = q
  <2>1. {i \in DOMAIN s : s[i] = p} = 1 .. n
    BY <1>2, <1>3
  <2>2. Cardinality(1 .. n) = n
    BY FS_Interval
  <2> QED
    BY <1>1, <1>3, <2>1, <2>2 DEF Times
<1>4. CASE p # q
  <2>1. {i \in DOMAIN s : s[i] = p} = {}
    BY <1>2, <1>4
  <2> QED
    BY <1>1, <1>4, <2>1, FS_EmptySet DEF Times
<1> QED
  BY <1>3, <1>4

-----------------------------------------------------------------------------
(* What is laid out one after another.                                     *)

Pieces(seqs, i, f) ==
    f = [j \in 1 .. i |-> IF j = 1 THEN seqs[j] ELSE f[j - 1] \o seqs[j]]

LEMMA FlattenIs ==
    ASSUME NEW seqs, NEW n \in Nat, n # 0, Len(seqs) = n
    PROVE  \E f : Pieces(seqs, n, f) /\ FlattenSeq(seqs) = f[n]
<1> DEFINE T == {i \in 0 .. n : \E f : Pieces(seqs, i, f)}
<1>1. 0 \in T
  <2>1. PICK f : f = [j \in 1 .. 0 |-> <<>>]
    OBVIOUS
  <2>2. [j \in 1 .. 0 |-> IF j = 1 THEN seqs[j] ELSE f[j - 1] \o seqs[j]] = f
    BY <2>1
  <2>3. Pieces(seqs, 0, f)
    BY <2>2 DEF Pieces
  <2> QED
    BY <2>3
<1>2. ASSUME NEW i \in 0 .. n - 1, i \in T PROVE i + 1 \in T
  <2>1. PICK f : Pieces(seqs, i, f)
    BY <1>2
  <2>2. i \in Nat /\ i + 1 \in 0 .. n
    OBVIOUS
  <2>3. PICK g : g = [j \in 1 .. i + 1 |-> IF j <= i THEN f[j]
                          ELSE IF j = 1 THEN seqs[j] ELSE f[j - 1] \o seqs[j]]
    OBVIOUS
  <2>4. ASSUME NEW j \in 1 .. i + 1
        PROVE  g[j] = IF j = 1 THEN seqs[j] ELSE g[j - 1] \o seqs[j]
    <3>1. CASE j <= i
      <4>1. j \in 1 .. i /\ g[j] = f[j] /\ (j # 1 => j - 1 \in 1 .. i + 1 /\ j - 1 <= i)
        BY <2>2, <2>3, <3>1
      <4>2. f[j] = IF j = 1 THEN seqs[j] ELSE f[j - 1] \o seqs[j]
        BY <2>1, <4>1 DEF Pieces
      <4>3. j # 1 => g[j - 1] = f[j - 1]
        BY <2>3, <4>1
      <4> QED
        BY <4>1, <4>2, <4>3
    <3>2. CASE ~ (j <= i)
      <4>1. g[j] = IF j = 1 THEN seqs[j] ELSE f[j - 1] \o seqs[j]
        BY <2>3, <3>2
      <4>2. j # 1 => j - 1 \in 1 .. i + 1 /\ j - 1 <= i
        BY <2>2, <3>2
      <4>3. j # 1 => g[j - 1] = f[j - 1]
        BY <2>3, <4>2
      <4> QED
        BY <4>1, <4>3
    <3> QED
      BY <3>1, <3>2
  <2>5. g = [j \in 1 .. i + 1 |-> g[j]]
    BY <2>3
  <2>6. Pieces(seqs, i + 1, g)
    BY <2>4, <2>5 DEF Pieces
  <2> QED
    BY <2>2, <2>6
<1> HIDE DEF T
<1>3. \A i \in 0 .. n : i \in T
  BY <1>1, <1>2, StepByStep
<1>4. n \in T
  BY <1>3
<1> DEFINE F == CHOOSE f : Pieces(seqs, n, f)
<1>5. Pieces(seqs, n, F)
  BY <1>4, Zenon DEF T
<1>6. FlattenSeq(seqs) = F[n]
  BY Zenon DEF FlattenSeq, Pieces
<1> HIDE DEF F
<1> QED
  BY <1>5, <1>6

Copies(q, m) == [k \in 1 .. m |-> q]

LEMMA FlattenedTimes ==
    ASSUME NEW S, NEW ps \in Seq(S), IsInjective(ps), NEW t \in [DOMAIN ps -> Nat]
    PROVE  LET all == FlattenSeq([n \in DOMAIN ps |-> [k \in 1 .. t[n] |-> ps[n]]]) IN
           /\ all \in Seq(S)
           /\ \A n \in DOMAIN ps : Times(all, ps[n]) = t[n]
<1>0. ASSUME NEW q, q \in S, NEW m, m \in Nat, NEW p
      PROVE  Copies(q, m) \in Seq(S) /\ Times(Copies(q, m), p) = IF p = q THEN m ELSE 0
  BY <1>0, TimesOfOne DEF Copies
<1> PICK L : L = Len(ps)
  OBVIOUS
<1>1. L \in Nat /\ DOMAIN ps = 1 .. L /\ \A n \in 1 .. L : ps[n] \in S /\ t[n] \in Nat
  BY LenProperties, ElementOfSeq
<1> PICK seqs : seqs = [n \in DOMAIN ps |-> [k \in 1 .. t[n] |-> ps[n]]]
  OBVIOUS
<1>2. seqs = [n \in 1 .. L |-> [k \in 1 .. t[n] |-> ps[n]]] /\ Len(seqs) = L
  BY <1>1
<1>3. ASSUME NEW n \in 1 .. L, NEW p
      PROVE  seqs[n] \in Seq(S) /\ Times(seqs[n], p) = IF p = ps[n] THEN t[n] ELSE 0
  <2>1. seqs[n] = Copies(ps[n], t[n])
    BY <1>2 DEF Copies
  <2> PICK q : q = ps[n]
    OBVIOUS
  <2> PICK m : m = t[n]
    OBVIOUS
  <2>2. q \in S /\ m \in Nat
    BY <1>1
  <2>3. seqs[n] = Copies(q, m)
    BY <2>1
  <2>4. Copies(q, m) \in Seq(S) /\ Times(Copies(q, m), p) = IF p = q THEN m ELSE 0
    BY <1>0, <2>2
  <2> QED
    BY <2>3, <2>4
<1>4. CASE L = 0
  <2>1. seqs = <<>> /\ FlattenSeq(seqs) = seqs
    BY <1>2, <1>4 DEF FlattenSeq
  <2>2. <<>> \in Seq(S) /\ DOMAIN ps = {}
    BY <1>1, <1>4
  <2> QED
    BY <2>1, <2>2
<1>5. CASE L # 0
  <2>1. PICK f : Pieces(seqs, L, f) /\ FlattenSeq(seqs) = f[L]
    BY <1>1, <1>2, <1>5, FlattenIs
  <2>2. \A i \in 1 .. L : f[i] = IF i = 1 THEN seqs[i] ELSE f[i - 1] \o seqs[i]
    BY <2>1 DEF Pieces
  <2> DEFINE Good(i) ==
               /\ f[i] \in Seq(S)
               /\ \A n \in 1 .. L : Times(f[i], ps[n]) = IF n <= i THEN t[n] ELSE 0
             T == {i \in 0 .. L : i # 0 => Good(i)}
  <2>3. 0 \in T
    BY <1>1
  <2>4. ASSUME NEW i \in 0 .. L - 1, i \in T PROVE i + 1 \in T
    <3>1. i + 1 \in 1 .. L /\ i + 1 \in 0 .. L /\ i \in Nat
      BY <1>1
    <3>2. seqs[i + 1] \in Seq(S)
      BY <1>3, <3>1
    <3>6. f[i + 1] = IF i + 1 = 1 THEN seqs[i + 1] ELSE f[(i + 1) - 1] \o seqs[i + 1]
      BY <2>2, <3>1, Zenon
    <3>3. ASSUME NEW n \in 1 .. L
          PROVE  Times(seqs[i + 1], ps[n]) = IF n = i + 1 THEN t[n] ELSE 0
      <4>1. Times(seqs[i + 1], ps[n]) = IF ps[n] = ps[i + 1] THEN t[i + 1] ELSE 0
        BY <1>3, <3>1
      <4>2. ps[n] = ps[i + 1] => n = i + 1
        BY <1>1, <3>1 DEF IsInjective
      <4> QED
        BY <4>1, <4>2
    <3>4. CASE i = 0
      <4>1. f[i + 1] = seqs[i + 1]
        BY <3>1, <3>4, <3>6
      <4>2. \A n \in 1 .. L : n <= i + 1 <=> n = i + 1
        BY <1>1, <3>4
      <4>3. Good(i + 1)
        BY <3>2, <3>3, <4>1, <4>2
      <4> QED
        BY <3>1, <4>3
    <3>5. CASE i # 0
      <4>1. i + 1 \in 2 .. L /\ (i + 1) - 1 = i
        BY <3>1, <3>5
      <4>2. f[i + 1] = f[i] \o seqs[i + 1]
        <5>1. i + 1 # 1
          BY <3>1, <3>5
        <5> QED
          BY <3>6, <4>1, <5>1, Zenon
      <4>3. Good(i)
        BY <2>4, <3>5
      <4>4. f[i + 1] \in Seq(S)
        BY <3>2, <4>2, <4>3, ConcatProperties
      <4>5. ASSUME NEW n \in 1 .. L
            PROVE  Times(f[i + 1], ps[n]) = IF n <= i + 1 THEN t[n] ELSE 0
        <5>1. Times(f[i + 1], ps[n]) = Times(f[i], ps[n]) + Times(seqs[i + 1], ps[n])
          <6>1. f[i] \in Seq(S)
            BY <4>3
          <6>2. Times(f[i] \o seqs[i + 1], ps[n])
                    = Times(f[i], ps[n]) + Times(seqs[i + 1], ps[n])
            BY <3>2, <6>1, TimesAdd
          <6> QED
            BY <4>2, <6>2
        <5>2. Times(f[i], ps[n]) = IF n <= i THEN t[n] ELSE 0
          BY <4>3
        <5>3. t[n] \in Nat /\ n \in Nat
          BY <1>1
        <5>4. Times(seqs[i + 1], ps[n]) = IF n = i + 1 THEN t[n] ELSE 0
          BY <3>3
        <5>5. i \in Nat
          BY <3>1
        <5>6. CASE n <= i
          BY <5>1, <5>2, <5>3, <5>4, <5>5, <5>6
        <5>7. CASE ~ (n <= i)
          BY <5>1, <5>2, <5>3, <5>4, <5>5, <5>7
        <5> QED
          BY <5>6, <5>7
      <4>6. Good(i + 1)
        BY <4>4, <4>5
      <4> QED
        BY <3>1, <4>6
    <3> QED
      BY <3>4, <3>5
  <2> HIDE DEF T
  <2>5. \A i \in 0 .. L : i \in T
    BY <1>1, <2>3, <2>4, StepByStep
  <2>6. Good(L)
    BY <1>1, <1>5, <2>5 DEF T
  <2>7. \A n \in DOMAIN ps : Times(f[L], ps[n]) = t[n]
    BY <1>1, <2>6
  <2> QED
    BY <2>1, <2>6, <2>7
<1> QED
  BY <1>4, <1>5

-----------------------------------------------------------------------------
(* The parts of a canonical form.                                          *)

LEMMA QueryIs ==
    ASSUME NEW query \in Seq(STRING)
    PROVE  /\ CanonicalQuery(query) \in Seq(STRING)
           /\ \A n \in DOMAIN ParamOrder :
                 Times(CanonicalQuery(query), ParamOrder[n]) = Times(query, ParamOrder[n])
<1> PICK t : t = [n \in DOMAIN ParamOrder |-> Times(query, ParamOrder[n])]
  OBVIOUS
<1>1. ASSUME NEW p PROVE Times(query, p) \in Nat
  BY PlacesAre
<1>2. t \in [DOMAIN ParamOrder -> Nat]
  BY <1>1
<1>3. ParamOrder \in Seq(STRING) /\ IsInjective(ParamOrder)
  BY DedupAssumption DEF DedupAssumption
<1> DEFINE all == FlattenSeq([n \in DOMAIN ParamOrder |-> [k \in 1 .. t[n] |-> ParamOrder[n]]])
<1>4. /\ all \in Seq(STRING)
      /\ \A n \in DOMAIN ParamOrder : Times(all, ParamOrder[n]) = t[n]
  BY <1>2, <1>3, FlattenedTimes
<1>5. [n \in DOMAIN ParamOrder |-> [k \in 1 .. t[n] |-> ParamOrder[n]]]
         = [n \in DOMAIN ParamOrder |-> [k \in 1 .. Times(query, ParamOrder[n]) |-> ParamOrder[n]]]
  OBVIOUS
<1>6. CanonicalQuery(query) = all
  BY <1>5, Zenon DEF CanonicalQuery
<1> HIDE DEF all
<1> QED
  BY <1>4, <1>6

LEMMA QueryByTimes ==
    ASSUME NEW a, NEW b,
           \A n \in DOMAIN ParamOrder : Times(a, ParamOrder[n]) = Times(b, ParamOrder[n])
    PROVE  CanonicalQuery(a) = CanonicalQuery(b)
<1>1. [n \in DOMAIN ParamOrder |-> [k \in 1 .. Times(a, ParamOrder[n]) |-> ParamOrder[n]]]
         = [n \in DOMAIN ParamOrder |-> [k \in 1 .. Times(b, ParamOrder[n]) |-> ParamOrder[n]]]
  OBVIOUS
<1> QED
  BY <1>1, Zenon DEF CanonicalQuery

LEMMA Ports ==
    /\ DOMAIN DefaultPort = {"http", "https"}
    /\ \A s \in DOMAIN DefaultPort : DefaultPort[s] # ""
<1>1. DOMAIN DefaultPort = {"http", "https"}
  BY DEF DefaultPort
<1>2. DefaultPort["http"] = "80" /\ DefaultPort["https"] = "443"
  BY DEF DefaultPort
<1> QED
  BY <1>1, <1>2

LEMMA OneIs ==
    ASSUME NEW S, NEW r \in Seq(S), Len(r) = 1
    PROVE  r = <<r[1]>>
<1>1. r[1] \in S
  BY ElementOfSeq
<1>2. <<r[1]>> \in Seq(S) /\ Len(<<r[1]>>) = 1 /\ <<r[1]>>[1] = r[1]
  BY <1>1
<1>3. \A i \in 1 .. Len(r) : r[i] = <<r[1]>>[i]
  BY <1>2
<1> QED
  BY <1>2, <1>3, SeqEqual

\* A port that is the scheme's own goes, if the host has nothing else beside
\* its name.
LEMMA HostIs ==
    ASSUME NEW S, NEW host \in Seq(S), NEW scheme,
           host # <<>>, host[1] \notin DOMAIN Bracketed
    PROVE  CanonicalHost(scheme, host) =
               IF scheme \in DOMAIN DefaultPort /\ Len(host) = 2 /\ host[2] = DefaultPort[scheme]
               THEN <<host[1]>> ELSE host
<1> PICK L : L = Len(host)
  OBVIOUS
<1>1. L \in Nat /\ L # 0 /\ DOMAIN host = 1 .. L /\ host \in [1 .. L -> S]
  <2>1. L \in Nat /\ DOMAIN host = 1 .. L /\ host \in [1 .. L -> S]
    BY LenProperties
  <2>2. L # 0
    BY EmptySeq
  <2> QED
    BY <2>1, <2>2
<1> DEFINE bare == HostWithoutPort(Hostname(host))
<1>2. CASE L = 1
  <2>1. Port(host) = ""
    BY <1>2 DEF Port
  <2>2. scheme \in DOMAIN DefaultPort => Port(host) # DefaultPort[scheme]
    BY <2>1, Ports
  <2> QED
    BY <1>2, <2>2 DEF CanonicalHost
<1>3. CASE L = 2
  <2>1. Port(host) = host[2]
    BY <1>3 DEF Port, Last
  <2>2. Front(host) = <<host[1]>>
    <3>1. /\ SubSeq(host, 1, 1) \in Seq(S) /\ Len(SubSeq(host, 1, 1)) = 1
          /\ SubSeq(host, 1, 1)[1] = host[1]
      <4>1. \A i \in 1 .. 1 : host[i] \in S
        BY <1>1, <1>3
      <4>2. /\ SubSeq(host, 1, 1) \in Seq(S)
            /\ Len(SubSeq(host, 1, 1)) = IF 1 <= 1 THEN 1 - 1 + 1 ELSE 0
            /\ \A i \in 1 .. 1 - 1 + 1 : SubSeq(host, 1, 1)[i] = host[1 + i - 1]
        BY <4>1, SubSeqProperties
      <4> QED
        BY <4>2
    <3> QED
      <4>1. L - 1 = 1
        BY <1>3
      <4>2. Front(host) = SubSeq(host, 1, 1)
        BY <4>1, Zenon DEF Front
      <4> PICK r : r = SubSeq(host, 1, 1)
        OBVIOUS
      <4>3. r \in Seq(S) /\ Len(r) = 1 /\ r[1] = host[1]
        BY <3>1
      <4>4. r = <<host[1]>>
        BY <4>3, OneIs
      <4> QED
        BY <4>2, <4>4, Zenon
  <2> PICK name : name = Unbracket(host[1])
    OBVIOUS
  <2>3. Hostname(host) = <<name>>
    BY <1>3, <2>2 DEF Hostname
  <2>4. Len(<<name>>) = 1 /\ <<name>>[1] = name
    OBVIOUS
  <2>5. HostWithoutPort(<<name>>) = <<host[1]>>
    <3>1. CASE {b \in DOMAIN Bracketed : Bracketed[b] = host[1]} = {}
      <4>1. name = host[1]
        BY <3>1 DEF Unbracket
      <4> QED
        BY <2>4, <4>1 DEF HostWithoutPort
    <3>2. CASE {b \in DOMAIN Bracketed : Bracketed[b] = host[1]} # {}
      <4>1. name \in DOMAIN Bracketed /\ Bracketed[name] = host[1]
        BY <3>2 DEF Unbracket
      <4> QED
        BY <2>4, <4>1 DEF HostWithoutPort
    <3> QED
      BY <3>1, <3>2
  <2>6. bare = <<host[1]>> /\ <<host[1]>> # <<>>
    BY <2>3, <2>5
  <2> HIDE DEF bare
  <2>7. CanonicalHost(scheme, host) =
            IF scheme \in DOMAIN DefaultPort /\ Port(host) = DefaultPort[scheme] /\ bare # <<>>
            THEN bare ELSE host
    BY Zenon DEF CanonicalHost, bare
  <2> QED
    BY <1>3, <2>1, <2>6, <2>7
<1>4. CASE L > 2
  <2>1. DOMAIN Front(host) = 1 .. L - 1
    BY <1>1, <1>4 DEF Front
  <2>2. DOMAIN Hostname(host) = 1 .. L - 1
    BY <1>4, <2>1 DEF Hostname
  <2>3. Len(Hostname(host)) = L - 1
    BY <1>1, <1>4, <2>2
  <2>4. bare = <<>>
    BY <1>1, <1>4, <2>3 DEF HostWithoutPort
  <2>5. CanonicalHost(scheme, host) =
            IF scheme \in DOMAIN DefaultPort /\ Port(host) = DefaultPort[scheme] /\ bare # <<>>
            THEN bare ELSE host
    BY Zenon DEF CanonicalHost
  <2> HIDE DEF bare
  <2> QED
    BY <1>4, <2>4, <2>5
<1> QED
  BY <1>1, <1>2, <1>3, <1>4

LEMMA BeginningIs ==
    ASSUME NEW S, NEW s \in Seq(S), NEW e \in 0 .. Len(s)
    PROVE  /\ SubSeq(s, 1, e) \in Seq(S) /\ Len(SubSeq(s, 1, e)) = e
           /\ \A i \in 1 .. e : SubSeq(s, 1, e)[i] = s[i]
<1>1. e \in Int /\ 1 \in Int /\ e >= 0
  BY LenProperties
<1>2. \A i \in 1 .. e : s[i] \in S
  BY LenProperties, ElementOfSeq
<1> PICK r : r = SubSeq(s, 1, e)
  OBVIOUS
<1>3. /\ SubSeq(s, 1, e) \in Seq(S)
      /\ Len(SubSeq(s, 1, e)) = IF 1 <= e THEN e - 1 + 1 ELSE 0
      /\ \A i \in 1 .. e - 1 + 1 : SubSeq(s, 1, e)[i] = s[1 + i - 1]
  BY <1>1, <1>2, SubSeqProperties
<1>4. /\ r \in Seq(S) /\ Len(r) = IF 1 <= e THEN e - 1 + 1 ELSE 0
      /\ \A i \in 1 .. e - 1 + 1 : r[i] = s[1 + i - 1]
  BY <1>3, Zenon
<1>5. Len(r) = e
  BY <1>1, <1>4
<1>6. ASSUME NEW i \in 1 .. e PROVE r[i] = s[i]
  <2>1. i \in 1 .. e - 1 + 1 /\ 1 + i - 1 = i
    BY <1>1
  <2>2. r[i] = s[1 + i - 1]
    BY <1>4, <2>1, Zenon
  <2> QED
    BY <2>1, <2>2, Zenon
<1> QED
  BY <1>4, <1>5, <1>6

Part == STRING \cup {"/", "%2F"}

LEMMA TrimmedIs ==
    ASSUME NEW path \in Seq(Part)
    PROVE  /\ Trimmed(path) \in Seq(Part)
           /\ Trimmed(path) # <<>> => Last(Trimmed(path)) # "/"
           /\ path # <<>> /\ Last(path) # "/" => Trimmed(path) = path
           /\ (\A i \in DOMAIN path : path[i] = "/") => Trimmed(path) = <<>>
           /\ \A i \in DOMAIN Trimmed(path) : \E j \in DOMAIN path : Trimmed(path)[i] = path[j]
<1> PICK L : L = Len(path)
  OBVIOUS
<1>1. L \in Nat /\ DOMAIN path = 1 .. L /\ \A i \in 1 .. L : path[i] \in Part
  BY LenProperties, ElementOfSeq
<1> PICK named : named = {i \in 1 .. L : path[i] # "/"}
  OBVIOUS
<1> PICK e : e = IF named = {} THEN 0 ELSE Max(named)
  OBVIOUS
<1> PICK r : r = SubSeq(path, 1, e)
  OBVIOUS
<1>2. Trimmed(path) = r
  BY <1>1 DEF Trimmed
<1>3. named \subseteq 1 .. L
  OBVIOUS
<1>4. named # {} => e \in named /\ \A j \in named : e >= j
  <2>1. named # {} => Max(named) \in named /\ \A j \in named : Max(named) >= j
    BY <1>1, <1>3, GreatestPosition
  <2> QED
    BY <2>1
<1>5. e \in 0 .. L
  BY <1>1, <1>3, <1>4
<1>6. r \in Seq(Part) /\ Len(r) = e /\ \A i \in 1 .. e : r[i] = path[i]
  BY <1>5, BeginningIs, ZenonT(30)
<1>7. r # <<>> => Last(r) # "/"
  <2>1. ASSUME r # <<>> PROVE Last(r) # "/"
    <3>1. e # 0
      BY <1>6, <2>1, EmptySeq
    <3>2. e \in named
      BY <1>4, <3>1
    <3>3. r[e] = path[e]
      <4>1. e \in 1 .. e
        BY <1>1, <1>5, <3>1
      <4> QED
        BY <1>6, <4>1, Zenon
    <3> QED
      BY <1>6, <3>2, <3>3 DEF Last
  <2> QED
    BY <2>1
<1>8. path # <<>> /\ Last(path) # "/" => r = path
  <2>1. ASSUME path # <<>>, Last(path) # "/" PROVE r = path
    <3>1. L # 0
      BY <1>1, <2>1, EmptySeq
    <3>2. L \in named
      BY <1>1, <2>1, <3>1 DEF Last
    <3>3. e = L
      BY <1>1, <1>4, <1>5, <3>2
    <3> QED
      BY <1>6, <3>3, SeqEqual
  <2> QED
    BY <2>1
<1>9. \A i \in DOMAIN r : \E j \in DOMAIN path : r[i] = path[j]
  <2>1. DOMAIN r = 1 .. e
    BY <1>5, <1>6
  <2>2. ASSUME NEW i \in 1 .. e PROVE \E j \in DOMAIN path : r[i] = path[j]
    <3>1. i \in 1 .. L /\ r[i] = path[i]
      BY <1>1, <1>5, <1>6
    <3> QED
      BY <1>1, <3>1
  <2> QED
    BY <2>1, <2>2
<1>10. (\A i \in DOMAIN path : path[i] = "/") => r = <<>>
  <2>1. ASSUME \A i \in DOMAIN path : path[i] = "/" PROVE r = <<>>
    <3>1. e = 0
      BY <1>1, <2>1
    <3> QED
      BY <1>6, <3>1, EmptySeq
  <2> QED
    BY <2>1
<1> QED
  BY <1>2, <1>6, <1>7, <1>8, <1>9, <1>10

LEMMA UnescapedIs ==
    ASSUME NEW path \in Seq(Part)
    PROVE  /\ Unescaped(path) \in Seq(Part)
           /\ \A i \in DOMAIN Unescaped(path) : Unescaped(path)[i] # "%2F"
           /\ (\A i \in DOMAIN path : path[i] # "%2F") => Unescaped(path) = path
<1> PICK L : L = Len(path)
  OBVIOUS
<1>1. L \in Nat /\ DOMAIN path = 1 .. L /\ \A i \in 1 .. L : path[i] \in Part
  BY LenProperties, ElementOfSeq
<1> PICK plain : plain = [i \in 1 .. L |-> IF path[i] = "%2F" THEN "/" ELSE path[i]]
  OBVIOUS
<1>2. Unescaped(path) = plain
  BY <1>1 DEF Unescaped
<1>3. DOMAIN plain = 1 .. L /\ \A i \in 1 .. L : plain[i] = IF path[i] = "%2F" THEN "/" ELSE path[i]
  OBVIOUS
<1>4. \A i \in 1 .. L : plain[i] # "%2F" /\ plain[i] \in Part
  <2>1. "/" \in Part /\ "/" # "%2F"
    BY DEF Part
  <2> QED
    BY <1>1, <1>3, <2>1
<1>5. plain \in Seq(Part) /\ Len(plain) = L
  <2>1. plain \in [1 .. L -> Part]
    BY <1>4
  <2> QED
    BY <1>1, <2>1
<1>6. ASSUME \A i \in DOMAIN path : path[i] # "%2F" PROVE plain = path
  <2>1. \A i \in 1 .. L : plain[i] = path[i]
    BY <1>1, <1>3, <1>6
  <2> QED
    BY <1>5, <2>1, SeqEqual
<1> QED
  BY <1>2, <1>3, <1>4, <1>5, <1>6

LEMMA PathIs ==
    ASSUME NEW path \in Seq(Part)
    PROVE  /\ CanonicalPath(path) \in Seq(Part)
           /\ CanonicalPath(CanonicalPath(path)) = CanonicalPath(path)
           /\ "%2F" \notin Range(path) =>
                  CanonicalPath(path) = IF Trimmed(path) = <<>> THEN <<"/">> ELSE Trimmed(path)
<1> DEFINE Canon(p, plain) ==
        LET slashed == plain # <<"/">> /\ plain # <<>> /\ Last(plain) = "/"
        IN IF (IF slashed THEN Trimmed(plain) ELSE plain) = <<>> THEN <<"/">>
           ELSE IF slashed THEN Trimmed(plain) ELSE p
<1>1. ASSUME NEW p PROVE CanonicalPath(p) = Canon(p, Unescaped(p))
  BY Zenon DEF CanonicalPath
<1>2. ASSUME NEW p \in Seq(Part)
      PROVE  /\ Unescaped(p) \in Seq(Part)
             /\ \A i \in DOMAIN Unescaped(p) : Unescaped(p)[i] # "%2F"
             /\ (\A i \in DOMAIN p : p[i] # "%2F") => Unescaped(p) = p
  BY UnescapedIs
<1> PICK plain : plain = Unescaped(path)
  OBVIOUS
<1> PICK t : t = Trimmed(plain)
  OBVIOUS
<1>3. plain \in Seq(Part) /\ \A i \in DOMAIN plain : plain[i] # "%2F"
  BY <1>2
<1>4. /\ t \in Seq(Part)
      /\ t # <<>> => Last(t) # "/"
      /\ plain # <<>> /\ Last(plain) # "/" => t = plain
      /\ \A i \in DOMAIN t : t[i] # "%2F"
  BY <1>3, TrimmedIs
<1>5. Unescaped(t) = t
  BY <1>2, <1>4
<1>6. <<"/">> \in Seq(Part) /\ Unescaped(<<"/">>) = <<"/">> /\ <<"/">> # <<>>
  <2>1. /\ <<"/">> \in Seq(Part) /\ <<"/">> # <<>>
        /\ \A i \in DOMAIN <<"/">> : <<"/">>[i] # "%2F"
    BY DEF Part
  <2> QED
    BY <1>2, <2>1
<1>7. CanonicalPath(<<"/">>) = <<"/">>
  BY <1>1, <1>6
<1>8. t # <<>> => CanonicalPath(t) = t
  <2>1. CanonicalPath(t) = Canon(t, t)
    BY <1>1, <1>5
  <2> QED
    BY <1>4, <2>1
<1>9. CanonicalPath(path) = Canon(path, plain)
  BY <1>1
<1>10. CASE plain # <<"/">> /\ plain # <<>> /\ Last(plain) = "/"
  <2>1. CanonicalPath(path) = IF t = <<>> THEN <<"/">> ELSE t
    BY <1>9, <1>10
  <2>2. (\A i \in DOMAIN path : path[i] # "%2F") => plain = path
    BY <1>2
  <2> HIDE DEF Canon
  <2>3. "%2F" \notin Range(path) => Trimmed(path) = t
    BY <2>2 DEF Range
  <2> QED
    <3>1. CASE t = <<>>
      BY <1>6, <1>7, <2>1, <2>3, <3>1
    <3>2. CASE t # <<>>
      BY <1>4, <1>8, <2>1, <2>3, <3>2
    <3> QED
      BY <3>1, <3>2
<1>11. CASE ~ (plain # <<"/">> /\ plain # <<>> /\ Last(plain) = "/")
  <2>1. CanonicalPath(path) = IF plain = <<>> THEN <<"/">> ELSE path
    BY <1>9, <1>11
  <2>2. plain # <<>> => CanonicalPath(path) = path
    BY <2>1
  <2> HIDE DEF Canon
  <2>3. (\A i \in DOMAIN path : path[i] # "%2F") => plain = path
    BY <1>2
  <2>4. CASE plain = <<>>
    <3>1. Trimmed(<<>>) = <<>>
      BY SubSeqEmpty DEF Trimmed
    <3> QED
      BY <1>6, <1>7, <2>1, <2>3, <2>4, <3>1 DEF Range
  <2>5. CASE plain = <<"/">>
    <3>1. Trimmed(<<"/">>) = <<>>
      <4>1. \A i \in DOMAIN <<"/">> : <<"/">>[i] = "/"
        OBVIOUS
      <4> QED
        BY <1>6, <4>1, TrimmedIs
    <3> QED
      BY <2>2, <2>3, <2>5, <3>1, <1>6 DEF Range
  <2>6. CASE plain # <<>> /\ Last(plain) # "/"
    <3>1. t = plain
      BY <1>4, <2>6
    <3> QED
      BY <2>2, <2>3, <2>6, <3>1 DEF Range
  <2> QED
    BY <1>11, <2>4, <2>5, <2>6
<1> QED
  BY <1>10, <1>11

-----------------------------------------------------------------------------
(* A URL's canonical form is its page, written in one way.                 *)

PagePort(scheme, host) ==
    IF Len(host) > 1 THEN Tail(host)
    ELSE IF scheme \in DOMAIN DefaultPort THEN <<DefaultPort[scheme]>> ELSE <<>>

LEMMA HostParts ==
    ASSUME NEW S, NEW host \in Seq(S), NEW scheme,
           host # <<>>, host[1] \notin DOMAIN Bracketed
    PROVE  LET same == CanonicalHost(scheme, host) IN
           /\ same \in Seq(S) /\ same # <<>> /\ same[1] = host[1]
           /\ PagePort(scheme, same) = PagePort(scheme, host)
           /\ CanonicalHost(scheme, same) = same
           /\ same = IF scheme \in DOMAIN DefaultPort
                        /\ PagePort(scheme, host) = <<DefaultPort[scheme]>>
                     THEN <<host[1]>> ELSE <<host[1]>> \o PagePort(scheme, host)
<1>0. \A l \in Nat : l > 2 => l - 1 # 1
  OBVIOUS
<1> PICK same : same = CanonicalHost(scheme, host)
  OBVIOUS
<1> PICK L : L = Len(host)
  OBVIOUS
<1> PICK one : one = <<host[1]>>
  OBVIOUS
<1> DEFINE own == scheme \in DOMAIN DefaultPort
           default == DefaultPort[scheme]
<1>1. L \in Nat /\ L # 0 /\ host[1] \in S
  <2>1. L \in Nat \ {0}
    BY EmptySeq
  <2> QED
    BY <2>1, ElementOfSeq
<1>2. one \in Seq(S) /\ Len(one) = 1 /\ one[1] = host[1] /\ one # <<>>
  BY <1>1
<1>3. same = IF own /\ L = 2 /\ host[2] = default THEN one ELSE host
  BY HostIs
<1>4. \A h \in Seq(S) : (h # <<>> /\ h[1] \notin DOMAIN Bracketed) =>
         CanonicalHost(scheme, h) = IF own /\ Len(h) = 2 /\ h[2] = default THEN <<h[1]>> ELSE h
  BY HostIs
<1>5. CanonicalHost(scheme, one) = one
  BY <1>2, <1>4
<1> PICK rest : rest = Tail(host)
  OBVIOUS
<1>6. /\ rest \in Seq(S) /\ Len(rest) = L - 1
      /\ \A i \in 1 .. L - 1 : rest[i] = host[i + 1]
  BY HeadTailProperties
<1>7. one \o rest = host
  <2>1. /\ one \o rest \in Seq(S) /\ Len(one \o rest) = L
        /\ \A i \in 1 .. L : (one \o rest)[i] = IF i <= 1 THEN one[i] ELSE rest[i - 1]
    BY <1>1, <1>2, <1>6, ConcatProperties
  <2>2. ASSUME NEW i \in 1 .. L PROVE (one \o rest)[i] = host[i]
    <3>1. CASE i = 1
      BY <1>2, <2>1, <3>1
    <3>2. CASE i # 1
      <4>1. ~ (i <= 1) /\ i - 1 \in 1 .. L - 1 /\ (i - 1) + 1 = i
        BY <1>1, <3>2
      <4>2. rest[i - 1] = host[(i - 1) + 1]
        BY <1>6, <4>1
      <4> QED
        BY <2>1, <4>1, <4>2
    <3> QED
      BY <3>1, <3>2
  <2> QED
    BY <2>1, <2>2, SeqEqual
<1>8. PagePort(scheme, one) = IF own THEN <<default>> ELSE <<>>
  BY <1>2 DEF PagePort
<1>9. CASE L = 1
  <2>1. host = one
    BY <1>9, OneIs
  <2>2. same = one
    BY <1>3, <1>9, <2>1
  <2>3. one \o <<>> = one
    BY <1>2, ConcatEmptySeq
  <2> HIDE DEF own, default
  <2> QED
    BY <1>2, <1>5, <1>8, <2>1, <2>2, <2>3 DEF own, default
<1>10. CASE L = 2
  <2>1. PagePort(scheme, host) = rest
    BY <1>10 DEF PagePort
  <2>2. rest = <<host[2]>>
    <3>1. Len(rest) = 1 /\ rest[1] = host[2]
      BY <1>6, <1>10
    <3>2. rest = <<rest[1]>>
      BY <1>6, <3>1, OneIs
    <3> QED
      BY <3>1, <3>2, Zenon
  <2>3. CASE own /\ host[2] = default
    <3>1. same = one /\ rest = <<default>>
      BY <1>3, <1>10, <2>2, <2>3
    <3> QED
      <4>1. PagePort(scheme, host) = <<default>> /\ PagePort(scheme, one) = <<default>>
        BY <1>8, <2>1, <2>3, <3>1
      <4> QED
        BY <1>2, <1>5, <2>3, <3>1, <4>1
  <2>4. CASE ~ (own /\ host[2] = default)
    <3>1. same = host
      BY <1>3, <2>4
    <3>2. rest[1] = host[2] /\ <<default>>[1] = default
      BY <2>2
    <3>3. ~ (own /\ rest = <<default>>)
      <4> HIDE DEF own, default
      <4>1. rest = <<default>> => rest[1] = <<default>>[1]
        BY Zenon
      <4> QED
        BY <2>4, <3>2, <4>1
    <3> QED
      BY <1>7, <2>1, <3>1, <3>3
  <2> QED
    BY <2>3, <2>4
<1>11. CASE L > 2
  <2>1. PagePort(scheme, host) = rest
    BY <1>11 DEF PagePort
  <2>2. rest # <<default>>
    <3> HIDE DEF own, default
    <3>1. L - 1 # 1
      BY <1>0, <1>1, <1>11, Zenon
    <3>2. Len(rest) = L - 1
      BY <1>6, Zenon
    <3>3. Len(<<default>>) = 1
      OBVIOUS
    <3> QED
      BY <3>1, <3>2, <3>3, Zenon
  <2>3. same = host
    BY <1>3, <1>11
  <2> QED
    BY <1>7, <2>1, <2>2, <2>3
<1> QED
  BY <1>1, <1>9, <1>10, <1>11

LEMMA LoweredIs ==
    ASSUME NEW host \in Seq(DOMAIN Lower)
    PROVE  /\ Lowered(host) \in Seq(DOMAIN Lower) /\ Len(Lowered(host)) = Len(host)
           /\ \A i \in 1 .. Len(host) : Lowered(host)[i] = Lower[host[i]]
           /\ Lowered(Lowered(host)) = Lowered(host)
<1> PICK L : L = Len(host)
  OBVIOUS
<1> PICK D : D = DOMAIN Lower
  OBVIOUS
<1>1. L \in Nat /\ DOMAIN host = 1 .. L /\ \A i \in 1 .. L : host[i] \in D
  BY LenProperties, ElementOfSeq
<1>2. \A s \in D : Lower[s] \in D /\ Lower[Lower[s]] = Lower[s]
  BY DedupAssumption DEF DedupAssumption
<1> PICK low : low = [i \in 1 .. L |-> Lower[host[i]]]
  OBVIOUS
<1>3. Lowered(host) = low
  BY <1>1 DEF Lowered
<1>4. low \in [1 .. L -> D] /\ \A i \in 1 .. L : low[i] = Lower[host[i]]
  BY <1>1, <1>2
<1>5. low \in Seq(D) /\ Len(low) = L /\ DOMAIN low = 1 .. L
  BY <1>1, <1>4
<1>6. Lowered(low) = [i \in 1 .. L |-> Lower[low[i]]]
  BY <1>5 DEF Lowered
<1>7. \A i \in 1 .. L : Lower[low[i]] = low[i]
  BY <1>1, <1>2, <1>4
<1>8. [i \in 1 .. L |-> Lower[low[i]]] = low
  BY <1>4, <1>7
<1> QED
  BY <1>3, <1>4, <1>5, <1>6, <1>8

LEMMA CanonicalFields ==
    ASSUME NEW u
    PROVE  /\ CanonicalizeURL(u).scheme = Lower[u.scheme]
           /\ CanonicalizeURL(u).host = CanonicalHost(Lower[u.scheme], Lowered(u.host))
           /\ CanonicalizeURL(u).path = CanonicalPath(u.path)
           /\ CanonicalizeURL(u).query = CanonicalQuery(u.query)
           /\ CanonicalizeURL(u).fragment = ""
  BY DEF CanonicalizeURL

\* The parts of an address, as the canonical form and the page read them.
LEMMA AddressParts ==
    ASSUME NEW u \in Address
    PROVE  LET host == Lowered(u.host)
               sc == Lower[u.scheme] IN
           /\ sc \in DOMAIN Lower /\ Lower[sc] = sc
           /\ host \in Seq(DOMAIN Lower) /\ host # <<>> /\ host[1] \notin DOMAIN Bracketed
           /\ Lowered(host) = host
           /\ PageOf(u) = [scheme |-> sc, name |-> host[1], port |-> PagePort(sc, host),
                           path |-> Trimmed(u.path),
                           query |-> {<<p, Times(u.query, p)>> : p \in Range(ParamOrder)}]
           /\ CanonicalizeURL(u).scheme = sc
           /\ CanonicalizeURL(u).host = CanonicalHost(sc, host)
           /\ CanonicalizeURL(u).path = CanonicalPath(u.path)
           /\ CanonicalizeURL(u).query = CanonicalQuery(u.query)
           /\ CanonicalizeURL(u).fragment = ""
           /\ u.path \in Seq(Part) /\ u.query \in Seq(STRING)
<1> PICK low : low = Lowered(u.host)
  OBVIOUS
<1> PICK sc : sc = Lower[u.scheme]
  OBVIOUS
<1>1. /\ u.scheme \in DOMAIN Lower
      /\ u.host \in Seq(DOMAIN Lower) /\ u.host # <<>>
      /\ u.path \in Seq(STRING) /\ u.query \in Seq(STRING)
  BY DedupAssumption DEF DedupAssumption
<1>2. sc \in DOMAIN Lower /\ Lower[sc] = sc
  BY <1>1, DedupAssumption DEF DedupAssumption
<1>3. Len(u.host) \in Nat \ {0}
  BY <1>1, EmptySeq
<1>4. /\ low \in Seq(DOMAIN Lower) /\ Len(low) = Len(u.host)
      /\ \A i \in 1 .. Len(u.host) : low[i] = Lower[u.host[i]]
      /\ Lowered(low) = low
  BY <1>1, LoweredIs
<1>5. low # <<>> /\ low[1] \in DOMAIN Lower /\ low[1] = Lower[u.host[1]]
  <2>1. 1 \in 1 .. Len(low) /\ Len(low) # 0
    BY <1>3, <1>4
  <2> QED
    BY <1>4, <2>1, EmptySeq, ElementOfSeq
<1>6. low[1] \notin DOMAIN Bracketed
  BY <1>5, DedupAssumption DEF DedupAssumption
<1>7. u.path \in Seq(Part)
  BY <1>1, SeqMonotonic DEF Part
<1>8. Len(u.host) > 1 => Lowered(Tail(u.host)) = Tail(low)
  <2> PICK rest : rest = Tail(u.host)
    OBVIOUS
  <2> PICK tail : tail = Tail(low)
    OBVIOUS
  <2>1. /\ rest \in Seq(DOMAIN Lower) /\ Len(rest) = Len(u.host) - 1
        /\ \A i \in 1 .. Len(rest) : rest[i] = u.host[i + 1]
    BY <1>1, HeadTailProperties
  <2>2. /\ tail \in Seq(DOMAIN Lower) /\ Len(tail) = Len(low) - 1
        /\ \A i \in 1 .. Len(tail) : tail[i] = low[i + 1]
    BY <1>4, <1>5, HeadTailProperties
  <2>3. /\ Lowered(rest) \in Seq(DOMAIN Lower) /\ Len(Lowered(rest)) = Len(rest)
        /\ \A i \in 1 .. Len(rest) : Lowered(rest)[i] = Lower[rest[i]]
    BY <2>1, LoweredIs
  <2>4. Len(Lowered(rest)) = Len(tail)
    BY <1>4, <2>1, <2>2, <2>3
  <2>5. ASSUME NEW i \in 1 .. Len(Lowered(rest)) PROVE Lowered(rest)[i] = tail[i]
    <3>1. i \in 1 .. Len(rest) /\ i \in 1 .. Len(tail) /\ i + 1 \in 1 .. Len(u.host)
      BY <1>3, <1>4, <2>1, <2>2, <2>3
    <3>2. Lowered(rest)[i] = Lower[u.host[i + 1]]
      BY <2>1, <2>3, <3>1
    <3>3. tail[i] = Lower[u.host[i + 1]]
      BY <1>4, <2>2, <3>1
    <3> QED
      BY <3>2, <3>3
  <2> QED
    BY <2>2, <2>3, <2>4, <2>5, SeqEqual
<1>9. PagePort(sc, low) =
         IF Len(u.host) > 1 THEN Lowered(Tail(u.host))
         ELSE IF sc \in DOMAIN DefaultPort THEN <<DefaultPort[sc]>> ELSE <<>>
  BY <1>4, <1>8 DEF PagePort
<1>10. PageOf(u) = [scheme |-> sc, name |-> low[1], port |-> PagePort(sc, low),
                    path |-> Trimmed(u.path),
                    query |-> {<<p, Times(u.query, p)>> : p \in Range(ParamOrder)}]
  BY <1>5, <1>9, Zenon DEF PageOf
<1>11. /\ CanonicalizeURL(u).scheme = sc
       /\ CanonicalizeURL(u).host = CanonicalHost(sc, low)
       /\ CanonicalizeURL(u).path = CanonicalPath(u.path)
       /\ CanonicalizeURL(u).query = CanonicalQuery(u.query)
       /\ CanonicalizeURL(u).fragment = ""
  BY CanonicalFields, Zenon
<1> QED
  BY <1>1, <1>2, <1>4, <1>5, <1>6, <1>7, <1>10, <1>11, Zenon

\* A canonical URL is its own canonical form.
LEMMA CanonicalTwice ==
    ASSUME NEW u \in Address
    PROVE  CanonicalizeURL(CanonicalizeURL(u)) = CanonicalizeURL(u)
<1> PICK low : low = Lowered(u.host)
  OBVIOUS
<1> PICK sc : sc = Lower[u.scheme]
  OBVIOUS
<1> PICK same : same = CanonicalHost(sc, low)
  OBVIOUS
<1> PICK pa : pa = CanonicalPath(u.path)
  OBVIOUS
<1> PICK qu : qu = CanonicalQuery(u.query)
  OBVIOUS
<1> PICK c : c = CanonicalizeURL(u)
  OBVIOUS
<1>1. /\ sc \in DOMAIN Lower /\ Lower[sc] = sc
      /\ low \in Seq(DOMAIN Lower) /\ low # <<>> /\ low[1] \notin DOMAIN Bracketed
      /\ Lowered(low) = low
      /\ u.path \in Seq(Part) /\ u.query \in Seq(STRING)
  BY AddressParts
<1>2. c = [scheme |-> sc, host |-> same, path |-> pa, query |-> qu, fragment |-> ""]
  BY Zenon DEF CanonicalizeURL
<1>3. same \in Seq(DOMAIN Lower) /\ CanonicalHost(sc, same) = same
  <2>1. /\ CanonicalHost(sc, low) \in Seq(DOMAIN Lower)
        /\ CanonicalHost(sc, CanonicalHost(sc, low)) = CanonicalHost(sc, low)
    <3>1. low \in Seq(DOMAIN Lower) /\ low # <<>> /\ low[1] \notin DOMAIN Bracketed
      BY <1>1, Zenon
    <3>2. \A S : \A host \in Seq(S) : host # <<>> /\ host[1] \notin DOMAIN Bracketed =>
              /\ CanonicalHost(sc, host) \in Seq(S)
              /\ CanonicalHost(sc, CanonicalHost(sc, host)) = CanonicalHost(sc, host)
      <4> TAKE S
      <4> TAKE host \in Seq(S)
      <4> HAVE host # <<>> /\ host[1] \notin DOMAIN Bracketed
      <4> QED
        BY HostParts
    <3> QED
      BY <3>1, <3>2, Zenon
  <2> QED
    BY <2>1, Zenon
<1>4. Lowered(same) = same
  <2>1. same = low \/ same = <<low[1]>>
    BY <1>1, HostIs
  <2>2. CASE same = low
    BY <1>1, <2>2
  <2>3. CASE same = <<low[1]>>
    <3>1. 1 \in 1 .. Len(low)
      BY <1>1, EmptySeq
    <3>2. DOMAIN low = 1 .. Len(low)
      BY <1>1, LenProperties
    <3>3. low[1] = Lower[low[1]]
      BY <1>1, <3>1, <3>2 DEF Lowered
    <3> PICK n : n = low[1]
      OBVIOUS
    <3>4. Lowered(<<n>>) = <<Lower[n]>>
      BY DEF Lowered
    <3> QED
      BY <2>3, <3>3, <3>4
  <2> QED
    BY <2>1, <2>2, <2>3
<1>5. CanonicalPath(pa) = pa
  BY <1>1, PathIs
<1>6. CanonicalQuery(qu) = qu
  <2>1. \A n \in DOMAIN ParamOrder : Times(qu, ParamOrder[n]) = Times(u.query, ParamOrder[n])
    BY <1>1, QueryIs
  <2> QED
    BY <2>1, QueryByTimes
<1>7. /\ c.scheme = sc /\ c.host = same /\ c.path = pa /\ c.query = qu
  BY CanonicalFields, Zenon
<1>8. CanonicalizeURL(c) = [scheme |-> Lower[c.scheme],
                            host |-> CanonicalHost(Lower[c.scheme], Lowered(c.host)),
                            path |-> CanonicalPath(c.path), query |-> CanonicalQuery(c.query),
                            fragment |-> ""]
  BY Zenon DEF CanonicalizeURL
<1> QED
  BY <1>1, <1>2, <1>3, <1>4, <1>5, <1>6, <1>7, <1>8

LEMMA PageFields ==
    ASSUME NEW a, NEW b, NEW c, NEW d, NEW e, NEW f, NEW g, NEW h, NEW i, NEW j,
           [scheme |-> a, name |-> b, port |-> c, path |-> d, query |-> e]
               = [scheme |-> f, name |-> g, port |-> h, path |-> i, query |-> j]
    PROVE  a = f /\ b = g /\ c = h /\ d = i /\ e = j
  OBVIOUS

HostFrom(scheme, name, port) ==
    IF scheme \in DOMAIN DefaultPort /\ port = <<DefaultPort[scheme]>> THEN <<name>>
    ELSE <<name>> \o port
PathFrom(trimmed) == IF trimmed = <<>> THEN <<"/">> ELSE trimmed

LEMMA PageIsKey ==
    ASSUME NEW u \in Address, NEW v \in Address, Plain(u), Plain(v)
    PROVE  PageOf(u) = PageOf(v) <=> CanonicalizeURL(u) = CanonicalizeURL(v)
<1> DEFINE low(a) == Lowered(a.host)
           sc(a) == Lower[a.scheme]
           port(a) == PagePort(sc(a), low(a))
           host(a) == CanonicalHost(sc(a), low(a))
           counts(a) == {<<p, Times(a.query, p)>> : p \in Range(ParamOrder)}
           Known(a) ==
               /\ CanonicalizeURL(a) = [scheme |-> sc(a), host |-> host(a),
                                        path |-> CanonicalPath(a.path),
                                        query |-> CanonicalQuery(a.query), fragment |-> ""]
               /\ PageOf(a) = [scheme |-> sc(a), name |-> low(a)[1], port |-> port(a),
                               path |-> Trimmed(a.path), query |-> counts(a)]
               /\ host(a)[1] = low(a)[1] /\ PagePort(sc(a), host(a)) = port(a)
               /\ host(a) = HostFrom(sc(a), low(a)[1], port(a))
               /\ CanonicalPath(a.path) = PathFrom(Trimmed(a.path))
               /\ Trimmed(a.path) # <<"/">>
               /\ \A n \in DOMAIN ParamOrder :
                     Times(CanonicalQuery(a.query), ParamOrder[n]) = Times(a.query, ParamOrder[n])
<1>1. ASSUME NEW a \in Address, Plain(a) PROVE Known(a)
  <2>1. /\ low(a) \in Seq(DOMAIN Lower) /\ low(a) # <<>> /\ low(a)[1] \notin DOMAIN Bracketed
        /\ PageOf(a) = [scheme |-> sc(a), name |-> low(a)[1], port |-> port(a),
                        path |-> Trimmed(a.path), query |-> counts(a)]
        /\ a.path \in Seq(Part) /\ a.query \in Seq(STRING)
    BY AddressParts
  <2>2. CanonicalizeURL(a) = [scheme |-> sc(a), host |-> host(a), path |-> CanonicalPath(a.path),
                              query |-> CanonicalQuery(a.query), fragment |-> ""]
    BY Zenon DEF CanonicalizeURL
  <2>3. /\ host(a)[1] = low(a)[1] /\ PagePort(sc(a), host(a)) = port(a)
        /\ host(a) = HostFrom(sc(a), low(a)[1], port(a))
    BY <2>1, HostParts DEF HostFrom
  <2>4. CanonicalPath(a.path) = PathFrom(Trimmed(a.path))
    BY <1>1, <2>1, PathIs DEF Plain, PathFrom
  <2>5. Trimmed(a.path) # <<"/">>
    <3>1. Trimmed(a.path) # <<>> => Last(Trimmed(a.path)) # "/"
      BY <2>1, TrimmedIs
    <3>2. Last(<<"/">>) = "/" /\ <<"/">> # <<>>
      BY DEF Last
    <3> QED
      BY <3>1, <3>2, Zenon
  <2>6. \A n \in DOMAIN ParamOrder :
           Times(CanonicalQuery(a.query), ParamOrder[n]) = Times(a.query, ParamOrder[n])
    BY <2>1, QueryIs
  <2> HIDE DEF low, sc, port, host, counts
  <2> QED
    BY <2>1, <2>2, <2>3, <2>4, <2>5, <2>6, Zenon
<1>2. Known(u) /\ Known(v)
  BY <1>1
<1> HIDE DEF low, sc, port, host, counts
<1>3. ASSUME PageOf(u) = PageOf(v) PROVE CanonicalizeURL(u) = CanonicalizeURL(v)
  <2>1. /\ sc(u) = sc(v) /\ low(u)[1] = low(v)[1] /\ port(u) = port(v)
        /\ Trimmed(u.path) = Trimmed(v.path) /\ counts(u) = counts(v)
    <3>1. [scheme |-> sc(u), name |-> low(u)[1], port |-> port(u), path |-> Trimmed(u.path),
           query |-> counts(u)]
             = [scheme |-> sc(v), name |-> low(v)[1], port |-> port(v), path |-> Trimmed(v.path),
                query |-> counts(v)]
      BY <1>2, <1>3, Zenon
    <3> QED
      BY <3>1, PageFields, Zenon
  <2>2. host(u) = host(v)
    BY <1>2, <2>1, Zenon
  <2>3. CanonicalPath(u.path) = CanonicalPath(v.path)
    BY <1>2, <2>1, Zenon
  <2>4. ASSUME NEW n \in DOMAIN ParamOrder
        PROVE  Times(u.query, ParamOrder[n]) = Times(v.query, ParamOrder[n])
    <3> PICK p : p = ParamOrder[n]
      OBVIOUS
    <3>1. p \in Range(ParamOrder)
      BY DEF Range
    <3>2. <<p, Times(u.query, p)>> \in counts(v)
      BY <2>1, <3>1 DEF counts
    <3>3. PICK q \in Range(ParamOrder) : <<p, Times(u.query, p)>> = <<q, Times(v.query, q)>>
      BY <3>2 DEF counts
    <3>4. p = q /\ Times(u.query, p) = Times(v.query, q)
      BY <3>3
    <3> QED
      BY <3>4
  <2>5. CanonicalQuery(u.query) = CanonicalQuery(v.query)
    BY <2>4, QueryByTimes
  <2> QED
    BY <1>2, <2>1, <2>2, <2>3, <2>5, Zenon
<1>4. ASSUME CanonicalizeURL(u) = CanonicalizeURL(v) PROVE PageOf(u) = PageOf(v)
  <2>1. /\ sc(u) = sc(v) /\ host(u) = host(v) /\ CanonicalPath(u.path) = CanonicalPath(v.path)
        /\ CanonicalQuery(u.query) = CanonicalQuery(v.query)
    <3>1. \A a : /\ CanonicalizeURL(a).scheme = sc(a) /\ CanonicalizeURL(a).host = host(a)
                 /\ CanonicalizeURL(a).path = CanonicalPath(a.path)
                 /\ CanonicalizeURL(a).query = CanonicalQuery(a.query)
      BY CanonicalFields, Zenon DEF sc, host, low
    <3> QED
      BY <1>4, <3>1, Zenon
  <2>2. low(u)[1] = low(v)[1] /\ port(u) = port(v)
    BY <1>2, <2>1, Zenon
  <2>3. Trimmed(u.path) = Trimmed(v.path)
    <3> HIDE DEF Known
    <3> PICK r : r = Trimmed(u.path)
      OBVIOUS
    <3> PICK t : t = Trimmed(v.path)
      OBVIOUS
    <3>1. r # <<"/">> /\ t # <<"/">>
      BY <1>2, Zenon DEF Known
    <3>2. PathFrom(r) = PathFrom(t)
      BY <1>2, <2>1, Zenon DEF Known
    <3>3. r = <<>> \/ PathFrom(r) = r
      BY DEF PathFrom
    <3>4. t = <<>> \/ PathFrom(t) = t
      BY DEF PathFrom
    <3>5. PathFrom(<<>>) = <<"/">>
      BY DEF PathFrom
    <3> QED
      BY <3>1, <3>2, <3>3, <3>4, <3>5, Zenon
  <2>4. counts(u) = counts(v)
    <3>1. \A p \in Range(ParamOrder) : \E n \in DOMAIN ParamOrder : p = ParamOrder[n]
      BY DEF Range
    <3>2. \A p \in Range(ParamOrder) : Times(u.query, p) = Times(v.query, p)
      BY <1>2, <2>1, <3>1, Zenon
    <3> QED
      BY <3>2, Zenon DEF counts
  <2> QED
    BY <1>2, <2>1, <2>2, <2>3, <2>4, Zenon
<1> QED
  BY <1>3, <1>4

-----------------------------------------------------------------------------
(* The deduplicators.                                                      *)

KeysOf(found) == {CanonicalizeURL(u) : u \in found}
OfOneKey(found) == \A u, v \in found : CanonicalizeURL(u) = CanonicalizeURL(v) => u = v

\* The keys kept are those of the URLs claimed, of which no two have the same.
DedupInv ==
    /\ strategy \in {"exact", "bloom"} /\ claimed \cup carried \subseteq Address
    /\ strategy = "exact" =>
          /\ seen = KeysOf(claimed \cup carried) /\ saved = KeysOf(carried)
          /\ OfOneKey(claimed \cup carried)
    /\ strategy = "bloom" =>
          /\ seen = {} /\ saved = {} /\ carried = {}
          /\ \A u \in claimed : Positions(CanonicalizeURL(u)) \subseteq bits
          /\ OfOneKey(claimed)

LEMMA DedupStep == DedupInv /\ [NextDedup]_dedup => DedupInv'
<1> SUFFICES ASSUME DedupInv, [NextDedup]_dedup PROVE DedupInv'
  OBVIOUS
<1> USE DEF DedupInv
<1>1. CASE Export
  BY <1>1, Zenon DEF Export, KeysOf, OfOneKey
<1>2. CASE Restart
  <2>1. /\ seen' = saved /\ bits' = {} /\ claimed' = {}
        /\ strategy' = strategy /\ saved' = saved /\ carried' = carried
    BY <1>2 DEF Restart, ResetBloom
  <2>2. claimed' \cup carried' = carried /\ claimed' \subseteq claimed
    BY <2>1
  <2>3. OfOneKey(claimed \cup carried) => OfOneKey(carried)
    BY DEF OfOneKey
  <2>4. OfOneKey({})
    BY DEF OfOneKey
  <2>5. CASE strategy = "exact"
    BY <2>1, <2>2, <2>3, <2>5 DEF KeysOf, OfOneKey
  <2>6. CASE strategy = "bloom"
    BY <2>1, <2>2, <2>4, <2>6 DEF OfOneKey
  <2> QED
    BY <2>5, <2>6
<1>3. ASSUME NEW u \in Address, MarkExact(u) PROVE DedupInv'
  <2> PICK key : key = CanonicalizeURL(u)
    OBVIOUS
  <2> PICK kept : kept = claimed \cup carried
    OBVIOUS
  <2>1. /\ strategy = "exact" /\ key \notin seen /\ seen' = seen \cup {key}
        /\ claimed' = claimed \cup {u}
        /\ UNCHANGED <<strategy, saved, carried>>
    BY <1>3 DEF MarkExact, IsSeen
  <2>2. claimed' \cup carried' = kept \cup {u} /\ kept \cup {u} \subseteq Address
    BY <2>1
  <2>3. seen' = KeysOf(kept \cup {u})
    BY <2>1 DEF KeysOf
  <2>4. OfOneKey(kept \cup {u})
    <3>1. \A v \in kept : CanonicalizeURL(v) # key
      BY <2>1 DEF KeysOf
    <3>2. OfOneKey(kept)
      BY <2>1
    <3> QED
      BY <3>1, <3>2, Zenon DEF OfOneKey
  <2> QED
    BY <2>1, <2>2, <2>3, <2>4 DEF KeysOf, OfOneKey
<1>4. ASSUME NEW u \in Address, MarkBloom(u) PROVE DedupInv'
  <2> PICK key : key = CanonicalizeURL(u)
    OBVIOUS
  <2>1. /\ strategy = "bloom" /\ ~ (Positions(key) \subseteq bits)
        /\ bits' = bits \cup Positions(key) /\ claimed' = claimed \cup {u}
        /\ UNCHANGED <<strategy, seen, saved, carried>>
    BY <1>4 DEF MarkBloom, IsSeen, MayContain, Add
  <2>2. OfOneKey(claimed \cup {u})
    <3>1. \A v \in claimed : CanonicalizeURL(v) # key
      BY <2>1
    <3>2. OfOneKey(claimed)
      BY <2>1
    <3> QED
      BY <3>1, <3>2, Zenon DEF OfOneKey
  <2>3. \A v \in claimed \cup {u} : Positions(CanonicalizeURL(v)) \subseteq bits'
    BY <2>1
  <2> QED
    BY <2>1, <2>2, <2>3
<1>5. CASE UNCHANGED dedup
  BY <1>5, Zenon DEF dedup
<1> QED
  BY <1>1, <1>2, <1>3, <1>4, <1>5 DEF NextDedup

\* A page is claimed once in a process, and once until a checkpoint is left
\* behind with the exact strategy, whatever URLs it goes by; and no URL is
\* turned away but for a page that was claimed.
THEOREM OnceClaimed == DedupSpec => []OneClaimPerPage
<1>1. InitDedup => DedupInv
  BY DEF InitDedup, DedupInv, KeysOf, OfOneKey
<1>2. DedupInv => OneClaimPerPage
  <2> SUFFICES ASSUME DedupInv PROVE OneClaimPerPage
    OBVIOUS
  <2>1. ASSUME NEW u \in claimed
        PROVE  CanonicalizeURL(CanonicalizeURL(u)) = CanonicalizeURL(u)
    BY CanonicalTwice DEF DedupInv
  <2>2. ASSUME NEW u \in claimed,
               NEW v \in claimed \cup (IF strategy = "exact" THEN carried ELSE {}),
               SamePage(u, v)
        PROVE  u = v
    <3>1. u \in Address /\ v \in Address
      BY DEF DedupInv
    <3>2. CanonicalizeURL(u) = CanonicalizeURL(v)
      BY <2>2, <3>1, PageIsKey DEF SamePage
    <3> QED
      BY <3>2 DEF DedupInv, OfOneKey
  <2>3. ASSUME NEW key \in seen, NEW u \in Address, CanonicalizeURL(u) = key, Plain(u)
        PROVE  \E v \in claimed \cup carried : SamePage(u, v) \/ ~ Plain(v)
    <3>1. PICK v \in claimed \cup carried : CanonicalizeURL(v) = key
      BY DEF DedupInv, KeysOf
    <3>2. v \in Address
      BY DEF DedupInv
    <3>3. Plain(v) => PageOf(u) = PageOf(v)
      BY <2>3, <3>1, <3>2, PageIsKey
    <3> QED
      BY <2>3, <3>1, <3>3 DEF SamePage
  <2> QED
    BY <2>1, <2>2, <2>3 DEF OneClaimPerPage
<1> QED
  BY <1>1, <1>2, DedupStep, PTL DEF DedupSpec
=============================================================================
