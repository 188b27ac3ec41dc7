------------------------------- MODULE Evidence -------------------------------
(***************************************************************************)
(* How a claim is grounded in the bytes of a page (internal/provenance/    *)
(* assertion.go): the two renderings of a body with the source range of    *)
(* every rendered byte, the three searches for a claim, what is recorded,  *)
(* and the check a reader of the corpus makes with the bytes in hand.      *)
(*                                                                         *)
(* A body is a sequence of bytes, positions count from 1, and a range      *)
(* <<from, to>> leaves its end out. The names of elements are one byte     *)
(* long, a comment is opened by "<!" and closed by "!>".                   *)
(***************************************************************************)
EXTENDS Naturals, FiniteSets, SequencesExt

CONSTANTS
    Nowhere,       \* -1, or ok = false: not found
    Byte,
    Rune,          \* the characters of more than one byte, each a sequence
    Continuation,  \* the bytes such a character goes on with
    Space,         \* the characters that are white space
    Quote,         \* the bytes that quote an attribute's value
    NonText,       \* the elements whose contents are not text
    Unescape,      \* what the references known to the library decode to
    MaxEntityLen,
    Fragment,      \* what pages are made of: the source, and what it reads as
    MaxFragments

VARIABLES
    page,          \* the page an extractor has read, fragment by fragment
    index          \* the EvidenceIndex it has made of it

SpaceByte == {c[1] : c \in {s \in Space : Len(s) = 1}}
Blank == <<" ">>

ASSUME EvidenceAssumption ==
    /\ Nowhere \notin Nat \cup (Nat \X Nat)
    /\ " " \in Byte /\ Blank \in Space
    /\ \A c \in Rune : c \in Seq(Byte) /\ Len(c) > 1 /\ c[1] \notin Continuation
    /\ \A ref \in DOMAIN Unescape :
           /\ ref \in Seq(Byte) \ {<<>>}
           /\ ref[1] = "&" /\ Last(ref) = ";" /\ Len(ref) <= MaxEntityLen
           /\ Unescape[ref] \in Seq(Byte) \ {<<>>, ref}
    /\ \A f \in Fragment : f.source \in Seq(Byte)

-----------------------------------------------------------------------------
(* Characters. *)

\* utf8.DecodeRune: a byte that starts no character stands for itself.
RuneAt(b, i) ==
    LET ends == {j \in i..Len(b) : SubSeq(b, i, j) \in Rune}
    IN IF ends = {} THEN <<b[i]>> ELSE SubSeq(b, i, CHOOSE j \in ends : TRUE)

RuneStart(c) == c \notin Continuation

\* Of each run of white space the first is kept, as a blank, and none at
\* either end. A token is a rendered character with its source range.
Collapse(tokens) ==
    LET black(k) == tokens[k].char \notin Space
        parts(k) == k > 1 /\ black(k - 1) /\ \E j \in k..Len(tokens) : black(j)
    IN FlattenSeq([k \in DOMAIN tokens |->
           IF black(k) THEN <<tokens[k]>>
           ELSE IF parts(k) THEN <<[char |-> Blank, from |-> tokens[k].from, to |-> tokens[k].to]>>
           ELSE <<>>])

\* The tokens of b from position i on, given those that begin at each.
Walk(b, tokens) ==
    LET from[i \in 1..(Len(b) + 1)] ==
            IF i > Len(b) THEN <<>> ELSE tokens[i] \o from[tokens[i][1].to]
    IN from[1]

\* The character at position i.
Char(b, i) == [char |-> RuneAt(b, i), from |-> i, to |-> i + Len(RuneAt(b, i))]
Runes(b) == Walk(b, [i \in DOMAIN b |-> <<Char(b, i)>>])

Bytes(tokens) == FlattenSeq([k \in DOMAIN tokens |-> tokens[k].char])

\* normaliseSpace.
NormaliseSpace(b) == Bytes(Collapse(Runes(b)))

-----------------------------------------------------------------------------
(* Markup. *)

First(positions) == IF positions = {} THEN Nowhere ELSE CHOOSE j \in positions : \A k \in positions : j <= k

ReadsAt(b, i, word) == i + Len(word) - 1 <= Len(b) /\ SubSeq(b, i, i + Len(word) - 1) = word

\* skipElement: past the closing tag of a non-text element opened at i.
SkipElement(b, i) ==
    LET name == IF i < Len(b) /\ b[i + 1] \in NonText THEN b[i + 1] ELSE Nowhere
        open == name # Nowhere /\ (i + 2 <= Len(b) => b[i + 2] \in SpaceByte \cup {">", "/"})
        closing == First({j \in i..Len(b) : ReadsAt(b, j, <<"<", "/", name>>)})
    IN IF ~open \/ closing = Nowhere THEN Nowhere
       ELSE First({j + 1 : j \in {k \in (closing + 3)..Len(b) : b[k] = ">"}})

\* Whether the attribute quoted last before position j is still open.
Quoted(b, i, j) ==
    FoldLeft(LAMBDA q, c : CASE q = Nowhere -> IF c \in Quote THEN c ELSE Nowhere
                             [] q = c -> Nowhere
                             [] OTHER -> q,
             Nowhere, SubSeq(b, i + 1, j - 1)) # Nowhere

SkipComment(b, i) == First({j + 2 : j \in {k \in (i + 2)..Len(b) : ReadsAt(b, k, <<"!", ">">>)}})

\* Mutant: the tag ends at the first ">", quoted or not.
SkipTagUnquoted(b, i) ==
    IF ReadsAt(b, i, <<"<", "!">>) THEN SkipComment(b, i)
    ELSE First({j + 1 : j \in {k \in (i + 1)..Len(b) : b[k] = ">"}})

\* skipTag: past the tag or the comment at i. One that never ends is text.
SkipTag(b, i) ==
    IF ReadsAt(b, i, <<"<", "!">>) THEN SkipComment(b, i)
    ELSE First({j + 1 : j \in {k \in (i + 1)..Len(b) : b[k] = ">" /\ ~Quoted(b, i, k)}})

\* decodeEntity: the decoded bytes and where the reference ends. A result
\* that keeps the semicolon was decoded in part.
DecodeEntity(b, i) ==
    LET end == First({j \in (i + 1)..Len(b) :
                        /\ j < i + MaxEntityLen
                        /\ b[j] \in SpaceByte \cup {"&", ";"}})
        ref == IF end = Nowhere THEN <<>> ELSE SubSeq(b, i, end)
    IN IF ref \in DOMAIN Unescape /\ Last(Unescape[ref]) # ";"
       THEN [decoded |-> Unescape[ref], end |-> end + 1] ELSE Nowhere

-----------------------------------------------------------------------------
(* Renderings. *)

\* The token or tokens at i. With tags stripped an element or a tag is one
\* blank; a reference is the characters it stands for, all of its range. The
\* range of a blank is never asked for: no claim begins or ends with one.
Tokens(b, i, stripTags) ==
    LET element == IF stripTags /\ b[i] = "<" THEN SkipElement(b, i) ELSE Nowhere
        tag == IF stripTags /\ b[i] = "<" /\ element = Nowhere THEN SkipTag(b, i) ELSE Nowhere
        entity == IF b[i] = "&" THEN DecodeEntity(b, i) ELSE Nowhere
    IN CASE element # Nowhere -> <<[char |-> Blank, from |-> i, to |-> element]>>
         [] element = Nowhere /\ tag # Nowhere -> <<[char |-> Blank, from |-> i, to |-> tag]>>
         [] tag = Nowhere /\ element = Nowhere /\ entity # Nowhere ->
                [k \in DOMAIN Runes(entity.decoded) |->
                    [char |-> Runes(entity.decoded)[k].char, from |-> i, to |-> entity.end]]
         [] OTHER -> <<Char(b, i)>>

\* buildProjection: the rendered bytes and, for each, the source range it
\* came from.
BuildProjection(b, stripTags) ==
    LET out == Collapse(Walk(b, [i \in DOMAIN b |-> Tokens(b, i, stripTags)]))
        each(t) == [n \in DOMAIN t.char |-> [byte |-> t.char[n], from |-> t.from, to |-> t.to]]
        marks == FlattenSeq([k \in DOMAIN out |-> each(out[k])])
    IN [norm |-> [n \in DOMAIN marks |-> marks[n].byte],
        starts |-> [n \in DOMAIN marks |-> marks[n].from], ends |-> [n \in DOMAIN marks |-> marks[n].to]]

\* NewEvidenceIndex, with the projections it builds on demand.
EvidenceIndex(b) == [body |-> b, markup |-> BuildProjection(b, FALSE), text |-> BuildProjection(b, TRUE)]

-----------------------------------------------------------------------------
(* Grounding. *)

RuneAligned(b, i, n) == RuneStart(b[i]) /\ (i + n <= Len(b) => RuneStart(b[i + n]))

\* indexAligned: the first match on character boundaries.
IndexAligned(b, needle) ==
    First({i \in 1..(Len(b) - Len(needle) + 1) :
             ReadsAt(b, i, needle) /\ RuneAligned(b, i, Len(needle))})

\* An assertion as a parser derives it, sure of itself and not yet checked.
Unchecked == [evidence |-> Nowhere, validated |-> FALSE, unsupported |-> FALSE, confidence |-> 1]

\* The range behind n rendered bytes from the i-th on.
SourceRange(p, i, n) == <<p.starts[i], p.ends[i + n - 1]>>

\* Locate: the bytes themselves, then the rendering with its markup, then
\* the one without. Nowhere if the claim is found in neither.
Locate(ix, claimed) ==
    LET needle == NormaliseSpace(claimed)
        n == Len(needle)
        exact == IndexAligned(ix.body, claimed)
        markup == IndexAligned(ix.markup.norm, needle)
        text == IndexAligned(ix.text.norm, needle)
    IN CASE ix.body = <<>> \/ claimed = <<>> -> Nowhere
         [] exact # Nowhere -> <<exact, exact + Len(claimed)>>
         [] exact = Nowhere /\ needle = <<>> -> Nowhere
         [] exact = Nowhere /\ needle # <<>> /\ markup # Nowhere -> SourceRange(ix.markup, markup, n)
         [] exact = Nowhere /\ needle # <<>> /\ markup = Nowhere /\ text # Nowhere ->
                SourceRange(ix.text, text, n)
         [] OTHER -> Nowhere

\* Ground. A claim not found is kept, and trusted no more.
Ground(ix, a, claimed) ==
    LET span == Locate(ix, claimed)
    IN IF span = Nowhere
       THEN [a EXCEPT !.evidence = Nowhere, !.validated = FALSE, !.unsupported = TRUE, !.confidence = 0]
       ELSE [a EXCEPT !.evidence = span, !.validated = TRUE, !.unsupported = FALSE]

\* Validate, with an index of its own.
Validate(b, a, claimed) == Ground(EvidenceIndex(b), a, claimed)

\* SpanSupports: what a reader asks of the bytes a span cuts.
SpanSupports(source, claimed) ==
    LET want == NormaliseSpace(claimed)
    IN want # <<>> /\ \E stripTags \in BOOLEAN : BuildProjection(source, stripTags).norm = want

Cut(b, span) == SubSeq(b, span[1], span[2] - 1)

-----------------------------------------------------------------------------
(* Properties. *)

\* A page is a few fragments. One whose fragments are all well-formed has a
\* text, which an extractor returns with its white space normalised.
Source(fragments) == FlattenSeq([k \in DOMAIN fragments |-> fragments[k].source])
WellFormed == \A k \in DOMAIN page : page[k].reads # Nowhere
Text == FlattenSeq([k \in DOMAIN page |-> page[k].reads])

InitPage == page = <<>> /\ index = EvidenceIndex(<<>>)
Grow ==
    /\ Len(page) < MaxFragments
    /\ \E f \in Fragment : page' = Append(page, f)
    /\ index' = EvidenceIndex(Source(page'))

EvidenceSpec == InitPage /\ [][Grow]_<<page, index>>

\* What else may be claimed of it: runs of its bytes or of a rendering's.
\* Runs of whole characters are values an extractor may have read; a byte that
\* belongs to no character hides what it directly follows.
Runs(b) == {SubSeq(b, i, j) : i, j \in 1..Len(b)} \ {<<>>}
Whole(b, i, j) ==
    /\ \E c, d \in Range(Runes(b)) : c.from = i /\ d.to = j + 1
    /\ RuneStart(b[i]) /\ (j < Len(b) => RuneStart(b[j + 1]))
Readings(b) ==
    {SubSeq(b, r[1], r[2]) :
        r \in {q \in (1..Len(b)) \X (1..Len(b)) : q[1] <= q[2] /\ Whole(b, q[1], q[2])}}

Trimmed(claims) == {c \in claims : NormaliseSpace(c) = c}
Rendered == {index.markup.norm, index.text.norm}

\* A claim with the bytes it cites, and an index of these alone.
Citation(claimed, span) ==
    [claimed |-> claimed, span |-> span, alone |-> EvidenceIndex(Cut(index.body, span))]
Grounded(claims) ==
    {g \in {[claimed |-> c, as |-> Ground(index, Unchecked, c)] : c \in claims} : g.as.validated}
Citations(claims) == {Citation(g.claimed, g.as.evidence) : g \in Grounded(claims)}

LiesInPage(citation) ==
    /\ citation.span[1] \in 1..Len(index.body)
    /\ citation.span[2] \in (citation.span[1] + 1)..(Len(index.body) + 1)

StandsAlone(citation) ==
    /\ LiesInPage(citation)
    /\ RuneStart(citation.alone.body[1])
    /\ Locate(citation.alone, citation.claimed) = <<1, Len(citation.alone.body) + 1>>

IsValid(c) == Ground(index, Unchecked, c).validated
TextIsGrounded == WellFormed /\ NormaliseSpace(Text) # <<>> => IsValid(NormaliseSpace(Text))
ReadingsAreGrounded ==
    \A c \in (Readings(index.body) \cup Trimmed(UNION {Readings(p) : p \in Rendered})) \ {<<>>} :
        IsValid(c)
Claims == Runs(index.body) \cup UNION {Runs(p) : p \in Rendered}

\* Whatever an extractor reads off a page is grounded in it, its whole text
\* across markup, comments, scripts and references included; and a citation
\* stands alone: the bytes it cuts are whole characters which, with nothing
\* around them, are again found to make the claim, all of them needed.
CitationsStandAlone ==
    /\ TextIsGrounded /\ ReadingsAreGrounded
    /\ \A citation \in Citations(Claims) : StandsAlone(citation)

\* assertion_test.go:187 requires of every body and claim that a validated
\* span renders to the claim. Bytes found verbatim need not: "&amp;" in them
\* renders to "&".
SpansRender ==
    \A g \in {[claimed |-> c, as |-> Validate(index.body, Unchecked, c)] : c \in Runs(index.body)} :
        g.as.validated => SpanSupports(Cut(index.body, g.as.evidence), g.claimed)
=============================================================================
