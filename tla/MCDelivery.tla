----------------------------- MODULE MCDelivery -----------------------------
(* Two workers with a page each, of three items and of one, and two         *)
(* subscribers, one of them registering at any moment. One item fails in    *)
(* the pipeline, or is dropped. A channel holds one item, a batch two: each *)
(* sender has to wait at times, a subscriber that gives up blocks them all, *)
(* and the last batch may be full, half full or empty.                      *)
(*                                                                          *)
(* What the storage was given is then written, batch by batch, in each of   *)
(* the formats, by a process that may die. The items of the first worker    *)
(* are of one response, its callback's, and differ in their fields only; the *)
(* second worker's is the parser's, of a page on which rules of all types    *)
(* match, one field is shadowed and one is repeated by the page itself; or a *)
(* callback's, with a value JSON cannot encode.                             *)
EXTENDS Delivery, Output

CONSTANTS w1, w2, i1, i2, i3, i4, s1, s2

MCPages == (w1 :> << <<i1, i2, i3>> >>) @@ (w2 :> << <<i4>> >>)

MCEarly == <<s1>>

\* A pipeline whose middlewares return an item or an error.
NoDrops == (i2 :> "error") @@ [i \in Item |-> "keep"]

Css(name, selector) == [name |-> name, type |-> "", selector |-> selector]
Regex(name) == [name |-> name, type |-> "regex", selector |-> name]
XPath(name) == [name |-> name, type |-> "xpath", selector |-> 1]
MCRules == <<XPath(7), Css(5, 1), Css(5, 2), Regex(6), Regex(7)>>
MCMatch == (Css(5, 1) :> <<12>> @@ Css(5, 2) :> <<14, 13>> @@ Regex(6) :> <<>>
            @@ Regex(7) :> <<11>> @@ XPath(7) :> <<12>>)
Block(field, data) == [field |-> field, data |-> data]
MCStructured == [p \in {"page"} |-> <<Block(9, <<12, 13>>), Block(8, <<11>>), Block(9, <<14>>)>>]

List(ns) == [kind |-> "list", parts |-> ns]
Object(ns) == [kind |-> "object", parts |-> ns]
Channel == [kind |-> "channel", parts |-> <<13>>]
MCJson == (List(<<14, 13>>) :> 21) @@ (Object(<<11>>) :> 22) @@ (Object(<<14>>) :> 23)
          @@ (Channel :> 24)
MCValue == {Text(n) : n \in 11..14} \cup DOMAIN MCJson
MCJoined == [name \in 5..9 |-> [text \in 11..24 |-> 100 * name + text]]

\* The hypotheses under which the file is proved to be determined.
ASSUME MCHypotheses == MethodsTellRules /\ KeysTellFields

Of(i, bad) ==
    CASE i = i4 /\ ~bad -> ParserItem("page", MCRules, 2, 3)
      [] i = i4 /\ bad -> CallbackItem((5 :> Channel), 2, 2, 1)
      [] OTHER -> CallbackItem((5 :> Text(IF i = i1 THEN 14 ELSE 12)), 2, 2, 1)

\* The storage is storeResults' own: its calls come in their order, and are
\* looked at once a crawl is over in which the second subscriber kept out.
NextOutput ==
    \/ OpenStorage
    \/ \E n \in (Len(taken) + 1)..Len(given) : \E bad \in BOOLEAN :
          /\ n <= Len(taken) + BatchSize
          /\ StoreBatch([k \in 1..(n - Len(taken)) |-> Of(given[Len(taken) + k], bad)])
    \/ Len(taken) = Len(given) /\ CloseStorage
    \/ CrashStorage
MCNext == (Next /\ UNCHANGED output) \/ (Over /\ joined[s2] = Nil /\ NextOutput /\ UNCHANGED vars)
MCInit == Init /\ InitOutput
MCSpec == MCInit /\ [][MCNext]_<<vars, output>> /\ Fairness
=============================================================================
