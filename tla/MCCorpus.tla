------------------------------- MODULE MCCorpus -------------------------------
(* Two pages, the second found only through the first; two versions of them:  *)
(* one whose only restrictions are lost behind a colon and another reservation, *)
(* and one restricted in its headers and its markup; four commands over a site *)
(* that changes once.                                                         *)
(*                                                                            *)
(* For the grounding of claims: every page of up to three fragments, among     *)
(* them a tag with a quoted ">", a script, a comment, references to one, to    *)
(* two and to blank characters, and what breaks a page: tags and elements      *)
(* never closed, a stray byte, a reference that decodes in part.              *)
EXTENDS Corpus, Evidence

CONSTANTS u1, u2, v1, v2

MCUrl == {u1, u2}
MCVersion == {v1, v2}
MCLink == (u1 :> {u2} @@ u2 :> {})
plain(d) == [scoped |-> FALSE, says |-> d]
scoped(d) == [scoped |-> TRUE, says |-> d]
MCHeaderSays ==
    (v1 :> [robots |-> {<<plain("noai"), scoped("other")>>, <<scoped("other"), scoped("noai")>>},
            tdm |-> <<"0", "1">>, licence |-> FALSE]
     @@ v2 :> [robots |-> {<<scoped("noimageai"), plain("other")>>}, tdm |-> <<"other", "0">>,
               licence |-> TRUE])
MCPageSays ==
    (v1 :> [robots |-> {}, noindex |-> FALSE, tdm |-> <<"1", "0">>, licence |-> {"meta"}]
     @@ v2 :> [robots |-> {}, noindex |-> TRUE, tdm |-> <<"0", "1", "other">>, licence |-> {}])
MCRobotsTxt == <<"ua:other", "disallow", "ua:ai", "ua:other", "disallow:all", "allow">>

MCByte == {"a", "q", "s", "H", "T", "N", "d", "l", "n", "&", ";", "<", ">", "/", "!", " "}
MCRune == {<<"H", "T">>, <<"H", "N">>}
MCSpace == {<<" ">>, <<"H", "N">>}
MCUnescape ==
    (<<"&", "l", ";">> :> <<"<">> @@ <<"&", "n", ";">> :> <<"H", "N">> @@
     <<"&", "d", ";">> :> <<"a", "H", "T">> @@ <<"&", "l", "a", ";">> :> <<"<", "a", ";">>)

Fragments(sources, reads(_)) == {[source |-> b, reads |-> reads(b)] : b \in sources}

MCFragment ==
    Fragments({<<"a">>, <<"q">>, <<" ">>, <<"H", "T">>}, LAMBDA b : b)
    \cup Fragments({<<"&", "l", ";">>, <<"&", "n", ";">>, <<"&", "d", ";">>}, LAMBDA b : MCUnescape[b])
    \cup Fragments({<<"<", "q", ">", "q", ">">>, <<"<", "s", ">", "a", "<", "/", "s", ">">>,
                   <<"<", "!", ">", "!", ">">>}, LAMBDA b : <<" ">>)
    \cup Fragments({<<"<", "s", ">">>, <<"<">>, <<">">>, <<"T">>, <<"&", "l", "a", ";">>},
                  LAMBDA b : Nowhere)

\* The crawls are run beside the empty page; the others are only read.
ReadPage == command = None /\ changes = 0 /\ format = "jsonl" /\ Grow /\ UNCHANGED corpus
MCInit == InitCorpus /\ InitPage
MCNext == (page = <<>> /\ NextCorpus /\ UNCHANGED <<page, index>>) \/ ReadPage
MCSpec == MCInit /\ [][MCNext]_<<corpus, page, index>>
=============================================================================
