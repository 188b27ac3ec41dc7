----------------------------- MODULE RobotsRules ------------------------------
(***************************************************************************)
(* robots.txt as the crawl obeys it (internal/engine/robots.go): the rules *)
(* read from a file, and the matching of a path. Paths and patterns are    *)
(* sequences of letters; in a pattern "*" is any run, and a last "$" the   *)
(* end of the path. A line is a key and its value; a user-agent is us, any *)
(* (the star) or other.                                                    *)
(***************************************************************************)
EXTENDS Naturals, SequencesExt, FiniteSetsExt

CONSTANT Letter      \* of paths and patterns

Agents == {"us", "any", "other"}
Lines ==
    [key : {"user-agent"}, value : Agents] \cup [key : {"crawl-delay"}, value : Nat]
    \cup [key : {"allow", "disallow", "sitemap"}, value : Seq(Letter)]

Rules == [ours : BOOLEAN, allowed : Seq(Seq(Letter)), disallowed : Seq(Seq(Letter)),
          crawlDelay : Nat, sitemaps : Seq(Seq(Letter))]

NoRules == [ours |-> FALSE, allowed |-> <<>>, disallowed |-> <<>>, crawlDelay |-> 0,
            sitemaps |-> <<>>]

\* Mutant: a section once ours stays ours.
ReadRuleSticky(rules, line) ==
    CASE line.key = "user-agent" -> [rules EXCEPT !.ours = @ \/ line.value \in {"us", "any"}]
      [] line.key = "allow" /\ rules.ours -> [rules EXCEPT !.allowed = Append(@, line.value)]
      [] line.key = "disallow" /\ rules.ours -> [rules EXCEPT !.disallowed = Append(@, line.value)]
      [] OTHER -> rules

\* A line of parseRobotsTxt: each user-agent line decides anew whether what
\* follows is for this crawler. A sitemap belongs to no section. An empty
\* value, which the code drops, matches no path.
ReadRule(rules, line) ==
    IF line.key = "user-agent" THEN [rules EXCEPT !.ours = line.value \in {"us", "any"}]
    ELSE IF line.key = "sitemap" THEN [rules EXCEPT !.sitemaps = Append(@, line.value)]
    ELSE IF ~rules.ours THEN rules
    ELSE CASE line.key = "allow" -> [rules EXCEPT !.allowed = Append(@, line.value)]
           [] line.key = "disallow" -> [rules EXCEPT !.disallowed = Append(@, line.value)]
           [] line.key = "crawl-delay" -> [rules EXCEPT !.crawlDelay = line.value]

\* The rules after each of the lines.
Reading(lines) ==
    LET read[i \in 0..Len(lines)] ==
            IF i = 0 THEN NoRules ELSE ReadRule(read[i - 1], lines[i])
    IN read

ParseRobots(lines) == Reading(lines)[Len(lines)]

-----------------------------------------------------------------------------

\* Where part first occurs in path after pos: the position behind it, or a
\* position behind the end of the path.
Behind(part, path, pos) ==
    LET found == {i \in pos..Len(path) : IsPrefix(part, SubSeq(path, i + 1, Len(path)))}
    IN IF found = {} THEN Len(path) + 1 ELSE Min(found) + Len(part)

Stars(pattern) == {i \in DOMAIN pattern : pattern[i] = "*"}

\* The last star before a position, or 0: the part up to there is behind it.
StarBefore(pattern, i) == Max({0} \cup {j \in Stars(pattern) : j < i})

\* Where in the path the pattern's letters before each position are behind:
\* each part is looked for behind the one before, the first at the start.
Matching(pattern, path) ==
    LET pos[i \in 0..(Len(pattern) + 1)] ==
            LET star == StarBefore(pattern, i)
                part == SubSeq(pattern, star + 1, i - 1)
            IN IF i = 0 THEN 0
               ELSE IF pos[star] > Len(path) \/ part = <<>> THEN pos[star]
               ELSE IF star = 0 /\ ~IsPrefix(part, path) THEN Len(path) + 1
               ELSE Behind(part, path, pos[star])
    IN pos

MatchWildcard(pattern, path, mustEnd) ==
    LET pos == Matching(pattern, path)[Len(pattern) + 1]
    IN IF mustEnd THEN pos = Len(path) ELSE pos <= Len(path)

Anchored(pattern) == pattern # <<>> /\ Last(pattern) = "$"

MatchPattern(pattern, path) ==
    LET p == IF Anchored(pattern) THEN Front(pattern) ELSE pattern
    IN IF pattern = <<>> THEN FALSE
       ELSE IF Stars(p) # {} THEN MatchWildcard(p, path, Anchored(pattern))
       ELSE IF Anchored(pattern) THEN path = p
       ELSE IsPrefix(p, path)

\* IsAllowed, for what a robots.txt said: an allow rule overrides.
RulesAllow(rules, path) ==
    \/ \E p \in Range(rules.allowed) : MatchPattern(p, path)
    \/ \A p \in Range(rules.disallowed) : ~MatchPattern(p, path)

-----------------------------------------------------------------------------
(* What the file means. A pattern matches when its letters can be laid on  *)
(* the path in order, the stars taking up the rest; rules are for every    *)
(* agent named in the lines above them.                                    *)

Means(pattern, path) ==
    LET p == IF Anchored(pattern) THEN Front(pattern) ELSE pattern
        laid(f) == /\ f[0] = 0 /\ (Anchored(pattern) => f[Len(p)] = Len(path))
                   /\ \A i \in DOMAIN p :
                          IF p[i] = "*" THEN f[i] >= f[i - 1]
                          ELSE f[i] = f[i - 1] + 1 /\ p[i] = path[f[i]]
    IN pattern # <<>> /\ \E f \in [0..Len(p) -> 0..Len(path)] : laid(f)

\* The user-agent lines a rule at line i is for.
AgentsAt(lines) == {j \in DOMAIN lines : lines[j].key = "user-agent"}
Apart(lines, j, l) == \E k \in (j + 1)..(l - 1) : lines[k].key \in {"allow", "disallow", "crawl-delay"}
AgentsOf(lines, i) ==
    {lines[j].value : j \in {j \in AgentsAt(lines) :
        j < i /\ \A l \in AgentsAt(lines) : l < i => ~Apart(lines, j, l)}}

RulesMeant(lines, key) ==
    {lines[i].value : i \in {i \in DOMAIN lines :
         lines[i].key = key /\ AgentsOf(lines, i) \cap {"us", "any"} # {}}}

MeansAllowed(lines, path) ==
    \/ \E p \in RulesMeant(lines, "allow") : Means(p, path)
    \/ \A p \in RulesMeant(lines, "disallow") : ~Means(p, path)
===============================================================================
