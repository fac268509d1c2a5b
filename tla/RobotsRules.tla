------------------------------ MODULE RobotsRules ------------------------------
(* The robots.txt policy of apps/feeds/robots.py: _rules_for reads the file    *)
(* line by line into the rules that apply to the crawler, _Rule.matches is a   *)
(* greedy wildcard match, can_fetch takes the longest matching rule. Each is   *)
(* compared with what RFC 9309 says, written without loops.                    *)
(*                                                                             *)
(* A path is a sequence of characters and a pattern the parts between its "*", *)
(* both in the one percent-encoding of _normalize_path. A line is a user-agent *)
(* line (for this crawler, for "*" or for another), a rule or something else.  *)
(* A rule also has the length of its value as written: the code limits it and  *)
(* ranks by it, and an encoded character is longer there than in the pattern.  *)
EXTENDS Integers, Sequences, FiniteSets, SequencesExt, FiniteSetsExt

CONSTANTS
    Chars,          \* the characters of paths
    MaxPath,        \* longest path
    MaxPart,        \* longest part of a pattern
    MaxParts,       \* most parts of a pattern
    RuleTexts,      \* the values of the rules in files: their pattern and their length
    RobotsPath,     \* "/robots.txt"
    MAX_RULES,          \* rules kept of a file
    MAX_PATTERN_CHARS,  \* length of the longest value kept
    MaxLines        \* longest file

Paths == BoundedSeq(Chars, MaxPath)
Patterns == [parts : UNION {[1 .. n -> BoundedSeq(Chars, MaxPart)] : n \in 1 .. MaxParts},
             anchored : BOOLEAN]

ASSUME RobotsRulesAssumption ==
    /\ {MaxPath, MaxPart, MaxParts, MAX_RULES, MAX_PATTERN_CHARS, MaxLines} \subseteq Nat
    /\ RuleTexts \subseteq [pattern : Patterns, length : Nat \ {0}]

EmptyPattern == [parts |-> << << >> >>, anchored |-> FALSE]

AgentLines == [key : {"user-agent"}, agent : {"own", "star", "other"}]
RuleLine(key, pattern, length) == [key |-> key, pattern |-> pattern, length |-> length]
RuleLines == {RuleLine(key, x.pattern, x.length) : key \in {"allow", "disallow"}, x \in RuleTexts}
             \cup {RuleLine("disallow", EmptyPattern, 0)}
Lines == AgentLines \cup RuleLines \cup {[key |-> "junk"]}

IsRule(l) == l.key \in {"allow", "disallow"}

-----------------------------------------------------------------------------
(* _Rule.matches *)

At(part, path, pos) ==
    pos + Len(part) <= Len(path) /\ SubSeq(path, pos + 1, pos + Len(part)) = part

(* path.find(part, pos), moved to the end of what it found; -1 if nothing.     *)
Found(part, path, pos) ==
    LET hits == {i \in pos .. Len(path) : At(part, path, i)}
    IN  IF pos < 0 \/ hits = {} THEN -1 ELSE Min(hits) + Len(part)

(* The last part of an anchored pattern must end the path, after the others.   *)
EndsPath_Overlapping(last, path, pos) ==
    Len(path) >= Len(last) /\ At(last, path, Len(path) - Len(last))

EndsPath(last, path, pos) ==
    Len(path) - Len(last) >= pos /\ At(last, path, Len(path) - Len(last))

(* The loop over the parts: where the last one found ends, or -1.              *)
FoundAll(parts, path, pos) == FoldLeft(LAMBDA i, part : Found(part, path, i), pos, parts)

Matches(p, path) ==
    LET first == Head(p.parts)
        rest  == IF p.anchored THEN Front(Tail(p.parts)) ELSE Tail(p.parts)
        pos   == FoundAll(rest, path, Len(first))
    IN  /\ At(first, path, 0)
        /\ IF Len(p.parts) = 1 THEN p.anchored => path = first
           ELSE pos >= 0 /\ (p.anchored => EndsPath(Last(p.parts), path, pos))

(* What a pattern means: the parts occur in the path in order, without         *)
(* overlapping, the first at the beginning, an anchored last one at the end.   *)
MatchesByDefinition(p, path) ==
    LET n == Len(p.parts) IN
    \E start \in [1 .. n -> 0 .. Len(path)] :
        /\ start[1] = 0
        /\ \A i \in 1 .. n : At(p.parts[i], path, start[i])
        /\ \A i \in 1 .. n - 1 : start[i] + Len(p.parts[i]) <= start[i + 1]
        /\ p.anchored => start[n] + Len(p.parts[n]) = Len(path)

-----------------------------------------------------------------------------
(* _rules_for: its locals, and the body of its loop. *)
Start == [own |-> << >>, star |-> << >>, named |-> FALSE, for_own |-> FALSE,
          for_star |-> FALSE, in_rules |-> FALSE, count |-> 0]

(* A user-agent line after a rule begins a new group. *)
Continues_Always(s, flag) == flag
Continues(s, flag) == flag /\ ~s.in_rules

UserAgent(s, l) ==
    [s EXCEPT !.in_rules = FALSE,
              !.for_own = Continues(s, @) \/ l.agent = "own",
              !.for_star = Continues(s, @) \/ l.agent = "star",
              !.named = @ \/ l.agent = "own"]

(* An empty rule matches nothing; a longer one than MAX_PATTERN_CHARS, and the *)
(* rules beyond MAX_RULES, are dropped.                                        *)
Kept(s, l) ==
    /\ s.for_own \/ s.for_star
    /\ l.length # 0 /\ l.length <= MAX_PATTERN_CHARS /\ s.count < MAX_RULES

Rule(s, l) ==
    [s EXCEPT !.in_rules = TRUE,
              !.count = IF Kept(s, l) THEN @ + 1 ELSE @,
              !.own = IF Kept(s, l) /\ s.for_own THEN Append(@, l) ELSE @,
              !.star = IF Kept(s, l) /\ s.for_star THEN Append(@, l) ELSE @]

ReadLine(s, l) ==
    IF l.key = "user-agent" THEN UserAgent(s, l) ELSE IF IsRule(l) THEN Rule(s, l) ELSE s

ReadFile(file) == FoldLeft(ReadLine, Start, file)

RulesFor(file) ==
    LET end == ReadFile(file) IN IF end.named THEN end.own ELSE end.star

-----------------------------------------------------------------------------
(* can_fetch: the last of the longest matching rules, but Allow first. *)
Better(rule, best) ==
    rule.length > best.length \/ (rule.length = best.length /\ rule.key = "allow")

NoRule == RuleLine("allow", EmptyPattern, 0)

BestOf(best, rule, path) ==
    IF Matches(rule.pattern, path) /\ (best = NoRule \/ Better(rule, best)) THEN rule ELSE best

Best(rules, path) == FoldLeft(LAMBDA best, rule : BestOf(best, rule, path), NoRule, rules)

CanFetch(file, path) == path = RobotsPath \/ Best(RulesFor(file), path).key = "allow"

-----------------------------------------------------------------------------
(* RFC 9309: the group of a rule is named by the user-agent lines above it     *)
(* that are separated from it by no other group's rules.                       *)
Names(file, j, i) ==
    /\ j < i /\ file[j].key = "user-agent"
    /\ ~ \E k \in j .. i, m \in j .. i :
           k < m /\ IsRule(file[k]) /\ file[m].key = "user-agent"

RulesOf(file, agent) ==
    {i \in DOMAIN file : /\ IsRule(file[i]) /\ file[i].length \in 1 .. MAX_PATTERN_CHARS
                         /\ \E j \in DOMAIN file : Names(file, j, i) /\ file[j].agent = agent}

(* The limit on their number is shared by the crawler's groups and those of    *)
(* "*": it leaves the first MAX_RULES of both together.                        *)
Candidates(file) == RulesOf(file, "own") \cup RulesOf(file, "star")
WithinLimit(file) ==
    {i \in Candidates(file) : Cardinality(Candidates(file) \cap (1 .. i - 1)) < MAX_RULES}

Named(file) == \E j \in DOMAIN file : file[j].key = "user-agent" /\ file[j].agent = "own"

CanFetchByDefinition(file, path) ==
    LET rules == RulesOf(file, IF Named(file) THEN "own" ELSE "star") \cap WithinLimit(file)
        hits == {i \in rules : MatchesByDefinition(file[i].pattern, path)}
        longest == {i \in hits : \A j \in hits : file[j].length <= file[i].length}
    IN  path = RobotsPath \/ hits = {} \/ \E i \in longest : file[i].key = "allow"

-----------------------------------------------------------------------------
(* _Rule.matches: taking the first place where each part fits never misses a   *)
(* match and never invents one, for every pattern on this path.                *)
MatchesExactly(path) ==
    \A p \in Patterns : Matches(p, path) <=> MatchesByDefinition(p, path)

(* _rules_for, can_fetch: however groups follow each other, are split, merged  *)
(* or left empty, a path is allowed exactly when RFC 9309 allows it by the     *)
(* rules of the crawler's groups, or of "*" if no group names it, that are no  *)
(* longer than MAX_PATTERN_CHARS and among the first MAX_RULES; the length of  *)
(* a rule is that of its value as written.                                     *)
DecidesAsDefined(file) ==
    \A path \in Paths : CanFetch(file, path) = CanFetchByDefinition(file, path)
=============================================================================
