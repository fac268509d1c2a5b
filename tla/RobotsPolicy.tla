------------------------------ MODULE RobotsPolicy -----------------------------
(* The policy cache of a host, and, in behaviours of their own, the files that *)
(* a site may serve: the cache knows only what kind of answer a file is, so    *)
(* the two are explored one after the other and not in combination.            *)
EXTENDS Robots, RobotsRules

VARIABLE file   \* the lines of a robots.txt

PolicyInit == Init /\ file = << >>

(* The site writes its file while nobody looks.                                *)
WriteLine ==
    /\ Init /\ site = "rules"
    /\ IF Len(file) < MaxLines THEN \E l \in Lines : file' = Append(file, l)
                               ELSE file' = << >>
    /\ UNCHANGED vars

PolicyNext == WriteLine \/ (Next /\ file = << >> /\ UNCHANGED file)

PolicySpec == PolicyInit /\ [][PolicyNext]_<<vars, file>>

(* _Rule.matches: taking the first place where each part of a pattern fits     *)
(* never misses a match and never invents one.                                 *)
GreedyIsExact == (Init /\ file = << >>) => \A path \in Paths : MatchesExactly(path)

(* _rules_for, can_fetch: whatever groups the file consists of, and whatever   *)
(* rules are too long or too many, a path is allowed exactly when RFC 9309     *)
(* allows it by the rules that are left.                                       *)
DecidesAsRFC9309 == DecidesAsDefined(file)
=============================================================================
