------------------------------- MODULE MCRobots -------------------------------
(* Two workers and the cache of a host, and every robots.txt of up to MaxLines *)
(* lines over three rules: "ab", "a*" written as "%61*" and so longer, and one *)
(* that is longer than MAX_PATTERN_CHARS.                                      *)
EXTENDS RobotsPolicy

CONSTANTS w1, w2, a, b

MCSymmetry == Permutations(Workers)

MCRuleTexts == {[pattern |-> [parts |-> << <<a, b>> >>, anchored |-> FALSE], length |-> 2],
                [pattern |-> [parts |-> << <<a>>, << >> >>, anchored |-> FALSE], length |-> 4],
                [pattern |-> [parts |-> << <<b>> >>, anchored |-> FALSE], length |-> 5]}
MCRobotsPath == <<b, b>>
=============================================================================
