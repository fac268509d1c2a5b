------------------------------ MODULE MCPipeline ------------------------------
(* Two rules forms for one tag: any of a keyword, and all of two keywords in   *)
(* one language; a subscription that filters on the tag and one that does not. *)
EXTENDS Pipeline

CONSTANTS tag, any, both, s1, s2, en, fr

MCForms ==
  {[keywords |-> {any}, match |-> "any", language |-> AnyLanguage, tag |-> tag, is_active |-> TRUE],
   [keywords |-> {any, both}, match |-> "all", language |-> en, tag |-> tag, is_active |-> TRUE],
   [keywords |-> {any}, match |-> "any", language |-> AnyLanguage, tag |-> tag, is_active |-> FALSE]}
MCTexts == {[words |-> {any}, language |-> en]} \union [words : {{any, both}}, language : {en, fr}]
MCTagIds == [s \in {s1, s2} |-> IF s = s1 THEN {tag} ELSE {}]
=============================================================================
