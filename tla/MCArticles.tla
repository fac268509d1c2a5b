----------------------------- MODULE MCArticles -----------------------------
(* Module Articles for TLC. *)
EXTENDS Articles, TLC

\* Everything but the empty guid is interchangeable.
KeySymmetry ==
  Permutations(Tasks) \union Permutations(Ids) \union Permutations(Guids) \union Permutations(Hashes)
=============================================================================
