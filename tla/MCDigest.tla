------------------------------ MODULE MCDigest ------------------------------
(* Module Digest for TLC. *)
EXTENDS Digest, TLC

RowSymmetry == Permutations(Arts) \union Permutations(Runs)
=============================================================================
