---------------------------- MODULE MCObjectStore ----------------------------
(***************************************************************************)
(* ObjectStore on small instances.                                         *)
(***************************************************************************)
EXTENDS ObjectStore, TLC

Symmetry == Permutations(Objects) \cup Permutations(Tokens)
=============================================================================
