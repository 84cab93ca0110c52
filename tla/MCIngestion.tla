----------------------------- MODULE MCIngestion -----------------------------
(***************************************************************************)
(* Ingestion on small instances.                                           *)
(***************************************************************************)
EXTENDS Ingestion, TLC

Symmetry == Permutations(Documents) \cup Permutations(Versions) \cup Permutations(Workers)
=============================================================================
