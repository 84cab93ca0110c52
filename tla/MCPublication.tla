---------------------------- MODULE MCPublication ----------------------------
(***************************************************************************)
(* Publication of two candidates over four business states: two with the   *)
(* same content, one with another, one that fails the preflight.           *)
(***************************************************************************)
EXTENDS Publication, TLC

MCStates == {"s1", "s2", "s3", "s4"}
MCContent ==
    [s \in MCStates |-> CASE s \in {"s1", "s2"} -> "a" [] s = "s3" -> "b" [] OTHER -> None]

\* For the liveness run: any two states differ in content.
MCTwoStates == {"s1", "s3"}
MCTwoContents == [s \in MCTwoStates |-> s]

Symmetry == Permutations(Candidates) \cup Permutations(Workers)
=============================================================================
