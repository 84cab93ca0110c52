------------------------------ MODULE MCCommands ------------------------------
(***************************************************************************)
(* Commands on small instances.                                            *)
(***************************************************************************)
EXTENDS Commands, TLC

CONSTANTS Keys

\* Every route to every target, under every key.
Of(routes, targets) == [route : routes, target : targets, key : Keys]
AllSlots ==
    Of({"first"}, {None})
        \cup Of({"upload", "delete", "restore"}, Documents)
        \cup Of({"retry", "rollback", "void"}, Versions)

Symmetry == Permutations(Documents) \cup Permutations(Versions) \cup Permutations(Bodies) \cup Permutations(Keys)
===============================================================================
