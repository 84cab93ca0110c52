-------------------------- MODULE MCRenderGeneration --------------------------
(***************************************************************************)
(* A rolling upgrade from generation 1 to generation 2 of a version that   *)
(* either of them, or none, has rendered.                                  *)
(***************************************************************************)
EXTENDS RenderGeneration, TLC

CONSTANTS old, new
MCWorkers == {old, new}
MCGenOf == [w \in MCWorkers |-> IF w = old THEN 1 ELSE 2]
MCConfig == [g \in 0..2 |-> g]
=============================================================================
