----------------------------- MODULE MCCoordinator -----------------------------
(* TLC instances of Coordinator. *)
EXTENDS Coordinator, TLC

CONSTANTS a1, a2

Symmetry == Permutations(Actions)
==============================================================================
