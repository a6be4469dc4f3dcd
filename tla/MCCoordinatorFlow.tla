-------------------------- MODULE MCCoordinatorFlow --------------------------
(* A small instance of CoordinatorFlow for TLC. *)
EXTENDS CoordinatorFlow, TLC

ChildSymmetry == Permutations(Children)
=============================================================================
