----------------------------- MODULE MCRouting ------------------------------
(***************************************************************************)
(* Routing for TLC: the nodes are interchangeable.                         *)
(***************************************************************************)
EXTENDS Routing

Symmetry == Permutations(Node)
=============================================================================
