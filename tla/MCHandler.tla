------------------------------ MODULE MCHandler ------------------------------
(* Instances of Handler for TLC. *)
EXTENDS Handler, TLC

Symmetry == Permutations(Conns) \cup Permutations(Ids) \cup Permutations(Nodes)
=============================================================================
