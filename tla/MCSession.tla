----------------------------- MODULE MCSession -----------------------------
(* An instance of Session for TLC: nothing tells the processes of a host, the *)
(* calls or the contents apart.                                               *)
EXTENDS Session, TLC

Symmetry == Permutations(Nodes) \cup Permutations(Calls) \cup Permutations(Contents)
=============================================================================
