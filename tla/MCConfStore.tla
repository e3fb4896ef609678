----------------------------- MODULE MCConfStore -----------------------------
(***************************************************************************)
(* ConfStore for TLC.  Clients are alike, so they may be permuted.         *)
(***************************************************************************)
EXTENDS ConfStore, TLC

Symmetry == Permutations(Clients)

=============================================================================
