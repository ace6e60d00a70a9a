----------------------------- MODULE MCTcEgress -----------------------------
(* Three starts of series 11's loader and an attachment of series 10. *)
EXTENDS TcEgress, TLC

Symmetry == Permutations(Loaders)
=============================================================================
