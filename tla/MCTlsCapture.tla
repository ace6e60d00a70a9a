---------------------------- MODULE MCTlsCapture ----------------------------
(* Three writes of up to three bytes on two CPUs; the buffer holds two bytes. *)
EXTENDS TlsCapture, TLC

Symmetry == Permutations(CPUs) \cup Permutations(Writes)
=============================================================================
