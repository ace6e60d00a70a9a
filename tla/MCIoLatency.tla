---------------------------- MODULE MCIoLatency ----------------------------
(* The I/O latency histogram on two CPUs. *)
EXTENDS IoLatency, TLC

Symmetry == Permutations(CPUs) \cup Permutations(Requests)
=============================================================================
