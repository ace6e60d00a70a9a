--------------------------- MODULE MCFlowTracker ---------------------------
(* The LRU connection tracker on two CPUs: two of three flows share a bucket. *)
EXTENDS FlowTracker, TLC

CONSTANTS f1, f2, f3

MCHash == f1 :> 1 @@ f2 :> 1 @@ f3 :> 2

Symmetry == Permutations(CPUs) \cup Permutations(Elements) \cup Permutations({f1, f2})
=============================================================================
