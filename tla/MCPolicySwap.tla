---------------------------- MODULE MCPolicySwap ----------------------------
(* The map-in-map swap on two CPUs. *)
EXTENDS PolicySwap, TLC

\* The two addresses of the policies, and one address that
\* reads differently backwards.
MCAddresses == {<<8, 8, 8, 8>>, <<1, 1, 1, 1>>, <<9, 1, 1, 8>>}

Symmetry == Permutations(CPUs) \cup Permutations(Tables)
=============================================================================
