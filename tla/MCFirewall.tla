----------------------------- MODULE MCFirewall -----------------------------
(* The firewall on two CPUs: two addresses that are each other's reverse, one entry. *)
EXTENDS Firewall, TLC

MCAddresses == {<<10, 1>>, <<1, 10>>}

Symmetry == Permutations(CPUs)
=============================================================================
