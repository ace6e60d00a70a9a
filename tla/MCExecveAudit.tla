---------------------------- MODULE MCExecveAudit ----------------------------
(* The execve auditor on two CPUs, with two user IDs and a filter of two entries. *)
EXTENDS ExecveAudit, TLC

Symmetry == Permutations(CPUs) \cup Permutations(Uids)
=============================================================================
