----------------------------- MODULE ProbeCPUs -----------------------------
(***************************************************************************)
(* What the lessons on kprobes and uprobes (03, 04) have in common: their  *)
(* programs run on the CPUs of one machine.                                *)
(***************************************************************************)
EXTENDS FiniteSets

CONSTANTS
  CPUs,
  NULL  \* no request, no write, no value

ASSUME CPUsAssumption == IsFiniteSet(CPUs) /\ NULL \notin CPUs
=============================================================================
