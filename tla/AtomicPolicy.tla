---------------------------- MODULE AtomicPolicy ----------------------------
(***************************************************************************)
(* What series 09 promises of a map-in-map swap: packets are decided one   *)
(* at a time against the policy in force, and a swap replaces the whole    *)
(* policy at once.  No packet sees part of a policy or a mixture of two,   *)
(* and none that arrives after a swap is decided by the policy before it.  *)
(***************************************************************************)
CONSTANTS
  CPUs,
  Addresses,
  Policies,  \* the policies that can be installed: sets of blocked addresses
  NULL

VARIABLES
  policy,    \* the blocked addresses; {} until a policy is installed
  packet,    \* the source of the packet each CPU is handling, or NULL
  decision   \* its fate, NULL while it is undecided

vars == <<policy, packet, decision>>

Init ==
  /\ policy = {}
  /\ packet = [c \in CPUs |-> NULL]
  /\ decision = [c \in CPUs |-> NULL]

Arrive(c, a) ==
  /\ packet[c] = NULL
  /\ packet' = [packet EXCEPT ![c] = a]
  /\ UNCHANGED <<policy, decision>>

Decide(c) ==
  /\ packet[c] # NULL
  /\ decision[c] = NULL
  /\ decision' = [decision EXCEPT ![c] = IF packet[c] \in policy THEN "drop" ELSE "pass"]
  /\ UNCHANGED <<policy, packet>>

Deliver(c) ==
  /\ decision[c] # NULL
  /\ packet' = [packet EXCEPT ![c] = NULL]
  /\ decision' = [decision EXCEPT ![c] = NULL]
  /\ UNCHANGED policy

Install ==
  /\ policy' \in Policies
  /\ UNCHANGED <<packet, decision>>

Next ==
  \/ Install
  \/ \E c \in CPUs : Decide(c) \/ Deliver(c) \/ \E a \in Addresses : Arrive(c, a)

Spec == Init /\ [][Next]_vars

=============================================================================
