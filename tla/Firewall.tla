------------------------------ MODULE Firewall ------------------------------
(***************************************************************************)
(* Series 01: the XDP firewall.  xdp_firewall looks a packet's source up   *)
(* in blocklist and counts it under the verdict, on every CPU at once; the *)
(* commands block and unblock write blocklist meanwhile, and a goroutine   *)
(* prints the counters.  Counting and printing are those of PacketCounters.*)
(***************************************************************************)
EXTENDS Integers, Sequences, FiniteSets, SequencesExt

CONSTANTS
  CPUs,
  Addresses,   \* IPv4 addresses, as their bytes in network order
  MaxEntries,  \* max_entries of blocklist (10240 in the source)
  MaxPackets,  \* bound on the packets; not in the code
  MaxCommands  \* bound on the commands; not in the code

Labels == <<"PASS", "DROP">>

ASSUME CPUsAssumption == IsFiniteSet(CPUs)
ASSUME AddressAssumption ==
  IsFiniteSet(Addresses) /\ Addresses \subseteq Seq(Nat) \ {<<>>}
ASSUME BoundAssumption == {MaxEntries, MaxPackets, MaxCommands} \subseteq Nat

VARIABLES
  pc, label, register, metrics, main, line, unread, sum, counted, received, before,
  src_ip,    \* each CPU's packet
  blocklist,
  cmd,       \* the command goroutine: what it is about to print, or "ended"
  told,      \* history: what was last printed of each address
  against,   \* history: packets that were treated otherwise since
  commands   \* history: how many there were

P == INSTANCE PacketCounters

packets == <<pc, label, register, metrics, main, line, unread, sum, counted, received, before>>
shell == <<blocklist, cmd, told, against, commands>>
vars == <<packets, src_ip, shell>>

Prompt == [op |-> "none"]
Messages == [op : {"blocked", "unblocked", "failed"}, ip : Addresses]

TypeOK ==
  /\ P!TypeOK
  /\ src_ip \in [CPUs -> Addresses \cup {<<>>}]
  /\ blocklist \in SUBSET Addresses
  /\ Cardinality(blocklist) <= MaxEntries
  /\ cmd \in Messages \cup {Prompt, [op |-> "ended"]}
  /\ told \in [Addresses -> {"blocked", "unblocked", "nothing"}]
  /\ against \in [Addresses -> Nat]
  /\ commands \in Nat

Init ==
  /\ P!Init
  /\ src_ip = [c \in CPUs |-> <<>>]
  /\ blocklist = {}
  /\ cmd = Prompt
  /\ told = [a \in Addresses |-> "unblocked"]
  /\ against = [a \in Addresses |-> 0]
  /\ commands = 0

----------------------------------------------------------------------------
(* xdp_firewall                                                            *)

\* bpf_map_lookup_elem(&blocklist, &src_ip); the value is always 1.
Receive(c, a) ==
  /\ P!Classify(c, IF a \in blocklist THEN "DROP" ELSE "PASS")
  /\ src_ip' = [src_ip EXCEPT ![c] = a]
  /\ UNCHANGED shell

Load(c) == P!Load(c) /\ UNCHANGED <<src_ip, shell>>

\* What is contrary to what was printed of an address.
Contrary(a, verdict) ==
  \/ told[a] = "blocked" /\ verdict = "PASS"
  \/ told[a] = "unblocked" /\ verdict = "DROP"

\* The counter is stored, and the verdict returned.
Return(c) ==
  LET a == src_ip[c] IN
  /\ P!Store(c)
  /\ against' = IF Contrary(a, label[c]) THEN [against EXCEPT ![a] = @ + 1] ELSE against
  /\ src_ip' = [src_ip EXCEPT ![c] = <<>>]
  /\ UNCHANGED <<blocklist, cmd, told, commands>>

----------------------------------------------------------------------------
(* The command goroutine.  list prints and changes nothing.                *)

\* Mutant: the address as a little-endian number.
parseReversed(ip) == Reverse(ip)

\* An array keeps the address's bytes in network order.
parseIPToBytes(ip) == ip

Command(ip, op, failed) ==
  /\ main # "exited"
  /\ cmd = Prompt
  /\ commands < MaxCommands
  /\ commands' = commands + 1
  /\ cmd' = [op |-> IF failed THEN "failed" ELSE op, ip |-> ip]
  /\ told' = [told EXCEPT ![ip] = "nothing"]
  /\ against' = [against EXCEPT ![ip] = 0]
  /\ UNCHANGED <<packets, src_ip>>

\* blocklistMap.Put
Block(ip) ==
  LET key == parseIPToBytes(ip)
      fails == ~P!Open \/ (key \notin blocklist /\ Cardinality(blocklist) = MaxEntries)
  IN
  /\ Command(ip, "blocked", fails)
  /\ blocklist' = IF fails THEN blocklist ELSE blocklist \cup {key}

\* blocklistMap.Delete
Unblock(ip) ==
  LET key == parseIPToBytes(ip)
      fails == ~P!Open \/ key \notin blocklist
  IN
  /\ Command(ip, "unblocked", fails)
  /\ blocklist' = IF fails THEN blocklist ELSE blocklist \ {key}

\* "Successfully blocked", "Successfully unblocked" or "Failed to".
Reply ==
  /\ main # "exited"
  /\ cmd \in Messages
  /\ cmd' = Prompt
  /\ told' = [told EXCEPT ![cmd.ip] = IF cmd.op = "failed" THEN "nothing" ELSE cmd.op]
  /\ against' = [against EXCEPT ![cmd.ip] = 0]
  /\ UNCHANGED <<packets, src_ip, blocklist, commands>>

\* "exit": the goroutine ends; main gets SIGTERM from it.
ExitCommand ==
  /\ cmd = Prompt
  /\ P!Signal
  /\ cmd' = [op |-> "ended"]
  /\ UNCHANGED <<src_ip, blocklist, told, against, commands>>

----------------------------------------------------------------------------
(* The metrics goroutine and main, whose sleep before the deferred calls   *)
(* gives the other goroutines time but waits for none of them.             *)

Metrics == P!Reading /\ UNCHANGED <<src_ip, shell>>
Main == P!Main /\ UNCHANGED <<src_ip, shell>>

Program(c) == Load(c) \/ Return(c) \/ \E a \in Addresses : Receive(c, a)

Commands == Reply \/ ExitCommand \/ \E ip \in Addresses : Block(ip) \/ Unblock(ip)

Next == Metrics \/ Main \/ Commands \/ \E c \in CPUs : Program(c)

Spec == Init /\ [][Next]_vars

----------------------------------------------------------------------------
(* Properties.                                                             *)

\* The activations whose verdict is contrary to what was printed of a.
Outdated(a) == {c \in CPUs : src_ip[c] = a /\ Contrary(a, label[c])}

\* A packet is looked up before it is judged (main.bpf.c:55-76): after "Successfully
\* blocked IP" (main.go:179) the packets that were already looked up, one on each CPU,
\* still pass and no other does; after "Successfully unblocked IP" as many are dropped.
BlockTakesEffect ==
  \A a \in Addresses : against[a] + Cardinality(Outdated(a)) <= Cardinality(CPUs)

\* What a line shows as accepted and as dropped (main.go:111-130): every CPU's number
\* is one that it had between the tick and the print.
LineExplained == P!LineExplained

\* Plain adds (main.bpf.c:62, 73): no packet is missing from its CPU's counters.
NoneLost == P!NoneLost

=============================================================================
