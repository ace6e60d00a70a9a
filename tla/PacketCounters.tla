--------------------------- MODULE PacketCounters ---------------------------
(***************************************************************************)
(* Series 08: packets counted by label in a per-CPU array, and read while  *)
(* they are counted.  count_packets adds with a plain load and store; what *)
(* makes that safe is that a CPU adds to its own cell and runs one program *)
(* at a time.  A reader's Lookup of a label copies the cells one by one.   *)
(*                                                                         *)
(* Series 01 counts and reads in the same way, under two labels: Firewall  *)
(* is built on this module.                                                *)
(***************************************************************************)
EXTENDS Integers, Sequences, FiniteSets

CONSTANTS
  CPUs,
  Labels,      \* the indices of metrics, in the order they are read; at least one
  MaxPackets   \* bound on the packets of a behaviour; not in the code

VARIABLES
  pc,        \* where each CPU is in the program; "idle" between packets
  label,     \* the index of its metric
  register,  \* what it loaded
  metrics,   \* the cells of the per-CPU array
  main,      \* the main goroutine
  line,      \* the label that is being read; 0 when no reading goes on
  unread,    \* the cells of it that are still to be copied
  sum,       \* what each cell has added to the sum of its label
  counted,   \* history: packets of each CPU with each label
  received,  \* history: all packets
  before     \* history: metrics when the reading began

program == <<pc, label, register>>
reading == <<line, unread, sum, before>>
vars == <<program, metrics, main, reading, counted, received>>

LabelSet == {Labels[i] : i \in 1..Len(Labels)}
Cells == [LabelSet -> [CPUs -> Nat]]
Zeros == [l \in LabelSet |-> [c \in CPUs |-> 0]]

TypeOK ==
  /\ pc \in [CPUs -> {"idle", "load", "store"}]
  /\ label \in [CPUs -> LabelSet]
  /\ register \in [CPUs -> Nat]
  /\ metrics \in Cells
  /\ main \in {"wait", "signalled", "detached", "closed", "exited"}
  /\ line \in 0..Len(Labels)
  /\ unread \in SUBSET CPUs
  /\ sum \in Cells
  /\ counted \in Cells
  /\ received \in Nat
  /\ before \in Cells

Init ==
  /\ pc = [c \in CPUs |-> "idle"]
  /\ label = [c \in CPUs |-> Labels[1]]
  /\ register = [c \in CPUs |-> 0]
  /\ metrics = Zeros
  /\ main = "wait"
  /\ line = 0
  /\ unread = {}
  /\ sum = Zeros
  /\ counted = Zeros
  /\ received = 0
  /\ before = Zeros

----------------------------------------------------------------------------
(* count_packets                                                           *)

Attached == main \in {"wait", "signalled"}

\* A packet that is counted under l; the others leave no trace.
Classify(c, l) ==
  /\ Attached
  /\ pc[c] = "idle"
  /\ received < MaxPackets
  /\ received' = received + 1
  /\ pc' = [pc EXCEPT ![c] = "load"]
  /\ label' = [label EXCEPT ![c] = l]
  /\ counted' = [counted EXCEPT ![l][c] = @ + 1]
  /\ UNCHANGED <<register, metrics, main, reading>>

\* Mutant: the cell of an array that all CPUs share.
CellShared(c) == CHOOSE d \in CPUs : TRUE

\* bpf_map_lookup_elem(&metrics, &idx): the cell of the CPU the program runs on.
Cell(c) == c

\* *v += 1
Load(c) ==
  /\ pc[c] = "load"
  /\ register' = [register EXCEPT ![c] = metrics[label[c]][Cell(c)]]
  /\ pc' = [pc EXCEPT ![c] = "store"]
  /\ UNCHANGED <<label, metrics, main, reading, counted, received>>

Store(c) ==
  /\ pc[c] = "store"
  /\ metrics' = [metrics EXCEPT ![label[c]][Cell(c)] = register[c] + 1]
  /\ pc' = [pc EXCEPT ![c] = "idle"]
  /\ register' = [register EXCEPT ![c] = 0]
  /\ label' = [label EXCEPT ![c] = Labels[1]]
  /\ UNCHANGED <<main, reading, counted, received>>

----------------------------------------------------------------------------
(* The loader: printAggregatedStats and printCoreBreakdown.  A reading     *)
(* changes nothing and has its own variables, so that one at a time is     *)
(* enough of those the ticker and the commands start.                      *)

StartReading ==
  /\ main # "exited"
  /\ line = 0
  /\ line' = 1
  /\ unread' = CPUs
  /\ before' = metrics
  /\ UNCHANGED <<program, metrics, main, sum, counted, received>>

Open == main \notin {"closed", "exited"}

\* m.Lookup(&key, &vals), and sum += v
ReadCell(c) ==
  /\ Open
  /\ line > 0
  /\ c \in unread
  /\ sum' = [sum EXCEPT ![Labels[line]][c] = @ + metrics[Labels[line]][c]]
  /\ unread' = unread \ {c}
  /\ UNCHANGED <<program, metrics, main, line, before, counted, received>>

NextLabel ==
  /\ main # "exited"
  /\ line \in 1..(Len(Labels) - 1)
  /\ unread = {}
  /\ line' = line + 1
  /\ unread' = CPUs
  /\ UNCHANGED <<program, metrics, main, sum, before, counted, received>>

\* Mutant: the sums are declared outside the loop.
Kept == sum

\* vals and sum are made anew for every label.
Renewed == Zeros

EndReading ==
  /\ line' = 0
  /\ unread' = {}
  /\ sum' = Renewed
  /\ before' = Zeros
  /\ UNCHANGED <<program, metrics, main, counted, received>>

Complete == line = Len(Labels) /\ unread = {}

PrintLine ==
  /\ main # "exited"
  /\ Complete
  /\ EndReading

\* The map is closed: no Lookup succeeds any more.  (printCoreBreakdown, which
\* ignores the error and prints zeros, is not followed further either.)
LookupFails ==
  /\ main = "closed"
  /\ line > 0
  /\ unread # {}
  /\ EndReading

\* "exit" or a signal; then the deferred l.Close and coll.Close, and the process ends.
Signal ==
  /\ main = "wait"
  /\ main' = "signalled"
  /\ UNCHANGED <<program, metrics, reading, counted, received>>

Detach ==
  /\ main = "signalled"
  /\ main' = "detached"
  /\ UNCHANGED <<program, metrics, reading, counted, received>>

Close ==
  /\ main = "detached"
  /\ main' = "closed"
  /\ UNCHANGED <<program, metrics, reading, counted, received>>

Exit ==
  /\ main = "closed"
  /\ main' = "exited"
  /\ UNCHANGED <<program, metrics, reading, counted, received>>

----------------------------------------------------------------------------

Reading ==
  \/ StartReading \/ NextLabel \/ PrintLine \/ LookupFails
  \/ \E c \in CPUs : ReadCell(c)

Main == Signal \/ Detach \/ Close \/ Exit

Next ==
  \/ Reading \/ Main
  \/ \E c \in CPUs : Load(c) \/ Store(c) \/ \E l \in LabelSet : Classify(c, l)

Spec == Init /\ [][Next]_vars

----------------------------------------------------------------------------
(* Properties.                                                             *)

InFlight(l, c) == IF pc[c] # "idle" /\ label[c] = l THEN 1 ELSE 0

\* "No lock or atomic instruction needed" (main.bpf.c:30): every CPU's cell has all
\* of that CPU's packets but the one it is at, and no other's.
NoneLost ==
  \A l \in LabelSet, c \in CPUs : metrics[l][c] + InFlight(l, c) = counted[l][c]

\* The numbers of a line are of different moments (main.go:104-116): each is one
\* that its cell had between the call and the print.
LineExplained ==
  Complete => \A l \in LabelSet, c \in CPUs :
                before[l][c] <= sum[l][c] /\ sum[l][c] <= metrics[l][c]

=============================================================================
