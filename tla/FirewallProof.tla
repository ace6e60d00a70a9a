--------------------------- MODULE FirewallProof ---------------------------
(***************************************************************************)
(* For any number of CPUs and addresses: the firewall counts and reads as  *)
(* PacketCounters does, where no packet is lost from a counter and every   *)
(* number of a line is one the counter had; and a block or unblock that    *)
(* was reported is missed by at most one packet per CPU.                   *)
(***************************************************************************)
EXTENDS Firewall, FiniteSetTheorems, TLAPS

LEMMA LabelFacts ==
  /\ Len(Labels) = 2 /\ Labels[1] = "PASS" /\ Labels[2] = "DROP"
  /\ P!LabelSet = {"PASS", "DROP"}
<1>1. Len(Labels) = 2 /\ Labels[1] = "PASS" /\ Labels[2] = "DROP"
  BY DEF Labels
<1>2. QED
  BY <1>1 DEF P!LabelSet

----------------------------------------------------------------------------
(* The firewall's steps are steps of the counters.                         *)

LEMMA CountersStep == [Next]_vars => [P!Next]_(P!vars)
<1> SUFFICES ASSUME [Next]_vars
             PROVE  P!Next \/ UNCHANGED P!vars
  OBVIOUS
<1>1. ASSUME UNCHANGED packets
      PROVE  UNCHANGED P!vars
  BY <1>1 DEF packets, P!vars, P!program, P!reading
<1>2. ASSUME NEW c \in CPUs, Program(c)
      PROVE  P!Next
  <2>1. \A a : (IF a \in blocklist THEN "DROP" ELSE "PASS") \in P!LabelSet
    BY LabelFacts
  <2>2. ASSUME NEW a \in Addresses, Receive(c, a)
        PROVE  P!Next
    BY <2>1, <2>2 DEF Receive, P!Next
  <2>3. QED
    BY <1>2, <2>2 DEF Program, Load, Return, P!Next
<1>3. CASE Metrics \/ Main
  BY <1>3 DEF Metrics, Main, P!Next
<1>4. CASE Commands
  <2>1. Reply => UNCHANGED packets
    BY DEF Reply
  <2>2. \A ip \in Addresses : Block(ip) \/ Unblock(ip) => UNCHANGED packets
    BY DEF Block, Unblock, Command
  <2>3. ExitCommand => P!Next
    BY DEF ExitCommand, P!Next, P!Main
  <2>4. QED
    BY <1>1, <1>4, <2>1, <2>2, <2>3 DEF Commands
<1>5. CASE UNCHANGED vars
  BY <1>1, <1>5 DEF vars
<1>6. QED
  BY <1>2, <1>3, <1>4, <1>5 DEF Next

\* The firewall counts and prints as PacketCounters does (main.bpf.c:60-74,
\* main.go:104-130), whatever its commands do meanwhile.
THEOREM CountsAsSeries08 == Spec => P!Spec
<1>1. Init => P!Init
  BY DEF Init
<1>2. QED
  BY <1>1, CountersStep, PTL DEF Spec, P!Spec

----------------------------------------------------------------------------
(* The counters.                                                           *)

LEMMA CountersTyped == Spec => []P!TypeOK
<1> USE LabelFacts
<1>1. Init => P!TypeOK
  <2>1. P!Zeros \in P!Cells
    BY DEF P!Zeros, P!Cells
  <2>2. QED
    BY <2>1 DEF Init, P!Init, P!TypeOK
<1>2. P!TypeOK /\ [P!Next]_(P!vars) => P!TypeOK'
  <2> SUFFICES ASSUME P!TypeOK, [P!Next]_(P!vars)
               PROVE  P!TypeOK'
    OBVIOUS
  <2> USE DEF P!TypeOK
  <2>0. P!Zeros \in P!Cells
    BY DEF P!Zeros, P!Cells
  <2>1. ASSUME NEW c \in CPUs, NEW l \in P!LabelSet, P!Classify(c, l)
        PROVE  P!TypeOK'
    <3>1. counted' \in P!Cells
      BY <2>1 DEF P!Classify, P!Cells
    <3>2. QED
      BY <2>1, <3>1 DEF P!Classify, P!reading
  <2>2. ASSUME NEW c \in CPUs, P!Load(c)
        PROVE  P!TypeOK'
    BY <2>2 DEF P!Load, P!Cell, P!Cells, P!reading
  <2>3. ASSUME NEW c \in CPUs, P!Store(c)
        PROVE  P!TypeOK'
    <3>1. metrics' \in P!Cells
      BY <2>3 DEF P!Store, P!Cell, P!Cells
    <3>2. QED
      BY <2>3, <3>1 DEF P!Store, P!reading
  <2>4. ASSUME NEW c \in CPUs, P!ReadCell(c)
        PROVE  P!TypeOK'
    <3>1. sum' \in P!Cells
      BY <2>4 DEF P!ReadCell, P!Cells
    <3>2. QED
      BY <2>4, <3>1 DEF P!ReadCell, P!program
  <2>5. CASE P!StartReading
    BY <2>5 DEF P!StartReading, P!program
  <2>6. CASE P!NextLabel
    BY <2>6 DEF P!NextLabel, P!program
  <2>7. CASE P!PrintLine \/ P!LookupFails
    BY <2>0, <2>7 DEF P!PrintLine, P!LookupFails, P!EndReading, P!Renewed, P!program
  <2>8. CASE P!Main
    BY <2>8 DEF P!Main, P!Signal, P!Detach, P!Close, P!Exit, P!program, P!reading
  <2>9. CASE UNCHANGED P!vars
    BY <2>9 DEF P!vars, P!program, P!reading
  <2>10. QED
    BY <2>1, <2>2, <2>3, <2>4, <2>5, <2>6, <2>7, <2>8, <2>9 DEF P!Next, P!Reading
<1>3. QED
  BY <1>1, <1>2, CountersStep, PTL DEF Spec

\* A CPU that is about to store has loaded what its cell still holds.
Cells ==
  /\ P!NoneLost
  /\ \A c \in CPUs : pc[c] = "store" => register[c] = metrics[label[c]][c]

\* A cell changes only when its CPU stores, and then by one.
LEMMA CellsGrow ==
  ASSUME P!TypeOK, Cells, [P!Next]_(P!vars)
  PROVE  /\ Cells'
         /\ \A l \in P!LabelSet, c \in CPUs : metrics'[l][c] \in {metrics[l][c], metrics[l][c] + 1}
<1> USE DEF P!TypeOK, P!Cells
<1>1. ASSUME UNCHANGED <<pc, label, register, metrics, counted>>
      PROVE  Cells' /\ metrics' = metrics
  BY <1>1 DEF Cells, P!NoneLost, P!InFlight
<1>2. ASSUME NEW c \in CPUs, NEW l \in P!LabelSet, P!Classify(c, l)
      PROVE  Cells' /\ metrics' = metrics
  <2>1. metrics' = metrics
    BY <1>2 DEF P!Classify
  <2>2. ASSUME NEW k \in P!LabelSet, NEW d \in CPUs
        PROVE  metrics'[k][d] + (IF pc'[d] # "idle" /\ label'[d] = k THEN 1 ELSE 0)
                 = counted'[k][d]
    <3>1. /\ counted[k][d] \in Nat /\ metrics[k][d] \in Nat
          /\ metrics[k][d] + (IF pc[d] # "idle" /\ label[d] = k THEN 1 ELSE 0) = counted[k][d]
      BY DEF Cells, P!NoneLost, P!InFlight
    <3>2. CASE d = c /\ k = l
      BY <1>2, <2>1, <3>1, <3>2 DEF P!Classify
    <3>3. CASE ~(d = c /\ k = l)
      BY <1>2, <2>1, <3>1, <3>3 DEF P!Classify
    <3>4. QED
      BY <3>2, <3>3
  <2>3. P!NoneLost'
    BY <2>2 DEF P!NoneLost, P!InFlight
  <2>4. QED
    BY <1>2, <2>3 DEF P!Classify, Cells
<1>3. ASSUME NEW c \in CPUs, P!Load(c)
      PROVE  Cells' /\ metrics' = metrics
  <2>1. \A k \in P!LabelSet, d \in CPUs : P!InFlight(k, d)' = P!InFlight(k, d)
    BY <1>3 DEF P!Load, P!InFlight
  <2>2. QED
    BY <1>3, <2>1 DEF P!Load, P!Cell, Cells, P!NoneLost
<1>4. ASSUME NEW c \in CPUs, P!Store(c)
      PROVE  /\ Cells'
             /\ \A k \in P!LabelSet, d \in CPUs :
                  metrics'[k][d] \in {metrics[k][d], metrics[k][d] + 1}
  <2>1. counted' = counted /\ label[c] \in P!LabelSet /\ pc[c] = "store"
    BY <1>4 DEF P!Store
  <2>2. register[c] = metrics[label[c]][c]
    BY <1>4 DEF P!Store, Cells
  <2>3. \A k \in P!LabelSet, d \in CPUs :
          metrics'[k][d] = IF k = label[c] /\ d = c THEN metrics[k][d] + 1 ELSE metrics[k][d]
    BY <1>4, <2>2 DEF P!Store, P!Cell
  <2>4. ASSUME NEW k \in P!LabelSet, NEW d \in CPUs
        PROVE  metrics'[k][d] + (IF pc'[d] # "idle" /\ label'[d] = k THEN 1 ELSE 0)
                 = counted'[k][d]
    <3>1. /\ counted[k][d] \in Nat /\ metrics[k][d] \in Nat
          /\ metrics[k][d] + (IF pc[d] # "idle" /\ label[d] = k THEN 1 ELSE 0) = counted[k][d]
      BY DEF Cells, P!NoneLost, P!InFlight
    <3>2. CASE d = c
      <4>1. pc'[d] = "idle"
        BY <1>4, <3>2 DEF P!Store
      <4>2. QED
        BY <2>1, <2>3, <3>1, <3>2, <4>1
    <3>3. CASE d # c
      <4>1. pc'[d] = pc[d] /\ label'[d] = label[d]
        BY <1>4, <3>3 DEF P!Store
      <4>2. QED
        BY <2>1, <2>3, <3>1, <3>3, <4>1
    <3>4. QED
      BY <3>2, <3>3
  <2>5. P!NoneLost'
    BY <2>4 DEF P!NoneLost, P!InFlight
  <2>6. \A d \in CPUs : pc'[d] = "store" =>
          d # c /\ pc[d] = "store" /\ label'[d] = label[d] /\ register'[d] = register[d]
    BY <1>4 DEF P!Store
  <2>7. ASSUME NEW d \in CPUs, pc'[d] = "store"
        PROVE  register'[d] = metrics'[label'[d]][d]
    <3>1. register[d] = metrics[label[d]][d] /\ label[d] \in P!LabelSet
      BY <2>6, <2>7 DEF Cells
    <3>2. QED
      BY <2>3, <2>6, <2>7, <3>1
  <2>8. QED
    BY <2>3, <2>5, <2>7 DEF Cells
<1>5. CASE P!Reading \/ P!Main
  BY <1>1, <1>5 DEF P!Reading, P!StartReading, P!NextLabel, P!PrintLine, P!LookupFails,
                    P!EndReading, P!ReadCell, P!Main, P!Signal, P!Detach, P!Close, P!Exit,
                    P!program
<1>6. CASE UNCHANGED P!vars
  BY <1>1, <1>6 DEF P!vars, P!program
<1>7. QED
  BY <1>2, <1>3, <1>4, <1>5, <1>6 DEF P!Next

LEMMA CellsAlways == Spec => []Cells
<1>1. Init => Cells
  BY DEF Init, P!Init, Cells, P!NoneLost, P!InFlight, P!Zeros
<1>2. P!TypeOK /\ Cells /\ [P!Next]_(P!vars) => Cells'
  BY CellsGrow
<1>3. QED
  BY <1>1, <1>2, CountersStep, CountersTyped, PTL DEF Spec

\* Plain adds lose no packet (main.bpf.c:62, 73), because a CPU adds to its own cell and
\* runs one program at a time.
THEOREM NoPacketLost == Spec => []NoneLost
<1>1. Cells => NoneLost
  BY DEF Cells, NoneLost
<1>2. QED
  BY <1>1, CellsAlways, PTL

----------------------------------------------------------------------------
(* The printed line.                                                       *)

\* Whether the cell of CPU c is among those of label i that were copied.
Copied(i, c) == i < line \/ (i = line /\ c \notin unread)

\* A copied number lies between what its cell had at first and what it has now; the
\* others are still 0.
Copying ==
  /\ line > 0 => \A l \in P!LabelSet, c \in CPUs : before[l][c] <= metrics[l][c]
  /\ \A i \in 1..2, c \in CPUs :
       IF Copied(i, c)
         THEN before[Labels[i]][c] <= sum[Labels[i]][c]
              /\ sum[Labels[i]][c] <= metrics[Labels[i]][c]
         ELSE sum[Labels[i]][c] = 0

LEMMA CopyingStep ==
  ASSUME P!TypeOK, P!TypeOK', Copying, [P!Next]_(P!vars),
         \A l \in P!LabelSet, c \in CPUs : metrics'[l][c] \in {metrics[l][c], metrics[l][c] + 1}
  PROVE  Copying'
<1> USE LabelFacts DEF P!TypeOK, P!Cells
<1>1. /\ \A i \in 1..2 : Labels[i] \in P!LabelSet
      /\ \A i, j \in 1..2 : Labels[i] = Labels[j] => i = j
  OBVIOUS
<1>2. \A l \in P!LabelSet, c \in CPUs :
        /\ before[l][c] \in Nat /\ sum[l][c] \in Nat
        /\ metrics[l][c] \in Nat /\ metrics'[l][c] \in Nat /\ metrics[l][c] <= metrics'[l][c]
  OBVIOUS
<1>3. ASSUME UNCHANGED P!reading
      PROVE  Copying'
  <2>1. line' = line /\ unread' = unread /\ sum' = sum /\ before' = before
    BY <1>3 DEF P!reading
  <2>2. line > 0 => \A l \in P!LabelSet, c \in CPUs : before[l][c] <= metrics'[l][c]
    BY <1>2 DEF Copying
  <2>3. ASSUME NEW i \in 1..2, NEW c \in CPUs
        PROVE  IF Copied(i, c)
                 THEN before[Labels[i]][c] <= sum[Labels[i]][c]
                      /\ sum[Labels[i]][c] <= metrics'[Labels[i]][c]
                 ELSE sum[Labels[i]][c] = 0
    BY <1>1, <1>2 DEF Copying
  <2>4. QED
    BY <2>1, <2>2, <2>3 DEF Copying, Copied
<1>4. ASSUME P!StartReading
      PROVE  Copying'
  <2>1. /\ line = 0 /\ line' = 1 /\ unread' = CPUs /\ before' = metrics
        /\ metrics' = metrics /\ sum' = sum
    BY <1>4 DEF P!StartReading
  <2>2. \A i \in 1..2, c \in CPUs : sum[Labels[i]][c] = 0
    BY <2>1 DEF Copying, Copied
  <2>3. \A l \in P!LabelSet, c \in CPUs : before'[l][c] <= metrics'[l][c]
    BY <1>2, <2>1
  <2>4. QED
    BY <2>1, <2>2, <2>3 DEF Copying, Copied
<1>5. ASSUME NEW d \in CPUs, P!ReadCell(d)
      PROVE  Copying'
  <2>1. /\ line \in 1..2 /\ d \in unread /\ unread' = unread \ {d}
        /\ line' = line /\ before' = before /\ metrics' = metrics
        /\ sum' = [sum EXCEPT ![Labels[line]][d] = @ + metrics[Labels[line]][d]]
    BY <1>5 DEF P!ReadCell
  <2>2. sum[Labels[line]][d] = 0
    BY <2>1 DEF Copying, Copied
  <2>3. sum'[Labels[line]][d] = metrics[Labels[line]][d]
    BY <1>1, <1>2, <2>1, <2>2
  <2>4. ASSUME NEW i \in 1..2, NEW c \in CPUs, ~(i = line /\ c = d)
        PROVE  /\ Copied(i, c)' <=> Copied(i, c)
               /\ sum'[Labels[i]][c] = sum[Labels[i]][c]
    BY <1>1, <2>1, <2>4 DEF Copied
  <2>5. ASSUME NEW i \in 1..2, NEW c \in CPUs
        PROVE  IF Copied(i, c)'
                 THEN before[Labels[i]][c] <= sum'[Labels[i]][c]
                      /\ sum'[Labels[i]][c] <= metrics[Labels[i]][c]
                 ELSE sum'[Labels[i]][c] = 0
    <3>1. CASE i = line /\ c = d
      <4>1. before[Labels[i]][c] <= metrics[Labels[i]][c]
        BY <1>1, <2>1 DEF Copying
      <4>2. Copied(i, c)'
        BY <2>1, <3>1 DEF Copied
      <4>3. QED
        BY <1>1, <1>2, <2>3, <3>1, <4>1, <4>2
    <3>2. CASE ~(i = line /\ c = d)
      BY <2>4, <3>2 DEF Copying
    <3>3. QED
      BY <3>1, <3>2
  <2>6. line > 0 => \A l \in P!LabelSet, c \in CPUs : before[l][c] <= metrics[l][c]
    BY DEF Copying
  <2>7. QED
    BY <2>1, <2>5, <2>6 DEF Copying, Copied
<1>6. ASSUME P!NextLabel
      PROVE  Copying'
  <2>1. /\ line = 1 /\ unread = {} /\ line' = 2 /\ unread' = CPUs
        /\ UNCHANGED <<sum, before, metrics>>
    BY <1>6 DEF P!NextLabel
  <2>2. QED
    BY <2>1 DEF Copying, Copied
<1>7. ASSUME P!EndReading
      PROVE  Copying'
  <2>1. line' = 0 /\ sum' = [l \in P!LabelSet |-> [c \in CPUs |-> 0]]
    BY <1>7 DEF P!EndReading, P!Renewed, P!Zeros
  <2>2. QED
    BY <1>1, <2>1 DEF Copying, Copied
<1>8. \/ P!StartReading \/ P!NextLabel \/ P!EndReading \/ UNCHANGED P!reading
      \/ \E d \in CPUs : P!ReadCell(d)
  BY DEF P!Next, P!Reading, P!PrintLine, P!LookupFails, P!Main, P!Signal, P!Detach, P!Close,
         P!Exit, P!Load, P!Store, P!Classify, P!vars
<1>9. QED
  BY <1>3, <1>4, <1>5, <1>6, <1>7, <1>8

\* Every number of a line is one that its counter had between the tick and the print
\* (main.go:111-130), though they are of different moments.
THEOREM LineIsExplained == Spec => []LineExplained
<1>1. Init => Copying
  BY LabelFacts DEF Init, P!Init, P!Zeros, Copying, Copied
<1>2. P!TypeOK /\ P!TypeOK' /\ Cells /\ Copying /\ [P!Next]_(P!vars) => Copying'
  BY CellsGrow, CopyingStep
<1>3. P!TypeOK /\ Copying => LineExplained
  <2> SUFFICES ASSUME P!TypeOK, Copying, P!Complete, NEW l \in P!LabelSet, NEW c \in CPUs
               PROVE  before[l][c] <= sum[l][c] /\ sum[l][c] <= metrics[l][c]
    BY DEF LineExplained, P!LineExplained
  <2>1. PICK i \in 1..2 : l = Labels[i]
    BY LabelFacts
  <2>2. Copied(i, c)
    BY LabelFacts DEF P!Complete, Copied
  <2>3. QED
    BY <2>1, <2>2 DEF Copying
<1>4. QED
  BY <1>1, <1>2, <1>3, CountersStep, CountersTyped, CellsAlways, PTL DEF Spec

----------------------------------------------------------------------------
(* The commands.                                                           *)

LEMMA MessageFacts ==
  /\ Prompt \notin Messages /\ [op |-> "ended"] \notin Messages
  /\ \A o \in {"blocked", "unblocked", "failed"}, ip \in Addresses :
       [op |-> o, ip |-> ip] \in Messages
  /\ \A m \in Messages : m.ip \in Addresses /\ m.op \in {"blocked", "unblocked", "failed"}
BY DEF Messages, Prompt

LEMMA BlocklistSize ==
  ASSUME NEW S, S \subseteq Addresses, Cardinality(S) <= MaxEntries, NEW a \in Addresses
  PROVE  /\ Cardinality(S \ {a}) <= MaxEntries
         /\ a \in S \/ Cardinality(S) # MaxEntries => Cardinality(S \cup {a}) <= MaxEntries
<1>1. IsFiniteSet(S) /\ Cardinality(S) \in Nat /\ MaxEntries \in Nat
  BY AddressAssumption, BoundAssumption, FS_Subset, FS_CardinalityType
<1>2. Cardinality(S \cup {a}) = IF a \in S THEN Cardinality(S) ELSE Cardinality(S) + 1
  BY <1>1, FS_AddElement
<1>3. Cardinality(S \ {a}) = IF a \in S THEN Cardinality(S) - 1 ELSE Cardinality(S)
  BY <1>1, FS_RemoveElement
<1>4. QED
  BY <1>1, <1>2, <1>3

\* The types of the firewall's own variables.
ShellTyped ==
  /\ src_ip \in [CPUs -> Addresses \cup {<<>>}]
  /\ blocklist \in SUBSET Addresses
  /\ Cardinality(blocklist) <= MaxEntries
  /\ cmd \in Messages \cup {Prompt, [op |-> "ended"]}
  /\ told \in [Addresses -> {"blocked", "unblocked", "nothing"}]
  /\ against \in [Addresses -> Nat]
  /\ commands \in Nat

LEMMA ShellTypedStep == ShellTyped /\ [Next]_vars => ShellTyped'
<1> SUFFICES ASSUME ShellTyped, [Next]_vars
             PROVE  ShellTyped'
  OBVIOUS
<1> USE DEF ShellTyped
<1>1. ASSUME NEW c \in CPUs, NEW a \in Addresses, Receive(c, a)
      PROVE  ShellTyped'
  BY <1>1 DEF Receive, shell
<1>2. ASSUME NEW c \in CPUs, Return(c)
      PROVE  ShellTyped'
  <2>1. against' \in [Addresses -> Nat]
    <3> DEFINE new == [against EXCEPT ![src_ip[c]] = @ + 1]
    <3>1. new \in [Addresses -> Nat]
      <4>1. ASSUME NEW a \in Addresses
            PROVE  new[a] \in Nat
        BY <4>1
      <4>2. QED
        BY <4>1
    <3>2. against' = new \/ against' = against
      BY <1>2 DEF Return
    <3> HIDE DEF new
    <3>3. QED
      BY <3>1, <3>2
  <2>2. QED
    BY <1>2, <2>1 DEF Return
<1>3. ASSUME UNCHANGED <<src_ip, shell>>
      PROVE  ShellTyped'
  BY <1>3 DEF shell
<1>4. ASSUME NEW ip \in Addresses, NEW o \in {"blocked", "unblocked"}, NEW failed \in BOOLEAN,
             Command(ip, o, failed)
      PROVE  /\ UNCHANGED src_ip
             /\ cmd' \in Messages \cup {Prompt, [op |-> "ended"]}
             /\ told' \in [Addresses -> {"blocked", "unblocked", "nothing"}]
             /\ against' \in [Addresses -> Nat]
             /\ commands' \in Nat
  BY <1>4, MessageFacts DEF Command
<1>5. ASSUME NEW ip \in Addresses, Block(ip)
      PROVE  ShellTyped'
  <2> DEFINE fails == ~P!Open \/ (ip \notin blocklist /\ Cardinality(blocklist) = MaxEntries)
  <2>1. Command(ip, "blocked", fails) /\ fails \in BOOLEAN
    BY <1>5 DEF Block, parseIPToBytes
  <2>2. blocklist' \subseteq Addresses /\ Cardinality(blocklist') <= MaxEntries
    BY <1>5, BlocklistSize DEF Block, parseIPToBytes
  <2> HIDE DEF fails
  <2>3. QED
    BY <1>4, <2>1, <2>2
<1>6. ASSUME NEW ip \in Addresses, Unblock(ip)
      PROVE  ShellTyped'
  <2> DEFINE fails == ~P!Open \/ ip \notin blocklist
  <2>1. Command(ip, "unblocked", fails) /\ fails \in BOOLEAN
    BY <1>6 DEF Unblock, parseIPToBytes
  <2>2. blocklist' \subseteq Addresses /\ Cardinality(blocklist') <= MaxEntries
    BY <1>6, BlocklistSize DEF Unblock, parseIPToBytes
  <2> HIDE DEF fails
  <2>3. QED
    BY <1>4, <2>1, <2>2
<1>7. CASE Reply
  BY <1>7, MessageFacts DEF Reply
<1>8. CASE ExitCommand
  BY <1>8 DEF ExitCommand
<1>9. QED
  BY <1>1, <1>2, <1>3, <1>5, <1>6, <1>7, <1>8
     DEF Next, Program, Load, Metrics, Main, Commands, vars

\* Every variable keeps its type, and the blocklist its size.
THEOREM TypeCorrect == Spec => []TypeOK
<1>1. Init => ShellTyped
  <2>1. Cardinality({}) <= MaxEntries
    BY BoundAssumption, FS_EmptySet
  <2>2. QED
    BY <2>1 DEF Init, ShellTyped
<1>2. P!TypeOK /\ ShellTyped => TypeOK
  BY DEF ShellTyped, TypeOK
<1>3. QED
  BY <1>1, <1>2, ShellTypedStep, CountersTyped, PTL DEF Spec

LEMMA OutdatedAreCPUs ==
  ASSUME NEW S, S \subseteq CPUs
  PROVE  /\ IsFiniteSet(S) /\ Cardinality(S) \in Nat
         /\ Cardinality(CPUs) \in Nat /\ Cardinality(S) <= Cardinality(CPUs)
         /\ \A T : T \subseteq S => Cardinality(T) <= Cardinality(S)
         /\ \A c \in S : \A T : T \subseteq S \ {c} => Cardinality(T) <= Cardinality(S) - 1
<1>1. /\ IsFiniteSet(S) /\ Cardinality(S) \in Nat
      /\ Cardinality(CPUs) \in Nat /\ Cardinality(S) <= Cardinality(CPUs)
  BY CPUsAssumption, FS_Subset, FS_CardinalityType
<1>2. \A T : T \subseteq S => Cardinality(T) <= Cardinality(S)
  BY <1>1, FS_Subset
<1>3. ASSUME NEW c \in S, NEW T, T \subseteq S \ {c}
      PROVE  Cardinality(T) <= Cardinality(S) - 1
  <2>1. IsFiniteSet(S \ {c}) /\ Cardinality(S \ {c}) = Cardinality(S) - 1
    BY <1>1, FS_RemoveElement
  <2>2. QED
    BY <1>3, <2>1, FS_Subset
<1>4. QED
  BY <1>1, <1>2, <1>3

\* What was printed of an address, or is about to be, is what the blocklist has.
Effect ==
  /\ BlockTakesEffect
  /\ \A a \in Addresses : /\ told[a] = "blocked" => a \in blocklist
                          /\ told[a] = "unblocked" => a \notin blocklist
  /\ cmd \in Messages => /\ told[cmd.ip] = "nothing"
                         /\ cmd.op = "blocked" => cmd.ip \in blocklist
                         /\ cmd.op = "unblocked" => cmd.ip \notin blocklist

LEMMA EffectStep == ShellTyped /\ P!TypeOK /\ Effect /\ [Next]_vars => Effect'
<1> SUFFICES ASSUME ShellTyped, P!TypeOK, Effect, [Next]_vars
             PROVE  Effect'
  OBVIOUS
<1> USE DEF ShellTyped
<1>1. ASSUME UNCHANGED <<blocklist, cmd, told>>,
             \A a \in Addresses :
               \/ against'[a] = against[a] /\ Outdated(a)' \subseteq Outdated(a)
               \/ against'[a] = against[a] + 1 /\ \E c \in Outdated(a) :
                                                     Outdated(a)' \subseteq Outdated(a) \ {c}
      PROVE  Effect'
  <2>1. ASSUME NEW a \in Addresses
        PROVE  against'[a] + Cardinality(Outdated(a)') <= Cardinality(CPUs)
    <3>1. Outdated(a) \subseteq CPUs /\ Outdated(a)' \subseteq CPUs
      BY DEF Outdated
    <3>2. /\ Cardinality(Outdated(a)) \in Nat /\ Cardinality(Outdated(a)') \in Nat
          /\ Cardinality(CPUs) \in Nat /\ against[a] \in Nat
          /\ against[a] + Cardinality(Outdated(a)) <= Cardinality(CPUs)
      BY <3>1, OutdatedAreCPUs DEF Effect, BlockTakesEffect
    <3>3. CASE against'[a] = against[a] /\ Outdated(a)' \subseteq Outdated(a)
      <4>1. Cardinality(Outdated(a)') <= Cardinality(Outdated(a))
        BY <3>1, <3>3, OutdatedAreCPUs
      <4>2. QED
        BY <3>2, <3>3, <4>1
    <3>4. ASSUME against'[a] = against[a] + 1,
                 NEW c \in Outdated(a), Outdated(a)' \subseteq Outdated(a) \ {c}
          PROVE  against'[a] + Cardinality(Outdated(a)') <= Cardinality(CPUs)
      <4>1. Cardinality(Outdated(a)') <= Cardinality(Outdated(a)) - 1
        BY <3>1, <3>4, OutdatedAreCPUs
      <4>2. QED
        BY <3>2, <3>4, <4>1
    <3>5. QED
      BY <1>1, <3>3, <3>4
  <2>2. BlockTakesEffect'
    BY <2>1 DEF BlockTakesEffect
  <2>3. QED
    BY <1>1, <2>2 DEF Effect
<1>2. ASSUME NEW c \in CPUs, NEW a \in Addresses, Receive(c, a)
      PROVE  Effect'
  <2>1. /\ UNCHANGED <<blocklist, cmd, told, against>>
        /\ src_ip' = [src_ip EXCEPT ![c] = a]
        /\ label' = [label EXCEPT ![c] = IF a \in blocklist THEN "DROP" ELSE "PASS"]
    BY <1>2 DEF Receive, shell, P!Classify
  <2>2. ASSUME NEW b \in Addresses
        PROVE  Outdated(b)' \subseteq Outdated(b)
    BY <2>1 DEF Outdated, Contrary, Effect, P!TypeOK
  <2>3. QED
    BY <1>1, <2>1, <2>2
<1>3. ASSUME NEW c \in CPUs, Return(c)
      PROVE  Effect'
  <2>1. /\ UNCHANGED <<blocklist, cmd, told>>
        /\ src_ip' = [src_ip EXCEPT ![c] = <<>>]
        /\ \A d \in CPUs \ {c} : label'[d] = label[d]
        /\ against' = IF Contrary(src_ip[c], label[c])
                        THEN [against EXCEPT ![src_ip[c]] = @ + 1] ELSE against
    BY <1>3 DEF Return, P!Store, P!TypeOK
  <2>2. ASSUME NEW b \in Addresses
        PROVE  Outdated(b)' \subseteq Outdated(b) \ {c}
    <3>1. b # <<>>
      BY AddressAssumption
    <3>2. QED
      BY <2>1, <3>1 DEF Outdated, Contrary
  <2>3. ASSUME NEW b \in Addresses
        PROVE  \/ against'[b] = against[b]
               \/ against'[b] = against[b] + 1 /\ c \in Outdated(b)
    BY <2>1 DEF Outdated
  <2>4. QED
    BY <1>1, <2>1, <2>2, <2>3
<1>4. ASSUME NEW ip \in Addresses, against' = [against EXCEPT ![ip] = 0],
             UNCHANGED <<packets, src_ip>>, \A a \in Addresses \ {ip} : told'[a] = told[a]
      PROVE  BlockTakesEffect'
  <2>1. ASSUME NEW a \in Addresses
        PROVE  against'[a] + Cardinality(Outdated(a)') <= Cardinality(CPUs)
    <3>1. Outdated(a) \subseteq CPUs /\ Outdated(a)' \subseteq CPUs
      BY DEF Outdated
    <3>2. a # ip => Outdated(a)' = Outdated(a) /\ against'[a] = against[a]
      BY <1>4 DEF packets, Outdated, Contrary
    <3>3. a = ip => against'[a] = 0
      BY <1>4
    <3>4. against[a] + Cardinality(Outdated(a)) <= Cardinality(CPUs)
      BY DEF Effect, BlockTakesEffect
    <3>5. Cardinality(Outdated(a)') \in Nat /\ Cardinality(Outdated(a)') <= Cardinality(CPUs)
      BY <3>1, OutdatedAreCPUs
    <3>6. QED
      BY <3>2, <3>3, <3>4, <3>5
  <2>2. QED
    BY <2>1 DEF BlockTakesEffect
<1>5. ASSUME NEW ip \in Addresses, NEW o \in {"blocked", "unblocked"}, NEW failed \in BOOLEAN,
             Command(ip, o, failed), blocklist' \ {ip} = blocklist \ {ip},
             ~failed => (ip \in blocklist' <=> o = "blocked")
      PROVE  Effect'
  <2>1. /\ told' = [told EXCEPT ![ip] = "nothing"]
        /\ cmd' = [op |-> IF failed THEN "failed" ELSE o, ip |-> ip]
        /\ against' = [against EXCEPT ![ip] = 0]
        /\ UNCHANGED <<packets, src_ip>>
    BY <1>5 DEF Command
  <2>2. BlockTakesEffect'
    BY <1>4, <2>1
  <2>3. /\ cmd'.ip = ip /\ told'[ip] = "nothing"
        /\ cmd'.op = "blocked" => ip \in blocklist'
        /\ cmd'.op = "unblocked" => ip \notin blocklist'
    BY <1>5, <2>1
  <2>4. \A a \in Addresses : /\ told'[a] = "blocked" => a \in blocklist'
                             /\ told'[a] = "unblocked" => a \notin blocklist'
    BY <1>5, <2>1 DEF Effect
  <2>5. QED
    BY <2>2, <2>3, <2>4 DEF Effect
<1>6. ASSUME NEW ip \in Addresses, Block(ip)
      PROVE  Effect'
  <2> DEFINE fails == ~P!Open \/ (ip \notin blocklist /\ Cardinality(blocklist) = MaxEntries)
  <2>1. /\ Command(ip, "blocked", fails) /\ fails \in BOOLEAN
        /\ blocklist' = IF fails THEN blocklist ELSE blocklist \cup {ip}
    BY <1>6 DEF Block, parseIPToBytes
  <2> HIDE DEF fails
  <2>2. blocklist' \ {ip} = blocklist \ {ip} /\ (~fails => (ip \in blocklist' <=> TRUE))
    BY <2>1
  <2>3. QED
    BY <1>5, <2>1, <2>2
<1>7. ASSUME NEW ip \in Addresses, Unblock(ip)
      PROVE  Effect'
  <2> DEFINE fails == ~P!Open \/ ip \notin blocklist
  <2>1. /\ Command(ip, "unblocked", fails) /\ fails \in BOOLEAN
        /\ blocklist' = IF fails THEN blocklist ELSE blocklist \ {ip}
    BY <1>7 DEF Unblock, parseIPToBytes
  <2> HIDE DEF fails
  <2>2. blocklist' \ {ip} = blocklist \ {ip} /\ (~fails => (ip \in blocklist' <=> FALSE))
    BY <2>1
  <2>3. QED
    BY <1>5, <2>1, <2>2
<1>8. CASE Reply
  <2>1. /\ cmd \in Messages /\ cmd' = Prompt
        /\ told' = [told EXCEPT ![cmd.ip] = IF cmd.op = "failed" THEN "nothing" ELSE cmd.op]
        /\ against' = [against EXCEPT ![cmd.ip] = 0]
        /\ UNCHANGED <<packets, src_ip, blocklist>>
    BY <1>8 DEF Reply
  <2>2. cmd.ip \in Addresses /\ cmd' \notin Messages
    BY <2>1, MessageFacts
  <2>3. BlockTakesEffect'
    BY <1>4, <2>1, <2>2
  <2>4. \A a \in Addresses : /\ told'[a] = "blocked" => a \in blocklist'
                             /\ told'[a] = "unblocked" => a \notin blocklist'
    BY <2>1, <2>2, MessageFacts DEF Effect
  <2>5. QED
    BY <2>2, <2>3, <2>4 DEF Effect
<1>9. CASE ExitCommand
  <2>1. /\ UNCHANGED <<src_ip, label, blocklist, told, against>> /\ cmd' \notin Messages
    BY <1>9, MessageFacts DEF ExitCommand, P!Signal, P!program
  <2>2. BlockTakesEffect'
    BY <2>1 DEF Effect, BlockTakesEffect, Outdated, Contrary
  <2>3. QED
    BY <2>1, <2>2 DEF Effect
<1>10. ASSUME UNCHANGED <<label, src_ip, shell>>
       PROVE  Effect'
  BY <1>10 DEF shell, Effect, BlockTakesEffect, Outdated, Contrary
<1>11. ASSUME NEW c \in CPUs, Load(c)
       PROVE  UNCHANGED <<label, src_ip, shell>>
  BY <1>11 DEF Load, P!Load
<1>12. Metrics \/ Main => UNCHANGED <<label, src_ip, shell>>
  BY DEF Metrics, Main, P!Reading, P!StartReading, P!NextLabel, P!PrintLine, P!LookupFails,
         P!EndReading, P!ReadCell, P!Main, P!Signal, P!Detach, P!Close, P!Exit, P!program
<1>13. UNCHANGED vars => UNCHANGED <<label, src_ip, shell>>
  BY DEF vars, packets
<1>14. QED
  BY <1>2, <1>3, <1>6, <1>7, <1>8, <1>9, <1>10, <1>11, <1>12, <1>13 DEF Next, Program, Commands

\* After "Successfully blocked IP" (main.go:179) only the packets that were looked up
\* before still pass, one on each CPU; after "Successfully unblocked" as many are dropped.
THEOREM BlockIsEffective == Spec => []BlockTakesEffect
<1>1. Init => Effect
  <2> SUFFICES ASSUME Init
               PROVE  Effect
    OBVIOUS
  <2>1. \A a \in Addresses : Outdated(a) = {} /\ against[a] = 0
    BY AddressAssumption DEF Init, Outdated
  <2>2. BlockTakesEffect
    BY <2>1, OutdatedAreCPUs, FS_EmptySet DEF BlockTakesEffect
  <2>3. QED
    BY <2>2, MessageFacts DEF Init, Effect
<1>2. Init => ShellTyped
  BY BoundAssumption, FS_EmptySet DEF Init, ShellTyped
<1>3. Effect => BlockTakesEffect
  BY DEF Effect
<1>4. QED
  BY <1>1, <1>2, <1>3, EffectStep, ShellTypedStep, CountersTyped, PTL DEF Spec

=============================================================================
