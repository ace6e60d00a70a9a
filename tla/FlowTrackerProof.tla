-------------------------- MODULE FlowTrackerProof --------------------------
(***************************************************************************)
(* For any number of CPUs, flows and elements: a flow is charged for other *)
(* flows at most once per other CPU, a flow that stays in the map was new  *)
(* at most once per CPU, and a table shows a flow twice, or runs out of    *)
(* keys without one that was in the map all the time, only if the flow it  *)
(* stood on, or the missing one, was evicted or inserted again meanwhile.  *)
(***************************************************************************)
EXTENDS FlowTracker, FiniteSetTheorems, TLAPS

\* A set of CPUs is no larger than CPUs; smaller if one is missing.
LEMMA SubsetOfCPUs ==
  ASSUME NEW S, S \subseteq CPUs
  PROVE  /\ IsFiniteSet(S)
         /\ Cardinality(S) \in Nat
         /\ NCPU \in Nat \ {0}
         /\ Cardinality(S) <= NCPU
         /\ \A c \in CPUs : c \notin S => Cardinality(S) <= NCPU - 1
<1>1. IsFiniteSet(S) /\ Cardinality(S) <= NCPU /\ (Cardinality(S) = NCPU => S = CPUs)
  BY SetAssumption, FS_Subset DEF NCPU
<1>2. Cardinality(S) \in Nat /\ NCPU \in Nat
  BY <1>1, SetAssumption, FS_CardinalityType DEF NCPU
<1>3. NCPU # 0
  BY SetAssumption, FS_EmptySet DEF NCPU
<1>4. QED
  BY <1>1, <1>2, <1>3

\* How the size of a set of CPUs changes with the set.
LEMMA SizeOfCPUs ==
  ASSUME NEW S, S \subseteq CPUs, NEW T, T \subseteq CPUs, NEW c \in CPUs
  PROVE  /\ T \subseteq S => Cardinality(T) <= Cardinality(S)
         /\ T \subseteq S \cup {c} => Cardinality(T) <= Cardinality(S) + 1
         /\ c \in S /\ T \subseteq S \ {c} => Cardinality(T) <= Cardinality(S) - 1
<1>1. IsFiniteSet(S) /\ Cardinality(S) \in Nat /\ IsFiniteSet(T) /\ Cardinality(T) \in Nat
  BY SubsetOfCPUs
<1>2. T \subseteq S => Cardinality(T) <= Cardinality(S)
  BY <1>1, FS_Subset
<1>3. ASSUME T \subseteq S \cup {c}
      PROVE  Cardinality(T) <= Cardinality(S) + 1
  <2>1. /\ IsFiniteSet(S \cup {c})
        /\ Cardinality(S \cup {c}) = IF c \in S THEN Cardinality(S) ELSE Cardinality(S) + 1
    BY <1>1, FS_AddElement
  <2>2. Cardinality(T) <= Cardinality(S \cup {c})
    BY <1>3, <2>1, FS_Subset
  <2>3. Cardinality(S \cup {c}) \in Nat
    BY <2>1, FS_CardinalityType
  <2>4. QED
    BY <1>1, <2>1, <2>2, <2>3
<1>4. ASSUME c \in S, T \subseteq S \ {c}
      PROVE  Cardinality(T) <= Cardinality(S) - 1
  <2>1. IsFiniteSet(S \ {c}) /\ Cardinality(S \ {c}) = Cardinality(S) - 1
    BY <1>1, <1>4, FS_RemoveElement
  <2>2. Cardinality(T) <= Cardinality(S \ {c})
    BY <1>4, <2>1, FS_Subset
  <2>3. QED
    BY <2>1, <2>2
<1>5. QED
  BY <1>2, <1>3, <1>4

----------------------------------------------------------------------------
(* Type correctness.                                                       *)

LEMMA Counting ==
  /\ \A m \in Metrics : /\ [m EXCEPT !.total = @ + 1] \in Metrics
                        /\ [m EXCEPT !.updated = @ + 1] \in Metrics
                        /\ [m EXCEPT !.new = @ + 1] \in Metrics
  /\ \A v \in Stats, l \in Nat : /\ [v EXCEPT !.packets = @ + 1] \in Stats
                                 /\ [v EXCEPT !.bytes = @ + l] \in Stats
                                 /\ [packets |-> 1, bytes |-> l] \in Stats
BY DEF Metrics, Stats

\* What a CPU has left when it returns.
ProgramTyped ==
  /\ pc \in [CPUs -> {"idle", "packets", "bytes", "insert"}]
  /\ key \in [CPUs -> Flows \cup {NULL}]
  /\ pkt_len \in [CPUs -> Nat]
  /\ s \in [CPUs -> Elements \cup {NULL}]
  /\ \A c \in CPUs : pc[c] # "idle" => key[c] \in Flows
  /\ \A c \in CPUs : pc[c] \in {"packets", "bytes"} => s[c] \in Elements

LEMMA Returned ==
  ASSUME TypeOK, NEW c \in CPUs, Return(c)
  PROVE  ProgramTyped'
BY DEF TypeOK, ProgramTyped, Return

LEMMA InitTyped == Init => TypeOK
<1> SUFFICES ASSUME Init
             PROVE  TypeOK
  OBVIOUS
<1>1. jumped \in BOOLEAN
  BY DEF Init
<1>2. /\ since \in [Flows -> Nat] /\ flows \in [Flows -> Elements \cup {NULL}]
      /\ value \in [Elements -> Stats] /\ metrics \in Metrics
      /\ received \in [Flows -> Nat] /\ inserted \in [Flows -> Nat]
  BY DEF Init, Stats, Metrics
<1>3. QED
  BY <1>1, <1>2, NullAssumption DEF Init, TypeOK

\* Every variable keeps its type; a CPU inside the program has a flow, and an element
\* where it is going to follow its pointer (main.bpf.c:72-75).
THEOREM TypeCorrect == Spec => []TypeOK
<1>1. Init => TypeOK
  BY InitTyped
<1>2. TypeOK /\ [Next]_vars => TypeOK'
  <2> SUFFICES ASSUME TypeOK, [Next]_vars
               PROVE  TypeOK'
    OBVIOUS
  <2> USE LengthAssumption, Counting DEF TypeOK
  <2>1. ASSUME NEW c \in CPUs, Untracked(c)
        PROVE  TypeOK'
    BY <2>1 DEF Untracked, Receive, program, table, place, watch
  <2>2. ASSUME NEW c \in CPUs, NEW f \in Flows, NEW l \in Lengths, Lookup(c, f, l)
        PROVE  TypeOK'
    <3>1. received' \in [Flows -> Nat] /\ pkt_len' \in [CPUs -> Nat]
      BY <2>2 DEF Lookup
    <3>4. metrics' \in Metrics
      BY <2>2 DEF Lookup, Receive
    <3>2. /\ pc' \in [CPUs -> {"idle", "packets", "bytes", "insert"}]
          /\ key' \in [CPUs -> Flows \cup {NULL}]
          /\ s' \in [CPUs -> Elements \cup {NULL}]
      BY <2>2 DEF Lookup
    <3>3. /\ \A d \in CPUs : pc'[d] # "idle" => key'[d] \in Flows
          /\ \A d \in CPUs : pc'[d] \in {"packets", "bytes"} => s'[d] \in Elements
      BY <2>2, NullAssumption DEF Lookup, Miss, watch
    <3>5. QED
      BY <2>2, <3>1, <3>2, <3>3, <3>4 DEF Lookup, table, place, watch
  <2>3. ASSUME NEW c \in CPUs, AddPackets(c)
        PROVE  TypeOK'
    BY <2>3 DEF AddPackets, table, place, watch
  <2>4. ASSUME NEW c \in CPUs, AddBytes(c)
        PROVE  TypeOK'
    BY <2>4, Returned DEF AddBytes, ProgramTyped, table, place, watch
  <2>5. ASSUME NEW c \in CPUs, NEW e \in Elements, Insert(c, e)
        PROVE  TypeOK'
    <3>1. value' \in [Elements -> Stats] /\ metrics' \in Metrics
      BY <2>5 DEF Insert, Fresh
    <3>2. key[c] \in Flows /\ metrics.new + 1 \in Nat
      BY <2>5 DEF Insert, Metrics
    <3>3. /\ flows' \in [Flows -> Elements \cup {NULL}]
          /\ since' \in [Flows -> Nat]
          /\ inserted' \in [Flows -> Nat]
      <4>1. /\ flows' = [flows EXCEPT ![key[c]] = e]
            /\ since' = [since EXCEPT ![key[c]] = metrics.new + 1]
            /\ inserted' = [inserted EXCEPT ![key[c]] = @ + 1]
        BY <2>5 DEF Insert
      <4>2. since' \in [Flows -> Nat]
        BY <3>2, <4>1
      <4>3. flows' \in [Flows -> Elements \cup {NULL}]
        BY <4>1
      <4>4. inserted' \in [Flows -> Nat]
        BY <3>2, <4>1
      <4>5. QED
        BY <4>2, <4>3, <4>4
    <3>4. stay' \subseteq Flows /\ jumped' \in BOOLEAN
      BY <2>5 DEF Insert, Moved
    <3>5. QED
      BY <2>5, <3>1, <3>3, <3>4, Returned DEF Insert, ProgramTyped, table
  <2>10. ASSUME NEW c \in CPUs, NEW f \in Flows, Evict(c, f)
         PROVE  TypeOK'
    <3>1. stay' \subseteq Flows /\ jumped' \in BOOLEAN
      BY <2>10 DEF Evict, Moved
    <3>2. /\ flows' \in [Flows -> Elements \cup {NULL}]
          /\ since' \in [Flows -> Nat] /\ lost' \subseteq Flows
      BY <2>10 DEF Evict
    <3>3. QED
      BY <2>10, <3>1, <3>2 DEF Evict, program, table
  <2>6. ASSUME NEW c \in CPUs, InsertFails(c)
        PROVE  TypeOK'
    <3>1. metrics' \in Metrics
      BY <2>6 DEF InsertFails
    <3>2. lost' \subseteq Flows /\ inserted' \in [Flows -> Nat]
      BY <2>6 DEF InsertFails, watch
    <3>3. QED
      BY <2>6, <3>1, <3>2, Returned DEF InsertFails, ProgramTyped, table, place, watch
  <2>7. CASE Loader
    <3>1. CASE Top
      BY <3>1 DEF Top, StartTop, Linked, program, place, watch
    <3>2. CASE LookupKey
      BY <3>2 DEF LookupKey, Linked, program, place, watch
    <3>3. CASE EndTop
      <4>1. stay' \in SUBSET Flows /\ jumped' \in BOOLEAN
        BY <3>3 DEF EndTop
      <4>2. QED
        BY <3>3, <4>1 DEF EndTop, program, place
    <3>4. CASE Signal
      BY <3>4 DEF Signal, StartTop, Linked, program, place
    <3>5. ASSUME NEW f \in Flows, NextKey(f)
          PROVE  TypeOK'
      <4>1. stay' \in SUBSET Flows /\ jumped' \in BOOLEAN
        BY <3>5 DEF NextKey, watch
      <4>2. cursor' \in Flows /\ count' \in Nat /\ top' = "lookup"
        BY <3>5 DEF NextKey
      <4>3. UNCHANGED <<program, place, value, metrics, main, shown, received, inserted, lost>>
        BY <3>5 DEF NextKey
      <4>4. QED
        BY <4>1, <4>2, <4>3 DEF program, place
    <3>6. QED
      BY <2>7, <3>1, <3>2, <3>3, <3>4, <3>5 DEF Loader
  <2>8. CASE UNCHANGED vars
    BY <2>8 DEF vars, program, table, place, watch
  <2>9. QED
    BY <2>1, <2>2, <2>3, <2>4, <2>5, <2>6, <2>7, <2>8, <2>10 DEF Next, Program
<1>3. QED
  BY <1>1, <1>2, PTL DEF Spec

----------------------------------------------------------------------------
(* New flows.                                                              *)

LEMMA InsertersAreCPUs ==
  \A f : Inserters(f) \subseteq CPUs /\ Inserters(f)' \subseteq CPUs
BY DEF Inserters

\* What is not in the map and was never evicted has not been inserted.
NewFlows ==
  /\ TypeOK
  /\ NewOncePerCPU
  /\ \A f \in Flows \ lost : flows[f] = NULL => inserted[f] = 0

\* A flow that stays in the map was counted as new at most once per CPU
\* (main.bpf.c:85-86): after the first insertion only the CPUs that had missed it
\* before insert it again.
THEOREM NewAtMostOncePerCPU == Spec => []NewOncePerCPU
<1>1. Init => NewFlows
  <2> SUFFICES ASSUME Init
               PROVE  NewFlows
    OBVIOUS
  <2>1. TypeOK
    BY InitTyped
  <2>2. ASSUME NEW f \in Flows
        PROVE  inserted[f] + Cardinality(Inserters(f)) <= NCPU
    <3>1. Inserters(f) = {} /\ inserted[f] = 0
      BY DEF Init, Inserters
    <3>2. QED
      BY <3>1, FS_EmptySet, SubsetOfCPUs
  <2>3. QED
    BY <2>1, <2>2 DEF NewFlows, NewOncePerCPU, Init
<1>2. NewFlows /\ TypeOK' /\ [Next]_vars => NewFlows'
  <2> SUFFICES ASSUME NewFlows, TypeOK', [Next]_vars, NEW f \in Flows \ lost'
               PROVE  /\ inserted'[f] + Cardinality(Inserters(f)') <= NCPU
                      /\ flows'[f] = NULL => inserted'[f] = 0
    BY DEF NewFlows, NewOncePerCPU, NCPU
  <2> DEFINE A == Inserters(f)
             B == Inserters(f)'
  <2>1. /\ inserted[f] \in Nat /\ Cardinality(A) \in Nat /\ Cardinality(B) \in Nat
        /\ NCPU \in Nat /\ Cardinality(B) <= NCPU
    BY InsertersAreCPUs, SubsetOfCPUs DEF NewFlows, TypeOK
  <2>2. f \in Flows \ lost => /\ inserted[f] + Cardinality(A) <= NCPU
                              /\ flows[f] = NULL => inserted[f] = 0
    BY DEF NewFlows, NewOncePerCPU
  <2>3. ASSUME lost' = lost, flows' = flows, inserted' = inserted, B \subseteq A
        PROVE  /\ inserted'[f] + Cardinality(B) <= NCPU
               /\ flows'[f] = NULL => inserted'[f] = 0
    <3>1. Cardinality(B) <= Cardinality(A)
      BY <2>3, InsertersAreCPUs, SizeOfCPUs, SetAssumption
    <3>2. QED
      BY <2>1, <2>2, <2>3, <3>1
  <2>4. ASSUME NEW c \in CPUs, NEW g \in Flows, NEW l \in Lengths, Lookup(c, g, l)
        PROVE  /\ inserted'[f] + Cardinality(B) <= NCPU
               /\ flows'[f] = NULL => inserted'[f] = 0
    <3>1. lost' = lost /\ flows' = flows /\ inserted' = inserted
      BY <2>4 DEF Lookup, place
    <3>2. CASE g = f /\ flows[f] = NULL
      BY <2>1, <2>2, <3>1, <3>2
    <3>3. CASE ~(g = f /\ flows[f] = NULL)
      <4>1. B \subseteq A
        BY <2>4, <3>3 DEF Lookup, Receive, Miss, Inserters, NewFlows, TypeOK
      <4>2. QED
        BY <2>3, <3>1, <4>1
    <3>4. QED
      BY <3>2, <3>3
  <2>5. ASSUME NEW c \in CPUs, pc[c] = "insert", Return(c),
               inserted' = [inserted EXCEPT ![key[c]] = @ + 1],
               f \notin lost, f # key[c] => flows'[f] = flows[f],
               f = key[c] => flows'[f] # NULL
        PROVE  /\ inserted'[f] + Cardinality(B) <= NCPU
               /\ flows'[f] = NULL => inserted'[f] = 0
    <3>1. B \subseteq A /\ c \notin B
      BY <2>5 DEF Return, Inserters, NewFlows, TypeOK
    <3>2. CASE key[c] = f
      <4>1. inserted'[f] = inserted[f] + 1
        BY <2>5, <3>2 DEF NewFlows, TypeOK
      <4>2. c \in A
        BY <2>5, <3>2 DEF Inserters
      <4>3. Cardinality(B) <= Cardinality(A) - 1
        BY <3>1, <4>2, SizeOfCPUs, InsertersAreCPUs
      <4>4. QED
        BY <2>1, <2>2, <2>5, <3>2, <4>1, <4>3
    <3>3. CASE key[c] # f
      <4>1. inserted'[f] = inserted[f]
        BY <2>5, <3>3 DEF NewFlows, TypeOK
      <4>2. Cardinality(B) <= Cardinality(A)
        BY <3>1, SizeOfCPUs, InsertersAreCPUs
      <4>3. QED
        BY <2>1, <2>2, <2>5, <3>3, <4>1, <4>2
    <3>4. QED
      BY <3>2, <3>3
  <2>6. ASSUME NEW c \in CPUs, NEW e \in Elements, Insert(c, e)
        PROVE  /\ inserted'[f] + Cardinality(B) <= NCPU
               /\ flows'[f] = NULL => inserted'[f] = 0
    <3>1. /\ f \notin lost /\ f # key[c] => flows'[f] = flows[f]
          /\ f = key[c] => flows'[f] # NULL
      <4>1. flows' = [flows EXCEPT ![key[c]] = e] /\ e # NULL
        BY <2>6, NullAssumption DEF Insert
      <4>2. QED
        BY <4>1 DEF NewFlows, TypeOK
    <3>2. QED
      BY <2>5, <2>6, <3>1 DEF Insert
  <2>7. ASSUME NEW c \in CPUs, InsertFails(c)
        PROVE  /\ inserted'[f] + Cardinality(B) <= NCPU
               /\ flows'[f] = NULL => inserted'[f] = 0
    BY <2>5, <2>7 DEF InsertFails, place
  <2>12. ASSUME NEW c \in CPUs, NEW g \in Flows, Evict(c, g)
         PROVE  /\ inserted'[f] + Cardinality(B) <= NCPU
                /\ flows'[f] = NULL => inserted'[f] = 0
    <3>1. /\ f \in Flows \ lost /\ flows'[f] = flows[f] /\ inserted' = inserted
          /\ B \subseteq A
      BY <2>12 DEF Evict, program, Inserters, NewFlows, TypeOK
    <3>2. Cardinality(B) <= Cardinality(A)
      BY <3>1, InsertersAreCPUs, SizeOfCPUs, SetAssumption
    <3>3. QED
      BY <2>1, <2>2, <3>1, <3>2
  <2>8. ASSUME NEW c \in CPUs, Untracked(c) \/ AddPackets(c) \/ AddBytes(c)
        PROVE  lost' = lost /\ flows' = flows /\ inserted' = inserted /\ B \subseteq A
    BY <2>8 DEF Untracked, AddPackets, AddBytes, Return, program, Inserters, NewFlows, TypeOK, place, watch
  <2>9. CASE Loader
    BY <2>3, <2>9 DEF Loader, Top, NextKey, LookupKey, EndTop, Signal, program, Inserters, place, watch
  <2>10. CASE UNCHANGED vars
    BY <2>3, <2>10 DEF vars, program, Inserters, place, watch
  <2>11. QED
    BY <2>3, <2>4, <2>6, <2>7, <2>8, <2>9, <2>10, <2>12 DEF Next, Program
<1>3. NewFlows => NewOncePerCPU
  BY DEF NewFlows
<1>4. QED
  BY <1>1, <1>2, <1>3, TypeCorrect, PTL DEF Spec

----------------------------------------------------------------------------
(* Charges.                                                                *)

LEMMA HoldersAreCPUs ==
  \A e : Holders(e) \subseteq CPUs /\ Holders(e)' \subseteq CPUs
BY DEF Holders

\* No two flows have the same element; a CPU inside the program has received a packet
\* of its flow.
Charges ==
  /\ TypeOK
  /\ OwnPackets
  /\ \A f, g \in Linked : flows[f] = flows[g] => f = g
  /\ \A c \in CPUs : pc[c] # "idle" => received[key[c]] >= 1

LEMMA ChargesStep ==
  ASSUME Charges, TypeOK', [Next]_vars
  PROVE  /\ \A f, g \in Linked' : flows'[f] = flows'[g] => f = g
         /\ \A c \in CPUs : pc'[c] # "idle" => received'[key'[c]] >= 1
<1> USE DEF Charges, TypeOK
<1>1. ASSUME NEW c \in CPUs, NEW f \in Flows, NEW l \in Lengths, Lookup(c, f, l)
      PROVE  /\ \A h, g \in Linked' : flows'[h] = flows'[g] => h = g
             /\ \A d \in CPUs : pc'[d] # "idle" => received'[key'[d]] >= 1
  <2>1. /\ received'[f] >= 1 /\ \A g \in Flows : received'[g] >= received[g]
        /\ \A g \in Flows : received[g] \in Nat /\ received'[g] \in Nat
    BY <1>1 DEF Lookup
  <2>2. /\ key'[c] = f
        /\ \A d \in CPUs \ {c} : key'[d] = key[d] /\ pc'[d] = pc[d]
        /\ flows' = flows
    BY <1>1 DEF Lookup, place
  <2>3. ASSUME NEW d \in CPUs, pc'[d] # "idle"
        PROVE  received'[key'[d]] >= 1
    <3>1. CASE d = c
      BY <2>1, <2>2, <3>1
    <3>2. CASE d # c
      <4>1. key'[d] = key[d] /\ key[d] \in Flows /\ received[key[d]] >= 1
        BY <2>2, <2>3, <3>2
      <4>2. received'[key[d]] >= received[key[d]]
        BY <2>1, <4>1
      <4>3. received[key[d]] \in Nat /\ received'[key[d]] \in Nat
        BY <2>1, <4>1
      <4>4. QED
        BY <4>1, <4>2, <4>3
    <3>3. QED
      BY <3>1, <3>2
  <2>4. Linked' = Linked
    BY <2>2 DEF Linked
  <2>5. QED
    BY <2>2, <2>3, <2>4
<1>2. ASSUME NEW c \in CPUs, NEW e \in Elements, Insert(c, e)
      PROVE  /\ \A f, g \in Linked' : flows'[f] = flows'[g] => f = g
             /\ \A d \in CPUs : pc'[d] # "idle" => received'[key'[d]] >= 1
  <2>1. \A f, g \in Linked' : flows'[f] = flows'[g] => f = g
    <3>1. flows' = [flows EXCEPT ![key[c]] = e] /\ \A g \in Flows : flows[g] # e
      BY <1>2 DEF Insert, Range
    <3>2. key[c] \in Flows /\ flows'[key[c]] = e
          /\ \A g \in Flows \ {key[c]} : flows'[g] = flows[g]
      BY <1>2, <3>1 DEF Insert
    <3>3. \A g \in Linked' \ {key[c]} : g \in Linked /\ flows'[g] = flows[g] /\ flows[g] # e
      BY <3>1, <3>2 DEF Linked
    <3>4. QED
      BY <3>2, <3>3
  <2>2. QED
    BY <1>2, <2>1 DEF Insert, Return
<1>7. ASSUME NEW c \in CPUs, NEW h \in Flows, Evict(c, h)
      PROVE  /\ \A f, g \in Linked' : flows'[f] = flows'[g] => f = g
             /\ \A d \in CPUs : pc'[d] # "idle" => received'[key'[d]] >= 1
  BY <1>7 DEF Evict, program, Linked
<1>3. ASSUME NEW c \in CPUs,
             Untracked(c) \/ AddPackets(c) \/ AddBytes(c) \/ InsertFails(c)
      PROVE  /\ \A f, g \in Linked' : flows'[f] = flows'[g] => f = g
             /\ \A d \in CPUs : pc'[d] # "idle" => received'[key'[d]] >= 1
  BY <1>3 DEF Untracked, AddPackets, AddBytes, InsertFails, Return, program, Linked, place, watch
<1>4. CASE Loader
  BY <1>4 DEF Loader, Top, NextKey, LookupKey, EndTop, Signal, program, Linked, place, watch
<1>5. CASE UNCHANGED vars
  BY <1>5 DEF vars, program, Linked, place, watch
<1>6. QED
  BY <1>1, <1>2, <1>3, <1>4, <1>5, <1>7 DEF Next, Program

\* A flow in the map is charged at most one packet per other CPU that is not its own
\* (main.bpf.c:72-75): an element is made anew for its flow, and only the CPUs that
\* looked it up before, for the flow that had it, still add to it.
THEOREM OwnPacketsBounded == Spec => []OwnPackets
<1>1. Init => Charges
  <2> SUFFICES ASSUME Init
               PROVE  Charges
    OBVIOUS
  <2>1. TypeOK
    BY InitTyped
  <2>2. Linked = {}
    BY DEF Init, Linked
  <2>3. QED
    BY <2>1, <2>2 DEF Charges, OwnPackets, Init
<1>2. Charges /\ TypeOK' /\ [Next]_vars => Charges'
  <2> SUFFICES ASSUME Charges, TypeOK', [Next]_vars,
                      NEW f \in Linked', NEW e \in Elements, e = flows'[f]
               PROVE  value'[e].packets + Cardinality(Holders(e)') <= received'[f] + NCPU - 1
    <3>1. Charges /\ TypeOK' /\ [Next]_vars /\ OwnPackets' => Charges'
      BY ChargesStep DEF Charges
    <3>2. TypeOK' => \A f \in Linked' : flows'[f] \in Elements
      BY DEF Linked, TypeOK
    <3>3. QED
      BY <3>1, <3>2 DEF OwnPackets, NCPU, Holders
  <2> DEFINE A == Holders(e)
             B == Holders(e)'
             Bound == value'[e].packets + Cardinality(B) <= received'[f] + NCPU - 1
  <2>1. /\ f \in Flows
        /\ value[e].packets \in Nat /\ value'[e].packets \in Nat
        /\ received[f] \in Nat /\ received'[f] \in Nat
    BY DEF Charges, TypeOK, Linked, Stats
  <2>2. /\ Cardinality(A) \in Nat /\ Cardinality(B) \in Nat /\ NCPU \in Nat
        /\ \A c \in CPUs : c \notin B => Cardinality(B) <= NCPU - 1
    BY HoldersAreCPUs, SubsetOfCPUs
  <2>3. flows'[f] = flows[f] =>
          f \in Linked /\ value[e].packets + Cardinality(A) <= received[f] + NCPU - 1
    BY <2>1 DEF Charges, OwnPackets, Linked
  <2>4. ASSUME flows'[f] = flows[f], value'[e].packets = value[e].packets,
               received'[f] >= received[f], B \subseteq A
        PROVE  Bound
    <3>1. Cardinality(B) <= Cardinality(A)
      BY <2>4, HoldersAreCPUs, SizeOfCPUs, SetAssumption
    <3>2. QED
      BY <2>1, <2>2, <2>3, <2>4, <3>1
  <2>5. ASSUME NEW c \in CPUs, NEW g \in Flows, NEW l \in Lengths, Lookup(c, g, l)
        PROVE  Bound
    <3>1. flows' = flows /\ value' = value
      BY <2>5 DEF Lookup, place
    <3>2. CASE g = f
      <4>1. received'[f] = received[f] + 1
        BY <2>5, <3>2 DEF Lookup, Charges, TypeOK, place
      <4>2. B \subseteq A \cup {c}
        BY <2>5 DEF Lookup, Holders, Charges, TypeOK
      <4>3. Cardinality(B) <= Cardinality(A) + 1
        BY <4>2, HoldersAreCPUs, SizeOfCPUs
      <4>4. QED
        BY <2>1, <2>2, <2>3, <3>1, <4>1, <4>3
    <3>3. CASE g # f
      <4>1. received'[f] = received[f]
        BY <2>5, <3>3 DEF Lookup, Charges, TypeOK
      <4>2. flows[g] # e \/ flows[g] = NULL
        BY <2>3, <3>1, <3>3 DEF Charges, Linked
      <4>3. B \subseteq A
        BY <2>1, <2>5, <4>2, NullAssumption DEF Lookup, Miss, Holders, Charges, TypeOK
      <4>4. QED
        BY <2>1, <2>4, <3>1, <4>1, <4>3
    <3>4. QED
      BY <3>2, <3>3
  <2>6. ASSUME NEW c \in CPUs, AddPackets(c)
        PROVE  Bound
    <3>1. flows' = flows /\ received' = received
      BY <2>6 DEF AddPackets, place
    <3>2. B \subseteq A \ {c}
      BY <2>6 DEF AddPackets, Holders, Charges, TypeOK, place
    <3>3. CASE s[c] = e
      <4>1. c \in A
        BY <2>6, <3>3 DEF AddPackets, Holders
      <4>2. Cardinality(B) <= Cardinality(A) - 1
        BY <3>2, <4>1, HoldersAreCPUs, SizeOfCPUs
      <4>3. value'[e].packets = value[e].packets + 1
        BY <2>1, <2>6, <3>3 DEF AddPackets, Charges, TypeOK, Stats
      <4>4. QED
        BY <2>1, <2>2, <2>3, <3>1, <4>2, <4>3
    <3>4. CASE s[c] # e
      <4>1. value'[e] = value[e]
        BY <2>1, <2>6, <3>4 DEF AddPackets, Charges, TypeOK
      <4>2. QED
        BY <2>1, <2>4, <3>1, <3>2, <4>1
    <3>5. QED
      BY <3>3, <3>4
  <2>7. ASSUME NEW c \in CPUs, NEW d \in Elements, Insert(c, d)
        PROVE  Bound
    <3>1. received' = received /\ c \notin B /\ B \subseteq A
      BY <2>7 DEF Insert, Return, Holders, Charges, TypeOK
    <3>2. CASE f = key[c]
      <4>1. e = d /\ value'[e].packets = 1
        BY <2>1, <2>7, <3>2 DEF Insert, Fresh, Charges, TypeOK
      <4>2. received[f] >= 1
        BY <2>7, <3>2 DEF Insert, Charges
      <4>3. QED
        BY <2>1, <2>2, <3>1, <4>1, <4>2
    <3>3. CASE f # key[c]
      <4>1. flows'[f] = flows[f] /\ e # d
        BY <2>1, <2>7, <3>3 DEF Insert, Range, Charges, TypeOK
      <4>2. value'[e] = value[e]
        BY <2>1, <2>7, <4>1 DEF Insert, Charges, TypeOK
      <4>3. QED
        BY <2>1, <2>4, <3>1, <4>1, <4>2
    <3>4. QED
      BY <3>2, <3>3
  <2>8. ASSUME NEW c \in CPUs, AddBytes(c)
        PROVE  Bound
    <3>1. flows' = flows /\ received' = received
      BY <2>8 DEF AddBytes, place
    <3>2. B \subseteq A
      BY <2>8 DEF AddBytes, Return, Holders, Charges, TypeOK, place
    <3>3. value'[e].packets = value[e].packets
      BY <2>1, <2>8 DEF AddBytes, Charges, TypeOK, Stats
    <3>4. QED
      BY <2>1, <2>4, <3>1, <3>2, <3>3
  <2>9. ASSUME NEW c \in CPUs, Untracked(c) \/ InsertFails(c)
        PROVE  Bound
    <3>1. flows' = flows /\ received' = received /\ value' = value
      BY <2>9 DEF Untracked, InsertFails, place
    <3>2. B \subseteq A
      BY <2>9 DEF Untracked, InsertFails, Return, program, Holders, Charges, TypeOK, place
    <3>3. QED
      BY <2>1, <2>4, <3>1, <3>2
  <2>10. ASSUME UNCHANGED <<program, flows, value, received>>
         PROVE  Bound
    BY <2>1, <2>4, <2>10 DEF program, Holders
  <2>14. ASSUME NEW c \in CPUs, NEW g \in Flows, Evict(c, g)
         PROVE  Bound
    <3>1. f # g
      BY <2>14 DEF Evict, Linked, Charges, TypeOK
    <3>2. /\ flows'[f] = flows[f] /\ value' = value /\ received' = received
          /\ B \subseteq A
      BY <2>14, <3>1 DEF Evict, program, Holders
    <3>3. QED
      BY <2>1, <2>4, <3>2
  <2>11. CASE Loader
    BY <2>10, <2>11 DEF Loader, Top, NextKey, LookupKey, EndTop, Signal, place, watch
  <2>12. CASE UNCHANGED vars
    BY <2>10, <2>12 DEF vars, place, watch
  <2>13. QED
    BY <2>5, <2>6, <2>7, <2>8, <2>9, <2>11, <2>12, <2>14 DEF Next, Program
<1>3. Charges => OwnPackets
  BY DEF Charges
<1>4. QED
  BY <1>1, <1>2, <1>3, TypeCorrect, PTL DEF Spec

----------------------------------------------------------------------------
(* The printed table.                                                      *)

\* A flow that is still to come, and one that will not come again.
Ahead(f) ==
  \/ Hash[f] > Hash[cursor]
  \/ Hash[f] = Hash[cursor] /\ (cursor \in Linked => since[f] < since[cursor])
Passed(f) ==
  \/ Hash[f] < Hash[cursor]
  \/ Hash[f] = Hash[cursor] /\ (f \in Linked => since[f] > since[cursor])

\* No two flows have the same place.
Placed ==
  /\ \A f \in Flows : since[f] <= metrics.new
  /\ \A f, g \in Linked : since[f] = since[g] => f = g

\* The flows that stay are ahead of the iterator's key, shown, or the key that is about
\* to be looked up; as long as that has not moved, the flows shown will not come again.
Table ==
  /\ stay \subseteq Linked
  /\ top = "idle" => stay = {} /\ cursor = NULL /\ shown = <<>>
  /\ cursor = NULL => shown = <<>> /\ top # "lookup"
  /\ cursor # NULL =>
       \A f \in stay : f \in Range(shown) \/ (f = cursor /\ top = "lookup") \/ Ahead(f)
  /\ IsInjective(shown) \/ jumped
  /\ cursor # NULL /\ ~jumped =>
       /\ cursor \in Linked
       /\ \A f \in Range(shown) : (f = cursor /\ top = "next") \/ Passed(f)

LEMMA RangeOfAppend ==
  ASSUME NEW S, NEW q \in Seq(S), NEW x \in S
  PROVE  /\ Range(Append(q, x)) = Range(q) \cup {x}
         /\ IsInjective(q) /\ x \notin Range(q) => IsInjective(Append(q, x))
<1>1. /\ DOMAIN Append(q, x) = DOMAIN q \cup {Len(q) + 1}
      /\ \A i \in DOMAIN q : Append(q, x)[i] = q[i]
      /\ Append(q, x)[Len(q) + 1] = x
  OBVIOUS
<1>2. QED
  BY <1>1 DEF Range, IsInjective

LEMMA NothingShown == IsInjective(<<>>) /\ Range(<<>>) = {}
BY DEF IsInjective, Range

\* An insertion has a place of its own, nearer the head than every other one's.
LEMMA PlacedStep == TypeOK /\ Placed /\ TypeOK' /\ [Next]_vars => Placed'
<1> SUFFICES ASSUME TypeOK, Placed, TypeOK', [Next]_vars
             PROVE  Placed'
  OBVIOUS
<1>0. metrics.new \in Nat /\ metrics'.new \in Nat
  BY DEF TypeOK, Metrics
<1>1. ASSUME UNCHANGED place, metrics'.new >= metrics.new
      PROVE  Placed'
  BY <1>0, <1>1 DEF Placed, place, Linked, TypeOK
<1>2. ASSUME NEW c \in CPUs, NEW e \in Elements, Insert(c, e)
      PROVE  Placed'
  <2> DEFINE n == metrics.new + 1
             k == key[c]
  <2>1. /\ since' = [since EXCEPT ![k] = n] /\ flows' = [flows EXCEPT ![k] = e]
        /\ metrics'.new = n /\ k \in Flows
    BY <1>2 DEF Insert, TypeOK, Metrics
  <2>2. \A f \in Flows : since[f] \in Nat /\ since[f] < n
    BY <1>0 DEF Placed, TypeOK
  <2>7. n \in Nat /\ since'[k] = n /\ \A f \in Flows \ {k} : since'[f] = since[f]
    BY <1>0, <2>1 DEF TypeOK
  <2> HIDE DEF n, k
  <2>3. \A f \in Flows : since'[f] <= metrics'.new
    BY <2>1, <2>2, <2>7 DEF TypeOK
  <2>4. \A f \in Linked' : f = k \/ f \in Linked
    BY <2>1 DEF Linked, TypeOK
  <2>5. \A f, g \in Linked' : since'[f] = since'[g] => f = g
    <3>1. ASSUME NEW f \in Linked', NEW g \in Linked', since'[f] = since'[g]
          PROVE  f = g
      <4>1. f \in Flows /\ g \in Flows
        BY DEF Linked
      <4>2. CASE f # k /\ g # k
        BY <2>4, <2>7, <3>1, <4>1, <4>2 DEF Placed
      <4>3. ASSUME NEW h \in Flows, h # k
            PROVE  since'[h] # since'[k]
        <5>1. since'[h] = since[h] /\ since[h] < n /\ since[h] \in Nat
          BY <2>2, <2>7, <4>3
        <5>2. QED
          BY <2>7, <5>1
      <4>4. QED
        BY <3>1, <4>1, <4>2, <4>3
    <3>2. QED
      BY <3>1
  <2>6. QED
    BY <2>3, <2>5 DEF Placed
<1>3. ASSUME NEW c \in CPUs, NEW f \in Flows, Evict(c, f)
      PROVE  Placed'
  <2>1. /\ metrics' = metrics /\ since'[f] = 0 /\ f \notin Linked'
        /\ \A g \in Flows \ {f} : since'[g] = since[g] /\ flows'[g] = flows[g]
    BY <1>3 DEF Evict, Linked, TypeOK
  <2>2. \A g \in Flows : since'[g] <= metrics'.new
    BY <1>0, <2>1 DEF Placed
  <2>3. \A g \in Linked' : g # f /\ g \in Linked /\ since'[g] = since[g]
    BY <2>1 DEF Linked
  <2>4. QED
    BY <2>2, <2>3 DEF Placed
<1>4. ASSUME NEW c \in CPUs, NEW f \in Flows, NEW l \in Lengths, Lookup(c, f, l)
      PROVE  UNCHANGED place /\ metrics'.new = metrics.new
  BY <1>4 DEF Lookup, Receive, TypeOK, Metrics
<1>5. ASSUME NEW c \in CPUs, Untracked(c) \/ AddPackets(c) \/ AddBytes(c) \/ InsertFails(c)
      PROVE  UNCHANGED place /\ metrics'.new >= metrics.new
  <2>1. UNCHANGED place
    BY <1>5 DEF Untracked, AddPackets, AddBytes, InsertFails
  <2>2. CASE Untracked(c)
    BY <1>0, <2>2 DEF Untracked, Receive, TypeOK, Metrics
  <2>3. CASE AddPackets(c)
    BY <1>0, <2>3 DEF AddPackets
  <2>4. CASE AddBytes(c)
    BY <1>0, <2>4 DEF AddBytes, TypeOK, Metrics
  <2>5. CASE InsertFails(c)
    BY <1>0, <2>5 DEF InsertFails, TypeOK, Metrics
  <2>6. QED
    BY <1>5, <2>1, <2>2, <2>3, <2>4, <2>5
<1>6. CASE Loader \/ UNCHANGED vars
  BY <1>0, <1>1, <1>6 DEF Loader, Top, NextKey, LookupKey, EndTop, Signal, vars
<1>7. QED
  BY <1>0, <1>1, <1>2, <1>3, <1>4, <1>5, <1>6 DEF Next, Program

\* What moves under the iterator: a flow that is evicted or inserted again.
LEMMA TableMoves ==
  ASSUME TypeOK, Table, NEW k \in Flows, Moved(k), UNCHANGED table,
         \A f \in Flows \ {k} : flows'[f] = flows[f] /\ since'[f] = since[f],
         k \in Linked' => \A f \in Flows \ {k} : since[f] < since'[k]
  PROVE  Table'
<1>1. /\ stay' = stay \ {k} /\ jumped' = (jumped \/ k = cursor)
      /\ UNCHANGED <<top, cursor, shown>>
  BY DEF Moved, table
<1>2. \A f \in Flows \ {k} : f \in Linked' <=> f \in Linked
  BY DEF Linked
<1>3. stay' \subseteq Linked'
  BY <1>1, <1>2 DEF Table, TypeOK
<1>4. ASSUME cursor # NULL, NEW f \in stay'
      PROVE  f \in Range(shown) \/ (f = cursor /\ top = "lookup") \/ Ahead(f)'
  <2>1. f \in stay /\ f \in Flows \ {k} /\ f \in Linked
    BY <1>1, <1>4 DEF Table, Linked
  <2>2. CASE f \in Range(shown) \/ (f = cursor /\ top = "lookup")
    BY <2>2
  <2>3. CASE Ahead(f)
    BY <1>1, <1>2, <1>4, <2>1, <2>3 DEF Ahead, TypeOK
  <2>4. QED
    BY <1>4, <2>1, <2>2, <2>3 DEF Table
<1>5. ASSUME cursor # NULL, ~jumped'
      PROVE  /\ cursor \in Linked'
             /\ \A f \in Range(shown) : (f = cursor /\ top = "next") \/ Passed(f)'
  <2>1. ~jumped /\ k # cursor /\ cursor \in Linked /\ cursor \in Flows
    BY <1>1, <1>5 DEF Table, TypeOK
  <2>2. since'[cursor] = since[cursor] /\ cursor \in Linked'
    BY <1>2, <2>1
  <2>3. ASSUME NEW f \in Range(shown)
        PROVE  (f = cursor /\ top = "next") \/ Passed(f)'
    <3>1. f \in Flows
      BY DEF TypeOK, Range
    <3>2. (f = cursor /\ top = "next") \/ Passed(f)
      BY <1>5, <2>1 DEF Table
    <3>3. QED
      BY <1>1, <1>2, <2>1, <2>2, <3>1, <3>2 DEF Passed
  <2>4. QED
    BY <2>2, <2>3
<1>6. QED
  BY <1>1, <1>3, <1>4, <1>5 DEF Table

\* The next key: nothing that stays is left out, nothing that was shown comes again.
LEMMA TableNext ==
  ASSUME TypeOK, Placed, Table, NEW k \in Flows, NextKey(k)
  PROVE  Table'
<1> USE HashAssumption
<1>1. /\ cursor' = k /\ top' = "lookup" /\ top = "next" /\ k # NULL
      /\ UNCHANGED <<shown, stay, jumped, flows, since>>
      /\ k \in After /\ \A g \in After : ~Before(g, k)
  BY NullAssumption DEF NextKey, place, watch
<1>2. k \in Linked /\ Linked' = Linked /\ Hash[k] \in Nat /\ since[k] \in Nat
  BY <1>1 DEF After, Linked, TypeOK
<1>3. ASSUME NEW f \in stay
      PROVE  f \in Range(shown) \/ f = k \/ Ahead(f)'
  <2>1. f \in Linked /\ f \in Flows /\ Hash[f] \in Nat /\ since[f] \in Nat
    BY DEF Table, TypeOK
  <2>2. CASE f \in After
    <3>1. Hash[k] < Hash[f] \/ (Hash[k] = Hash[f] /\ since[f] <= since[k])
      BY <1>1, <1>2, <2>1, <2>2 DEF Before
    <3>2. f = k \/ Hash[k] < Hash[f] \/ (Hash[k] = Hash[f] /\ since[f] < since[k])
      BY <1>2, <2>1, <3>1 DEF Placed
    <3>3. QED
      BY <1>1, <2>1, <3>2 DEF Ahead
  <2>3. CASE f \notin After
    <3>1. cursor # NULL /\ cursor \in Linked /\ cursor \in Flows /\ ~Before(cursor, f)
      BY <2>1, <2>3 DEF After, TypeOK
    <3>2. Hash[cursor] \in Nat /\ since[cursor] \in Nat
      BY <3>1 DEF TypeOK
    <3>3. ~Ahead(f)
      BY <2>1, <3>1, <3>2 DEF Ahead, Before
    <3>4. QED
      BY <1>1, <3>1, <3>3 DEF Table
  <2>4. QED
    BY <2>2, <2>3
<1>4. ASSUME ~jumped, NEW f \in Range(shown)
      PROVE  Passed(f)'
  <2>1. cursor # NULL /\ cursor \in Linked /\ cursor \in Flows
    BY <1>4, NothingShown DEF Table, TypeOK
  <2>2. f = cursor \/ Passed(f)
    BY <1>4, <2>1 DEF Table
  <2>3. Before(cursor, k)
    BY <1>1, <2>1 DEF After
  <2>4. f \in Flows /\ Hash[f] \in Nat /\ since[f] \in Nat
    BY DEF Range, TypeOK
  <2>5. Hash[cursor] \in Nat /\ since[cursor] \in Nat
    BY <2>1 DEF TypeOK
  <2>6. CASE f = cursor
    BY <1>1, <1>2, <2>3, <2>6 DEF Before, Passed
  <2>7. CASE Passed(f)
    BY <1>1, <1>2, <2>3, <2>4, <2>5, <2>7 DEF Before, Passed
  <2>8. QED
    BY <2>2, <2>6, <2>7
<1>5. QED
  BY <1>1, <1>2, <1>3, <1>4 DEF Table

\* The lookup of the key: shown now if it is there, and not shown before.
LEMMA TableLookup ==
  ASSUME TypeOK, Table, LookupKey
  PROVE  Table'
<1> USE HashAssumption
<1>1. /\ UNCHANGED <<cursor, stay, jumped, flows, since>> /\ top' = "next" /\ top = "lookup"
      /\ shown' = IF cursor \in Linked THEN Append(shown, cursor) ELSE shown
  BY DEF LookupKey, place, watch
<1>2. cursor # NULL /\ cursor \in Flows /\ Linked' = Linked
  BY <1>1 DEF Table, TypeOK, Linked
<1>3. CASE cursor \in Linked
  <2>1. /\ Range(shown') = Range(shown) \cup {cursor}
        /\ IsInjective(shown) /\ cursor \notin Range(shown) => IsInjective(shown')
    BY <1>1, <1>2, <1>3, RangeOfAppend DEF TypeOK
  <2>2. \A f : (Ahead(f)' <=> Ahead(f)) /\ (Passed(f)' <=> Passed(f))
    BY <1>1, <1>2 DEF Ahead, Passed
  <2>3. ~jumped => cursor \notin Range(shown)
    <3>1. ~Passed(cursor)
      BY <1>2, <1>3 DEF Passed, TypeOK
    <3>2. QED
      BY <1>1, <1>2, <3>1 DEF Table
  <2>4. QED
    BY <1>1, <1>2, <1>3, <2>1, <2>2, <2>3 DEF Table
<1>4. CASE cursor \notin Linked
  <2>1. shown' = shown /\ jumped /\ cursor \notin stay
    BY <1>1, <1>2, <1>4 DEF Table
  <2>2. \A f : Ahead(f)' <=> Ahead(f)
    BY <1>1, <1>2 DEF Ahead
  <2>3. QED
    BY <1>1, <1>2, <2>1, <2>2 DEF Table
<1>5. QED
  BY <1>3, <1>4

\* The table shows a flow twice only if the flow it stood on was evicted or inserted
\* again, and has shown every flow that stayed when it runs out of keys (main.go:107,
\* main.bpf.c:85).
THEOREM TableIsExplained == Spec => []TableExplained
<1>1. Init => Placed /\ Table
  <2> SUFFICES ASSUME Init
               PROVE  Placed /\ Table
    OBVIOUS
  <2>1. Linked = {}
    BY DEF Init, Linked
  <2>2. QED
    BY <2>1, NothingShown DEF Init, Placed, Table
<1>2. TypeOK /\ Placed /\ Table /\ TypeOK' /\ [Next]_vars => Table'
  <2> SUFFICES ASSUME TypeOK, Placed, Table, TypeOK', [Next]_vars
               PROVE  Table'
    OBVIOUS
  <2>1. ASSUME UNCHANGED <<place, table, watch>>
        PROVE  Table'
    BY <2>1 DEF place, table, watch, Table, Linked, Ahead, Passed
  <2>2. ASSUME NEW c \in CPUs, NEW e \in Elements, Insert(c, e)
        PROVE  Table'
    <3>1. /\ key[c] \in Flows /\ Moved(key[c]) /\ UNCHANGED table
          /\ since'[key[c]] = metrics.new + 1
          /\ \A f \in Flows \ {key[c]} : flows'[f] = flows[f] /\ since'[f] = since[f]
      BY <2>2 DEF Insert, TypeOK
    <3>2. \A f \in Flows : since[f] < metrics.new + 1
      <4>1. metrics.new \in Nat /\ \A f \in Flows : since[f] \in Nat
        BY DEF TypeOK, Metrics
      <4>2. \A f \in Flows : since[f] <= metrics.new
        BY DEF Placed
      <4>3. QED
        BY <4>1, <4>2
    <3>3. QED
      BY <3>1, <3>2, TableMoves
  <2>3. ASSUME NEW c \in CPUs, NEW f \in Flows, Evict(c, f)
        PROVE  Table'
    <3>1. /\ Moved(f) /\ UNCHANGED table /\ f \notin Linked'
          /\ \A g \in Flows \ {f} : flows'[g] = flows[g] /\ since'[g] = since[g]
      BY <2>3 DEF Evict, Linked, TypeOK
    <3>2. QED
      BY <3>1, TableMoves
  <2>4. CASE Top \/ Signal
    BY <2>4, NothingShown DEF Top, Signal, StartTop, Table, Linked, place
  <2>5. CASE EndTop
    BY <2>5, NothingShown DEF EndTop, Table
  <2>6. ASSUME NEW c \in CPUs,
               \/ Untracked(c) \/ AddPackets(c) \/ AddBytes(c) \/ InsertFails(c)
               \/ \E f \in Flows, l \in Lengths : Lookup(c, f, l)
        PROVE  Table'
    BY <2>1, <2>6 DEF Untracked, AddPackets, AddBytes, InsertFails, Lookup
  <2>7. CASE UNCHANGED vars
    BY <2>1, <2>7 DEF vars
  <2>8. QED
    BY <2>2, <2>3, <2>4, <2>5, <2>6, <2>7, TableNext, TableLookup DEF Next, Program, Loader
<1>3. TypeOK /\ Table => TableExplained
  <2> SUFFICES ASSUME TypeOK, Table, top = "next", After = {}, NEW f \in stay
               PROVE  f \in Range(shown)
    BY DEF TableExplained, Table
  <2>1. f \in Linked /\ cursor # NULL /\ cursor \in Linked /\ ~Before(cursor, f)
    BY DEF Table, After
  <2>2. ~Ahead(f)
    BY <2>1, HashAssumption DEF Ahead, Before, Linked, TypeOK
  <2>3. QED
    BY <2>1, <2>2 DEF Table
<1>4. QED
  BY <1>1, <1>2, <1>3, PlacedStep, TypeCorrect, PTL DEF Spec

=============================================================================
