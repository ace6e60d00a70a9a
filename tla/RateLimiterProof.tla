-------------------------- MODULE RateLimiterProof --------------------------
(***************************************************************************)
(* The limiter of series 11 and the egress hook that it shares with 10.    *)
(*                                                                         *)
(* For any number of CPUs, sources, elements and packets: the limiter's    *)
(* counters never pass RATE_LIMIT by more than the other CPUs, a drop on a *)
(* source's own counter means that nearly RATE_LIMIT of its packets went   *)
(* through in the interval, and what an interval lets through is bounded.  *)
(*                                                                         *)
(* For any number of loaders: what a killed or failed one leaves on the    *)
(* hook is explained and a start recovers from it; and the queue of series *)
(* 10 is only filled.                                                      *)
(***************************************************************************)
EXTENDS RateLimiter, TcEgress, FiniteSetTheorems, TLAPS

----------------------------------------------------------------------------
(* Sets of CPUs: those that are about to do something to an element.       *)

\* A set of CPUs is finite and no larger than CPUs; smaller if one is missing.
LEMMA SubsetOfCPUs ==
  ASSUME NEW S, S \subseteq CPUs
  PROVE  /\ IsFiniteSet(S)
         /\ Cardinality(S) \in Nat
         /\ NCPU \in Nat \ {0}
         /\ Cardinality(S) <= NCPU
         /\ \A c \in CPUs : c \notin S => Cardinality(S) <= NCPU - 1
<1>1. IsFiniteSet(S) /\ Cardinality(S) <= NCPU /\ (Cardinality(S) = NCPU => S = CPUs)
  BY CPUsAssumption, FS_Subset DEF NCPU
<1>2. Cardinality(S) \in Nat /\ NCPU \in Nat
  BY <1>1, CPUsAssumption, FS_CardinalityType DEF NCPU
<1>3. NCPU # 0
  BY CPUsAssumption, FS_EmptySet DEF NCPU
<1>4. QED
  BY <1>1, <1>2, <1>3

\* Taking one CPU out of a set of CPUs that holds it makes the set smaller by one.
LEMMA OneLess ==
  ASSUME NEW S, S \subseteq CPUs, NEW c \in S
  PROVE  Cardinality(S \ {c}) = Cardinality(S) - 1
BY SubsetOfCPUs, FS_RemoveElement

----------------------------------------------------------------------------
(* Type correctness.                                                       *)

\* Every variable keeps its type, and an activation that passed the lookup has
\* a source, and a pointer where it is going to follow one (main.bpf.c:49-55).
THEOREM TypeCorrect == Spec => []TypeOK
<1>1. Init => TypeOK
  BY LimitAssumption DEF Init, TypeOK
<1>2. TypeOK /\ [Next]_vars => TypeOK'
  <2> SUFFICES ASSUME TypeOK, [Next]_vars
               PROVE  TypeOK'
    OBVIOUS
  <2> USE DEF TypeOK
  <2>1. ASSUME NEW c \in CPUs, NEW s \in Sources, Enter(c, s)
        PROVE  TypeOK'
    BY <2>1, NullAssumption DEF Enter, loader
  <2>2. ASSUME NEW c \in CPUs, Drop(c)
        PROVE  TypeOK'
    BY <2>2 DEF Drop, Return, loader
  <2>3. ASSUME NEW c \in CPUs, UnderLimit(c)
        PROVE  TypeOK'
    BY <2>3 DEF UnderLimit, loader
  <2>4. ASSUME NEW c \in CPUs, Add(c)
        PROVE  TypeOK'
    BY <2>4 DEF Add, Admit, Return, loader
  <2>5. ASSUME NEW c \in CPUs, Create(c)
        PROVE  TypeOK'
    BY <2>5 DEF Create, Admit, Return, Free, loader
  <2>6. ASSUME NEW c \in CPUs, Replace(c)
        PROVE  TypeOK'
    BY <2>6 DEF Replace, Admit, Return, loader
  <2>7. ASSUME NEW c \in CPUs, MapFull(c)
        PROVE  TypeOK'
    BY <2>7 DEF MapFull, Admit, Return, loader
  <2>8. CASE Interval
    <3>1. CASE Tick
      BY <3>1 DEF Tick, Linked, kernel
    <3>2. CASE EndCollect
      BY <3>2 DEF EndCollect, kernel
    <3>3. CASE EndReset
      BY <3>3 DEF EndReset, kernel
    <3>4. ASSUME NEW s \in Sources, Collect(s)
          PROVE  TypeOK'
      BY <3>4 DEF Collect, kernel
    <3>5. ASSUME NEW s \in Sources, Delete(s)
          PROVE  TypeOK'
      BY <3>5 DEF Delete
    <3>6. QED
      BY <2>8, <3>1, <3>2, <3>3, <3>4, <3>5 DEF Interval
  <2>9. CASE Shutdown
    BY <2>9 DEF Shutdown, kernel
  <2>10. CASE UNCHANGED vars
    BY <2>10 DEF vars
  <2>11. QED
    BY <2>1, <2>2, <2>3, <2>4, <2>5, <2>6, <2>7, <2>8, <2>9, <2>10 DEF Next, Program
<1>3. QED
  BY <1>1, <1>2, PTL DEF Spec

----------------------------------------------------------------------------
(* The bound on the counters.                                              *)

LEMMA AddersAreCPUs ==
  ASSUME NEW e
  PROVE  /\ Adders(e) \subseteq CPUs
         /\ IsFiniteSet(Adders(e))
         /\ Cardinality(Adders(e)) \in 0 .. NCPU
         /\ \A c \in CPUs : c \notin Adders(e) => Cardinality(Adders(e)) <= NCPU - 1
<1>1. Adders(e) \subseteq CPUs
  BY DEF Adders
<1>2. QED
  BY <1>1, SubsetOfCPUs

ElementBound == TypeOK /\ ElementBounded

\* Every element of the pool, its decided adds included, stays within the limit
\* plus the other CPUs (main.bpf.c:51, :55): an add is decided only below the
\* limit, and an element that changes hands restarts at 1.
THEOREM ElementsBounded == Spec => []ElementBounded
<1>1. Init => ElementBounded
  <2> SUFFICES ASSUME Init, NEW e \in Elements
               PROVE  value[e] + Cardinality(Adders(e)) <= RATE_LIMIT + NCPU - 1
    BY DEF ElementBounded
  <2>1. Adders(e) = {} /\ value[e] = 0
    BY DEF Init, Adders
  <2>2. NCPU \in Nat \ {0}
    BY SubsetOfCPUs
  <2>3. QED
    BY <2>1, <2>2, FS_EmptySet, LimitAssumption
<1>2. ElementBound /\ [Next]_vars => ElementBounded'
  <2> SUFFICES ASSUME TypeOK, ElementBounded, [Next]_vars, NEW e \in Elements
               PROVE  value'[e] + Cardinality(Adders(e)') <= RATE_LIMIT + NCPU - 1
    BY DEF ElementBounded, ElementBound, NCPU
  <2> DEFINE A == Adders(e)
             B == Adders(e)'
  <2>0. /\ value[e] \in Nat /\ RATE_LIMIT \in Nat \ {0} /\ NCPU \in Nat \ {0}
        /\ value[e] + Cardinality(A) <= RATE_LIMIT + NCPU - 1
        /\ Cardinality(A) \in 0 .. NCPU
        /\ B \subseteq CPUs /\ Cardinality(B) \in 0 .. NCPU
    <3>1. B \subseteq CPUs
      BY DEF Adders
    <3>2. QED
      BY <3>1, SubsetOfCPUs, AddersAreCPUs, LimitAssumption DEF TypeOK, ElementBounded
  <2>1. SUFFICES \/ value'[e] = value[e] /\ B \subseteq A
                 \/ value'[e] <= RATE_LIMIT - 1 /\ value'[e] \in Nat
                 \/ value'[e] = 1 /\ Cardinality(B) <= NCPU - 1
                 \/ value'[e] = value[e] + 1 /\ Cardinality(B) = Cardinality(A) - 1
    <3>1. ASSUME B \subseteq A
          PROVE  Cardinality(B) <= Cardinality(A)
      BY <3>1, AddersAreCPUs, FS_Subset
    <3>2. QED
      BY <2>0, <3>1
  <2>2. ASSUME NEW c \in CPUs, NEW s \in Sources, Enter(c, s)
        PROVE  value'[e] = value[e] /\ B \subseteq A
    BY <2>2 DEF Enter, Adders, TypeOK
  <2>3. ASSUME NEW c \in CPUs, Drop(c)
        PROVE  value'[e] = value[e] /\ B \subseteq A
    BY <2>3 DEF Drop, Return, Adders, TypeOK
  <2>4. ASSUME NEW c \in CPUs, UnderLimit(c)
        PROVE  \/ value'[e] = value[e] /\ B \subseteq A
               \/ value'[e] <= RATE_LIMIT - 1 /\ value'[e] \in Nat
    <3>1. CASE count[c] = e
      BY <2>0, <2>4, <3>1 DEF UnderLimit
    <3>2. CASE count[c] # e
      BY <2>4, <3>2 DEF UnderLimit, Adders, TypeOK
    <3>3. QED
      BY <3>1, <3>2
  <2>5. ASSUME NEW c \in CPUs, Add(c)
        PROVE  \/ value'[e] = value[e] /\ B \subseteq A
               \/ value'[e] = value[e] + 1 /\ Cardinality(B) = Cardinality(A) - 1
    <3>1. CASE count[c] = e
      <4>1. B = A \ {c} /\ c \in A /\ value'[e] = value[e] + 1
        BY <2>5, <3>1 DEF Add, Admit, Return, Adders, TypeOK
      <4>2. QED
        BY <4>1, AddersAreCPUs, OneLess
    <3>2. CASE count[c] # e
      BY <2>5, <3>2 DEF Add, Admit, Return, Adders, TypeOK
    <3>3. QED
      BY <3>1, <3>2
  <2>6. ASSUME NEW c \in CPUs, Create(c)
        PROVE  \/ value'[e] = value[e] /\ B \subseteq A
               \/ value'[e] = 1 /\ Cardinality(B) <= NCPU - 1
    <3>1. PICK f \in Elements : value' = [value EXCEPT ![f] = 1]
      BY <2>6 DEF Create, Free
    <3>2. B \subseteq A /\ c \notin B
      BY <2>6 DEF Create, Admit, Return, Adders, TypeOK
    <3>3. QED
      BY <2>0, <3>1, <3>2, SubsetOfCPUs DEF TypeOK
  <2>7. ASSUME NEW c \in CPUs, Replace(c)
        PROVE  \/ value'[e] = value[e] /\ B \subseteq A
               \/ value'[e] = 1 /\ Cardinality(B) <= NCPU - 1
    <3>1. value' = [value EXCEPT ![spare[c]] = 1]
      BY <2>7 DEF Replace
    <3>2. B \subseteq A /\ c \notin B
      BY <2>7 DEF Replace, Admit, Return, Adders, TypeOK
    <3>3. QED
      BY <2>0, <3>1, <3>2, SubsetOfCPUs DEF TypeOK
  <2>8. ASSUME NEW c \in CPUs, MapFull(c)
        PROVE  value'[e] = value[e] /\ B \subseteq A
    BY <2>8 DEF MapFull, Admit, Return, Adders, TypeOK
  <2>9. CASE Interval \/ Shutdown
    BY <2>9 DEF Interval, Tick, EndCollect, EndReset, Collect, Delete, Shutdown, kernel, Adders
  <2>10. CASE UNCHANGED vars
    BY <2>10 DEF vars, Adders
  <2>11. QED
    BY <2>2, <2>3, <2>4, <2>5, <2>6, <2>7, <2>8, <2>9, <2>10 DEF Next, Program
<1>3. QED
  BY <1>1, <1>2, TypeCorrect, PTL DEF Spec, ElementBound

\* The counter of a source never passes RATE_LIMIT + NCPU - 1 (main.bpf.c:51-55).
THEOREM CountersBounded == Spec => []CounterBounded
<1>1. TypeOK /\ ElementBounded => CounterBounded
  <2> SUFFICES ASSUME TypeOK, ElementBounded, NEW s \in Linked
               PROVE  value[pkt_count[s]] <= RATE_LIMIT + NCPU - 1
    BY DEF CounterBounded
  <2> DEFINE e == pkt_count[s]
  <2>1. e \in Elements /\ value[e] \in Nat
    BY DEF Linked, TypeOK
  <2>2. value[e] + Cardinality(Adders(e)) <= RATE_LIMIT + NCPU - 1
    BY <2>1 DEF ElementBounded
  <2>3. Cardinality(Adders(e)) \in Nat /\ NCPU \in Nat /\ RATE_LIMIT \in Nat
    BY AddersAreCPUs, SubsetOfCPUs, LimitAssumption
  <2>4. QED
    BY <2>1, <2>2, <2>3
<1>2. QED
  BY <1>1, TypeCorrect, ElementsBounded, PTL

----------------------------------------------------------------------------
(* What a drop says about the packets of the interval.                     *)

\* An element belongs to one key or to one CPU's spare place, never to two.
THEOREM OwnersDistinct == Spec => []OneOwner
<1>1. Init => OneOwner
  BY DEF Init, OneOwner, Linked
<1>2. TypeOK /\ OneOwner /\ [Next]_vars => OneOwner'
  <2> SUFFICES ASSUME TypeOK, OneOwner, [Next]_vars
               PROVE  OneOwner'
    OBVIOUS
  <2>1. CASE UNCHANGED <<pkt_count, spare>>
    BY <2>1 DEF OneOwner, Linked
  <2>2. ASSUME NEW c \in CPUs, Create(c)
        PROVE  OneOwner'
    <3>1. PICK e \in Free : pkt_count' = [pkt_count EXCEPT ![src_ip[c]] = e]
      BY <2>2 DEF Create
    <3>2. UNCHANGED spare
      BY <2>2 DEF Create
    <3>3. QED
      BY <3>1, <3>2 DEF OneOwner, Linked, Free, TypeOK
  <2>3. ASSUME NEW c \in CPUs, Replace(c)
        PROVE  OneOwner'
    <3> DEFINE s == src_ip[c]
    <3>1. /\ s \in Linked
          /\ pkt_count' = [pkt_count EXCEPT ![s] = spare[c]]
          /\ spare' = [spare EXCEPT ![c] = pkt_count[s]]
      BY <2>3 DEF Replace, Linked, TypeOK
    <3>2. Linked' \subseteq Linked
      BY <3>1 DEF Linked, TypeOK
    <3>3. QED
      BY <3>1, <3>2 DEF OneOwner, Linked, TypeOK
  <2>4. ASSUME NEW s \in Sources, Delete(s)
        PROVE  OneOwner'
    BY <2>4 DEF Delete, OneOwner, Linked, TypeOK
  <2>5. ASSUME NEW c \in CPUs,
               \/ \E s \in Sources : Enter(c, s)
               \/ Drop(c) \/ UnderLimit(c) \/ Add(c) \/ MapFull(c)
        PROVE  UNCHANGED <<pkt_count, spare>>
    BY <2>5 DEF Enter, Drop, UnderLimit, Add, MapFull
  <2>6. CASE Tick \/ EndCollect \/ EndReset \/ Shutdown \/ \E s \in Sources : Collect(s)
    BY <2>1, <2>6 DEF Tick, EndCollect, EndReset, Shutdown, Collect, kernel
  <2>7. CASE UNCHANGED vars
    BY <2>1, <2>7 DEF vars
  <2>8. QED
    BY <2>1, <2>2, <2>3, <2>4, <2>5, <2>6, <2>7 DEF Next, Program, Interval
<1>3. QED
  BY <1>1, <1>2, TypeCorrect, PTL DEF Spec

LEMMA ForeignAreCPUs ==
  ASSUME NEW e, NEW s
  PROVE  /\ Foreign(e, s) \subseteq CPUs
         /\ IsFiniteSet(Foreign(e, s))
         /\ Cardinality(Foreign(e, s)) \in 0 .. NCPU
<1>1. Foreign(e, s) \subseteq CPUs
  BY DEF Foreign
<1>2. QED
  BY <1>1, SubsetOfCPUs

ChargeBound == TypeOK /\ OneOwner /\ ChargedFairly

\* A source's counter never exceeds what it got in the interval by more than one
\* for each of the other CPUs: only a pointer kept from before its element was
\* recycled (main.bpf.c:49, :55) charges it for another source.
THEOREM Charged == Spec => []ChargedFairly
<1>1. Init => ChargedFairly
  BY DEF Init, ChargedFairly, Linked
<1>2. ChargeBound /\ OneOwner' /\ TypeOK' /\ [Next]_vars => ChargedFairly'
  <2> SUFFICES ASSUME TypeOK, OneOwner, ChargedFairly, OneOwner', TypeOK', [Next]_vars,
                      NEW s \in Linked'
               PROVE  value'[pkt_count'[s]] + Cardinality(Foreign(pkt_count[s], s)')
                        <= admitted'[s] + NCPU - 1
    BY DEF ChargeBound, ChargedFairly, NCPU
  <2> DEFINE e == pkt_count'[s]
             F == Foreign(pkt_count[s], s)
             G == Foreign(pkt_count[s], s)'
             Kept == s \in Linked /\ pkt_count'[s] = pkt_count[s]
             Same == Kept /\ value'[e] = value[e] /\ G \subseteq F
                       /\ admitted'[s] >= admitted[s]
             Mine == Kept /\ value'[e] = value[e] + 1 /\ G \subseteq F
                       /\ admitted'[s] = admitted[s] + 1
             Others == Kept /\ value'[e] = value[e] + 1 /\ admitted'[s] = admitted[s]
                         /\ Cardinality(G) = Cardinality(F) - 1
             Fresh == value'[e] = 1 /\ Cardinality(G) <= NCPU - 1 /\ admitted'[s] >= 1
  <2>0. /\ s \in Sources /\ e \in Elements
        /\ value'[e] \in Nat /\ value[e] \in Nat /\ NCPU \in Nat \ {0}
        /\ admitted[s] \in Nat /\ admitted'[s] \in Nat
        /\ F \subseteq CPUs /\ Cardinality(F) \in 0 .. NCPU
        /\ G \subseteq CPUs /\ Cardinality(G) \in 0 .. NCPU
        /\ s \in Linked => value[pkt_count[s]] + Cardinality(F) <= admitted[s] + NCPU - 1
    <3>1. G \subseteq CPUs
      BY DEF Foreign
    <3>2. s \in Sources /\ e \in Elements
      BY DEF Linked, TypeOK
    <3>3. QED
      BY <3>1, <3>2, SubsetOfCPUs, ForeignAreCPUs DEF TypeOK, ChargedFairly
  <2>1. SUFFICES Same \/ Mine \/ Others \/ Fresh
    <3>1. ASSUME G \subseteq F
          PROVE  Cardinality(G) <= Cardinality(F)
      BY <3>1, ForeignAreCPUs, FS_Subset
    <3>2. QED
      BY <2>0, <3>1
  <2> HIDE DEF Same, Mine, Others, Fresh
  <2>2. ASSUME NEW c \in CPUs, NEW t \in Sources, Enter(c, t)
        PROVE  Same
    <3>1. /\ UNCHANGED <<pkt_count, value, admitted>>
          /\ s \in Linked
      BY <2>2 DEF Enter, Linked
    <3>2. src_ip' = [src_ip EXCEPT ![c] = t] /\ count' = [count EXCEPT ![c] = pkt_count[t]]
      BY <2>2 DEF Enter
    <3>3. pkt_count[t] = pkt_count[s] => t = s
      BY <2>0, <3>1 DEF OneOwner, Linked
    <3>4. \A d \in CPUs \ {c} : pc'[d] = pc[d] /\ count'[d] = count[d] /\ src_ip'[d] = src_ip[d]
      BY <2>2, <3>2 DEF Enter, TypeOK
    <3>5. c \notin G
      BY <3>1, <3>2, <3>3 DEF Foreign, TypeOK
    <3>6. QED
      BY <2>0, <3>1, <3>4, <3>5 DEF Same, Foreign
  <2>3. ASSUME NEW c \in CPUs, Drop(c)
        PROVE  Same
    BY <2>0, <2>3 DEF Drop, Return, Linked, Same, Foreign, TypeOK
  <2>4. ASSUME NEW c \in CPUs, UnderLimit(c)
        PROVE  Same
    BY <2>0, <2>4 DEF UnderLimit, Linked, Same, Foreign, TypeOK
  <2>5. ASSUME NEW c \in CPUs, Add(c)
        PROVE  Same \/ Mine \/ Others
    <3>1. /\ pkt_count' = pkt_count /\ s \in Linked
          /\ value' = [value EXCEPT ![count[c]] = @ + 1]
          /\ admitted' = [admitted EXCEPT ![src_ip[c]] = @ + 1]
          /\ pc[c] = "add" /\ count[c] \in Elements /\ src_ip[c] \in Sources
      BY <2>5 DEF Add, Admit, Linked, TypeOK
    <3>2. G = F \ {c}
      BY <2>5 DEF Add, Admit, Return, Foreign, TypeOK
    <3>3. admitted'[s] = IF src_ip[c] = s THEN admitted[s] + 1 ELSE admitted[s]
      BY <2>0, <3>1 DEF TypeOK
    <3>4. value'[e] = IF count[c] = e THEN value[e] + 1 ELSE value[e]
      BY <2>0, <3>1 DEF TypeOK
    <3>5. CASE count[c] # e
      BY <2>0, <3>1, <3>2, <3>3, <3>4, <3>5 DEF Same
    <3>6. CASE count[c] = e /\ src_ip[c] = s
      BY <2>0, <3>1, <3>2, <3>3, <3>4, <3>6 DEF Mine
    <3>7. CASE count[c] = e /\ src_ip[c] # s
      <4>1. c \in F
        BY <3>1, <3>7 DEF Foreign
      <4>2. Cardinality(G) = Cardinality(F) - 1
        BY <3>2, <4>1, ForeignAreCPUs, OneLess
      <4>3. QED
        BY <3>1, <3>3, <3>4, <3>7, <4>2 DEF Others
    <3>8. QED
      BY <3>5, <3>6, <3>7
  <2>6. ASSUME NEW c \in CPUs, NEW f \in Elements, src_ip[c] \in Sources,
               pc[c] = "update", Admit(c),
               pkt_count' = [pkt_count EXCEPT ![src_ip[c]] = f],
               value' = [value EXCEPT ![f] = 1]
        PROVE  Same \/ Fresh
    <3>1. c \notin G /\ (pkt_count'[s] = pkt_count[s] => G \subseteq F)
      BY <2>6 DEF Admit, Return, Foreign, TypeOK
    <3>2. CASE src_ip[c] = s
      <4>1. e = f /\ value'[e] = 1
        BY <2>0, <2>6, <3>2 DEF TypeOK
      <4>2. admitted'[s] = admitted[s] + 1
        BY <2>0, <2>6, <3>2 DEF Admit, TypeOK
      <4>3. Cardinality(G) <= NCPU - 1
        BY <2>0, <3>1, SubsetOfCPUs
      <4>4. QED
        BY <2>0, <4>1, <4>2, <4>3 DEF Fresh
    <3>3. CASE src_ip[c] # s
      <4>1. Kept /\ admitted'[s] = admitted[s]
        BY <2>0, <2>6, <3>3 DEF Linked, Admit, TypeOK
      <4>2. e # f
        BY <2>0, <2>6, <3>3, NullAssumption DEF OneOwner, Linked, TypeOK
      <4>3. QED
        BY <2>0, <2>6, <3>1, <4>1, <4>2 DEF Same, TypeOK
    <3>4. QED
      BY <3>2, <3>3
  <2>7. ASSUME NEW c \in CPUs, Create(c)
        PROVE  Same \/ Fresh
    BY <2>6, <2>7 DEF Create, Free, TypeOK
  <2>8. ASSUME NEW c \in CPUs, Replace(c)
        PROVE  Same \/ Fresh
    BY <2>6, <2>8 DEF Replace, TypeOK
  <2>9. ASSUME NEW c \in CPUs, MapFull(c)
        PROVE  Same
    BY <2>0, <2>9 DEF MapFull, Admit, Return, Linked, Same, Foreign, TypeOK
  <2>10. ASSUME NEW t \in Sources, Delete(t)
         PROVE  Same
    BY <2>0, <2>10 DEF Delete, Linked, Same, Foreign, TypeOK
  <2>11. CASE Tick \/ EndCollect \/ EndReset \/ Shutdown \/ \E t \in Sources : Collect(t)
    BY <2>0, <2>11 DEF Tick, EndCollect, EndReset, Shutdown, Collect, kernel, Linked, Same, Foreign
  <2>12. CASE UNCHANGED vars
    BY <2>0, <2>12 DEF vars, Linked, Same, Foreign
  <2>13. QED
    BY <2>2, <2>3, <2>4, <2>5, <2>7, <2>8, <2>9, <2>10, <2>11, <2>12
       DEF Next, Program, Interval
<1>3. QED
  BY <1>1, <1>2, TypeCorrect, OwnersDistinct, PTL DEF Spec, ChargeBound

\* The source of a packet that is dropped on its own counter has had at least
\* RATE_LIMIT packets through in the interval, one less for each of the other
\* CPUs (main.bpf.c:49-53).
THEOREM DropsJustified == Spec => DropsNearLimit
<1> DEFINE D(c) == Drop(c) /\ count[c] = pkt_count[src_ip[c]]
                     => admitted[src_ip[c]] >= RATE_LIMIT - (NCPU - 1)
<1>1. ASSUME TypeOK, ChargedFairly, NEW c \in CPUs
      PROVE  D(c)
  <2> SUFFICES ASSUME Drop(c), count[c] = pkt_count[src_ip[c]]
               PROVE  admitted[src_ip[c]] >= RATE_LIMIT - (NCPU - 1)
    OBVIOUS
  <2> DEFINE s == src_ip[c]
             e == pkt_count[s]
  <2>1. s \in Sources /\ e \in Elements /\ value[e] >= RATE_LIMIT
    BY <1>1 DEF Drop, TypeOK
  <2>2. s \in Linked
    BY <2>1, NullAssumption DEF Linked
  <2>3. value[e] + Cardinality(Foreign(e, s)) <= admitted[s] + NCPU - 1
    BY <2>2, <1>1 DEF ChargedFairly
  <2>4. /\ value[e] \in Nat /\ admitted[s] \in Nat /\ RATE_LIMIT \in Nat /\ NCPU \in Nat
        /\ Cardinality(Foreign(e, s)) \in Nat
    BY <2>1, <1>1, ForeignAreCPUs, SubsetOfCPUs, LimitAssumption DEF TypeOK
  <2>5. QED
    BY <2>1, <2>3, <2>4
<1>2. TypeOK /\ ChargedFairly => \A c \in CPUs : D(c)
  BY <1>1
<1>3. QED
  BY <1>2, TypeCorrect, Charged, PTL DEF DropsNearLimit

----------------------------------------------------------------------------
(* The packets of one interval.                                            *)

\* Two sets of CPUs that share none hold together at most every CPU, and one less
\* when some CPU is in neither.
LEMMA DisjointCPUs ==
  ASSUME NEW S, NEW T, S \subseteq CPUs, T \subseteq CPUs, S \cap T = {}
  PROVE  /\ Cardinality(S) + Cardinality(T) <= NCPU
         /\ \A c \in CPUs : c \notin S /\ c \notin T
              => Cardinality(S) + Cardinality(T) <= NCPU - 1
<1>1. IsFiniteSet(S) /\ IsFiniteSet(T) /\ Cardinality(S) \in Nat /\ Cardinality(T) \in Nat
  BY SubsetOfCPUs
<1>2. Cardinality(S \cup T) = Cardinality(S) + Cardinality(T)
  <2>1. Cardinality(S \cup T) = Cardinality(S) + Cardinality(T) - Cardinality(S \cap T)
    BY <1>1, FS_Union
  <2>2. Cardinality(S \cap T) = 0
    BY FS_EmptySet
  <2>3. QED
    BY <1>1, <2>1, <2>2
<1>3. S \cup T \subseteq CPUs
  OBVIOUS
<1>4. QED
  BY <1>2, <1>3, SubsetOfCPUs

\* The number of members of a function's range is at most that of its domain.
LEMMA RangeSize ==
  ASSUME NEW S, IsFiniteSet(S), NEW f
  PROVE  LET T == {f[x] : x \in S}
         IN  /\ IsFiniteSet(T)
             /\ Cardinality(T) \in Nat
             /\ Cardinality(T) <= Cardinality(S)
<1> DEFINE T == {f[x] : x \in S}
           g == [x \in S |-> f[x]]
<1>1. g \in Surjection(S, T)
  BY DEF Surjection
<1>2. IsFiniteSet(T) /\ Cardinality(T) <= Cardinality(S)
  BY <1>1, FS_Surjection
<1>3. QED
  BY <1>2, FS_CardinalityType

Room == Cardinality(Sources) <= MaxEntries

\* With room for every source, the pool has an element for an absent one: the
\* linked elements and the spare ones are fewer than the pool.
LEMMA PoolNotEmpty ==
  ASSUME Room, NEW s \in Sources, pkt_count[s] = NULL
  PROVE  Free # {}
<1> DEFINE A == {pkt_count[t] : t \in Linked}
           B == {spare[c] : c \in CPUs}
<1>1. IsFiniteSet(Linked) /\ Cardinality(Linked) \in Nat /\ Cardinality(Linked) < Cardinality(Sources)
  <2>1. Linked \subseteq Sources /\ Linked # Sources
    BY DEF Linked
  <2>2. QED
    BY <2>1, SourcesAssumption, FS_Subset, FS_CardinalityType
<1>2. IsFiniteSet(A) /\ Cardinality(A) \in Nat /\ Cardinality(A) <= Cardinality(Linked)
  BY <1>1, RangeSize
<1>3. IsFiniteSet(B) /\ Cardinality(B) \in Nat /\ Cardinality(B) <= Cardinality(CPUs)
  BY CPUsAssumption, RangeSize
<1>4. /\ IsFiniteSet(A \cup B)
      /\ Cardinality(A \cup B) <= Cardinality(A) + Cardinality(B)
  <2>1. IsFiniteSet(A \cap B) /\ Cardinality(A \cap B) \in Nat
    BY <1>2, FS_Subset, FS_CardinalityType
  <2> HIDE DEF A, B
  <2>2. QED
    BY <1>2, <1>3, <2>1, FS_Union
<1>5. SUFFICES ASSUME Elements \subseteq A \cup B
               PROVE  FALSE
  BY DEF Free
<1>6. Cardinality(Elements) <= Cardinality(A \cup B)
  BY <1>4, <1>5, FS_Subset
<1> HIDE DEF A, B
<1>7. /\ Cardinality(Sources) \in Nat /\ Cardinality(CPUs) \in Nat
      /\ Cardinality(A \cup B) \in Nat
  BY <1>4, SourcesAssumption, CPUsAssumption, FS_CardinalityType
<1>8. QED
  BY <1>1, <1>2, <1>3, <1>4, <1>6, <1>7, PoolAssumption, BoundAssumption DEF Room

\* The sets of CPUs the count of an interval speaks of.
LEMMA IntervalSets ==
  ASSUME NEW s \in Sources, NEW e
  PROVE  /\ Inserters(s) \subseteq CPUs /\ Stale(s) \subseteq CPUs /\ Adders(e) \subseteq CPUs
         /\ IsFiniteSet(Inserters(s)) /\ IsFiniteSet(Stale(s)) /\ IsFiniteSet(Adders(e))
         /\ Cardinality(Inserters(s)) \in 0 .. NCPU
         /\ Cardinality(Stale(s)) \in 0 .. NCPU
         /\ Cardinality(Adders(e)) \in 0 .. NCPU
         /\ Settled(s) \in 0 .. NCPU
         /\ Settled(s) = NCPU - Cardinality(Inserters(s))
<1>1. Inserters(s) \subseteq CPUs /\ Stale(s) \subseteq CPUs /\ Adders(e) \subseteq CPUs
  BY DEF Inserters, Stale, Adders
<1>2. QED
  BY <1>1, SubsetOfCPUs DEF Settled

\* A count that is full, with the pointers left behind by the next insertion, is
\* what the next count starts from.
LEMMA NextCount ==
  ASSUME NEW l \in Nat, NEW m \in Nat
  PROVE  (m - 1) * (l + m) + (l + m) + m = m * (l + m + 1)
<1>1. (m - 1) * (l + m) + (l + m) = m * (l + m)
  OBVIOUS
<1>2. m * (l + m + 1) = m * (l + m) + m
  OBVIOUS
<1>3. QED
  BY <1>1, <1>2

\* With every CPU settled, the counts of an interval and the pointers left behind
\* add up to the bound.
LEMMA AllCounts ==
  ASSUME NEW l \in Nat, NEW n \in Nat, NEW m \in 0 .. n
  PROVE  (m - 1) * (l + m) + (l + m) + n <= n * (l + 1 + n)
<1>1. (m - 1) * (l + m) + (l + m) = m * (l + m)
  OBVIOUS
<1>2. m * (l + m) <= n * (l + m)
  <2>1. n - m \in Nat /\ l + m \in Nat
    OBVIOUS
  <2>2. (n - m) * (l + m) >= 0
    BY <2>1
  <2>3. (n - m) * (l + m) = n * (l + m) - m * (l + m)
    OBVIOUS
  <2>4. QED
    BY <2>2, <2>3
<1>3. n * (l + m) <= n * (l + n)
  <2>1. n - m \in Nat
    OBVIOUS
  <2>2. n * (n - m) >= 0
    BY <2>1
  <2>3. n * (n - m) = n * (l + n) - n * (l + m)
    OBVIOUS
  <2>4. QED
    BY <2>2, <2>3
<1>4. n * (l + 1 + n) = n * (l + n) + n
  OBVIOUS
<1>5. n * (l + m) \in Int /\ n * (l + n) \in Int /\ m * (l + m) \in Int
  OBVIOUS
<1>6. QED
  BY <1>1, <1>2, <1>3, <1>4, <1>5

\* While a source keeps its element nobody joins its inserters or leaves them.
LEMMA InsertersKept ==
  ASSUME TypeOK, OneOwner, [Next]_vars, NEW s \in Linked, pkt_count'[s] = pkt_count[s]
  PROVE  Inserters(s)' = Inserters(s)
<1> USE DEF Inserters, Linked, TypeOK
<1>1. ASSUME NEW c \in CPUs, NEW t \in Sources, Enter(c, t)
      PROVE  Inserters(s)' = Inserters(s)
  BY <1>1 DEF Enter
<1>2. ASSUME NEW c \in CPUs, Drop(c) \/ UnderLimit(c) \/ Add(c)
      PROVE  Inserters(s)' = Inserters(s)
  BY <1>2 DEF Drop, UnderLimit, Add, Admit, Return
<1>3. ASSUME NEW c \in CPUs, Create(c) \/ MapFull(c) \/ (Replace(c) /\ src_ip[c] # s)
      PROVE  Inserters(s)' = Inserters(s)
  <2>1. src_ip[c] # s /\ Return(c)
    BY <1>3 DEF Create, MapFull, Replace, Admit
  <2>2. QED
    BY <2>1 DEF Return
<1>4. CASE Interval \/ Shutdown
  BY <1>4 DEF Interval, Tick, EndCollect, EndReset, Collect, Delete, Shutdown, kernel
<1>5. CASE UNCHANGED vars
  BY <1>5 DEF vars
<1>6. ASSUME NEW c \in CPUs, Replace(c), src_ip[c] = s
      PROVE  FALSE
  BY <1>6 DEF Replace, OneOwner
<1>7. QED
  BY <1>1, <1>2, <1>3, <1>4, <1>5, <1>6 DEF Next, Program

\* An insertion, by Create or by Replace, takes its CPU out of every set: of those
\* that insert, of those that add and of those that hold a pointer.
LEMMA Inserted ==
  ASSUME TypeOK, NEW c \in CPUs, pc[c] = "update", Return(c), NEW s \in Sources, NEW e
  PROVE  /\ c \notin Inserters(s)' /\ c \notin Adders(e)' /\ c \notin Stale(s)'
         /\ Adders(e)' = Adders(e)
         /\ Inserters(s)' = Inserters(s) \ {c}
         /\ src_ip[c] = s => c \in Inserters(s)
         /\ \A d \in CPUs \ {c} :
              pc'[d] = pc[d] /\ count'[d] = count[d] /\ src_ip'[d] = src_ip[d]
BY DEF Return, Inserters, Adders, Stale, TypeOK

\* Only the CPUs that are not about to insert a source can add to its counter past
\* the limit (main.bpf.c:49-58): a counter restarts at 1, and an add is decided
\* below the limit.
THEOREM AddersCounted == Spec => []AddersOnly
<1>1. Init => AddersOnly
  BY DEF Init, AddersOnly, Linked
<1>2. TypeOK /\ OneOwner /\ TypeOK' /\ AddersOnly /\ [Next]_vars => AddersOnly'
  <2> SUFFICES ASSUME TypeOK, OneOwner, TypeOK', AddersOnly, [Next]_vars, NEW s \in Linked'
               PROVE  value'[pkt_count'[s]] + Cardinality(Adders(pkt_count[s])')
                        <= RATE_LIMIT - 1 + Settled(s)'
    BY DEF AddersOnly
  <2> DEFINE e == pkt_count'[s]
             A == Adders(pkt_count'[s])
             B == Adders(pkt_count[s])'
             J == Inserters(s)'
             Kept == s \in Linked /\ pkt_count'[s] = pkt_count[s]
             Same == Kept /\ value'[e] = value[e] /\ B \subseteq A
             Added == Kept /\ value'[e] = value[e] + 1 /\ Cardinality(B) = Cardinality(A) - 1
             Low == value'[e] <= RATE_LIMIT - 1
             Fresh == value'[e] = 1 /\ \E c \in CPUs : c \notin B /\ c \notin J
  <2>0. /\ s \in Sources /\ e \in Elements
        /\ value'[e] \in Nat /\ value[e] \in Nat /\ NCPU \in Nat /\ RATE_LIMIT \in Nat \ {0}
        /\ IsFiniteSet(A) /\ Cardinality(A) \in Nat
        /\ B \subseteq CPUs /\ Cardinality(B) \in Nat
        /\ J \subseteq CPUs /\ Cardinality(J) \in Nat /\ B \cap J = {}
        /\ Settled(s)' = NCPU - Cardinality(J)
    <3>1. B \subseteq CPUs /\ J \subseteq CPUs /\ B \cap J = {}
      BY DEF Adders, Inserters
    <3>2. s \in Sources /\ e \in Elements
      BY DEF Linked, TypeOK
    <3>3. Settled(s)' = NCPU - Cardinality(J)
      BY DEF Settled, NCPU
    <3>4. QED
      BY <3>1, <3>2, <3>3, SubsetOfCPUs, AddersAreCPUs, LimitAssumption DEF TypeOK
  <2>1. SUFFICES Same \/ Added \/ Low \/ Fresh
    <3>1. Cardinality(B) + Cardinality(J) <= NCPU
      BY <2>0, DisjointCPUs
    <3>2. Fresh => Cardinality(B) + Cardinality(J) <= NCPU - 1
      BY <2>0, DisjointCPUs
    <3>3. Kept => value[e] + Cardinality(A) <= RATE_LIMIT - 1 + Settled(s)'
      <4>1. SUFFICES ASSUME Kept
                     PROVE  value[e] + Cardinality(A) <= RATE_LIMIT - 1 + Settled(s)'
        OBVIOUS
      <4>2. J = Inserters(s)
        BY <4>1, InsertersKept
      <4>3. Settled(s)' = Settled(s)
        BY <2>0, <4>2 DEF Settled
      <4>4. QED
        BY <4>1, <4>3 DEF AddersOnly
    <3>4. Same => Cardinality(B) <= Cardinality(A)
      BY <2>0, FS_Subset
    <3>5. QED
      BY <2>0, <3>1, <3>2, <3>3, <3>4
  <2> HIDE DEF Same, Added, Low, Fresh
  <2>2. ASSUME NEW c \in CPUs, NEW t \in Sources, Enter(c, t)
        PROVE  Same
    BY <2>0, <2>2 DEF Enter, Adders, TypeOK, Linked, Same
  <2>3. ASSUME NEW c \in CPUs, Drop(c)
        PROVE  Same
    BY <2>0, <2>3 DEF Drop, Return, Adders, TypeOK, Linked, Same
  <2>4. ASSUME NEW c \in CPUs, UnderLimit(c)
        PROVE  Same \/ Low
    <3>1. CASE count[c] = e
      BY <2>0, <2>4, <3>1 DEF UnderLimit, Low
    <3>2. CASE count[c] # e
      BY <2>0, <2>4, <3>2 DEF UnderLimit, Adders, TypeOK, Linked, Same
    <3>3. QED
      BY <3>1, <3>2
  <2>5. ASSUME NEW c \in CPUs, Add(c)
        PROVE  Same \/ Added
    <3>1. Kept
      BY <2>5 DEF Add, Linked
    <3>2. CASE count[c] = e
      <4>1. B = A \ {c} /\ c \in A /\ value'[e] = value[e] + 1
        BY <2>0, <2>5, <3>1, <3>2 DEF Add, Admit, Return, Adders, TypeOK
      <4>2. QED
        BY <3>1, <4>1, AddersAreCPUs, OneLess DEF Added
    <3>3. CASE count[c] # e
      BY <2>0, <2>5, <3>1, <3>3 DEF Add, Admit, Return, Adders, TypeOK, Same
    <3>4. QED
      BY <3>2, <3>3
  <2>6. ASSUME NEW c \in CPUs, NEW f \in Elements, src_ip[c] \in Sources,
               pc[c] = "update", Return(c), \A t \in Linked : pkt_count[t] # f,
               pkt_count' = [pkt_count EXCEPT ![src_ip[c]] = f],
               value' = [value EXCEPT ![f] = 1]
        PROVE  Same \/ Fresh
    <3>1. c \notin B /\ c \notin J /\ (pkt_count'[s] = pkt_count[s] => B \subseteq A)
      BY <2>0, <2>6 DEF Return, Adders, Inserters, TypeOK
    <3>2. CASE src_ip[c] = s
      BY <2>0, <2>6, <3>1, <3>2 DEF TypeOK, Fresh
    <3>3. CASE src_ip[c] # s
      BY <2>0, <2>6, <3>1, <3>3 DEF TypeOK, Linked, Same
    <3>4. QED
      BY <3>2, <3>3
  <2>7. ASSUME NEW c \in CPUs, Create(c)
        PROVE  Same \/ Fresh
    <3>1. PICK f \in Free : /\ value' = [value EXCEPT ![f] = 1]
                            /\ pkt_count' = [pkt_count EXCEPT ![src_ip[c]] = f]
      BY <2>7 DEF Create
    <3>2. f \in Elements /\ \A t \in Linked : pkt_count[t] # f
      BY <3>1 DEF Free
    <3>3. src_ip[c] \in Sources /\ pc[c] = "update" /\ Return(c)
      BY <2>7 DEF Create, Admit, TypeOK
    <3>4. QED
      BY <2>6, <3>1, <3>2, <3>3
  <2>8. ASSUME NEW c \in CPUs, Replace(c)
        PROVE  Same \/ Fresh
    <3>1. /\ value' = [value EXCEPT ![spare[c]] = 1]
          /\ pkt_count' = [pkt_count EXCEPT ![src_ip[c]] = spare[c]]
      BY <2>8 DEF Replace
    <3>2. spare[c] \in Elements /\ \A t \in Linked : pkt_count[t] # spare[c]
      BY DEF OneOwner, TypeOK
    <3>3. src_ip[c] \in Sources /\ pc[c] = "update" /\ Return(c)
      BY <2>8 DEF Replace, Admit, TypeOK
    <3>4. QED
      BY <2>6, <3>1, <3>2, <3>3
  <2>9. ASSUME NEW c \in CPUs, MapFull(c)
        PROVE  Same
    BY <2>0, <2>9 DEF MapFull, Admit, Return, Adders, TypeOK, Linked, Same
  <2>10. ASSUME NEW t \in Sources, Delete(t)
         PROVE  Same
    BY <2>0, <2>10 DEF Delete, Adders, TypeOK, Linked, Same
  <2>11. CASE Tick \/ EndCollect \/ EndReset \/ Shutdown \/ \E t \in Sources : Collect(t)
    BY <2>0, <2>11 DEF Tick, EndCollect, EndReset, Shutdown, Collect, kernel, Linked, Adders, Same
  <2>12. CASE UNCHANGED vars
    BY <2>0, <2>12 DEF vars, Linked, Adders, Same
  <2>13. QED
    BY <2>2, <2>3, <2>4, <2>5, <2>7, <2>8, <2>9, <2>10, <2>11, <2>12
       DEF Next, Program, Interval
<1>3. QED
  BY <1>1, <1>2, TypeCorrect, OwnersDistinct, PTL DEF Spec

\* A replacement leaves at most one pointer to the old element with each CPU that
\* is not an inserter.
LEMMA PointersLeft ==
  ASSUME TypeOK, NEW c \in CPUs, Replace(c), NEW s \in Sources, s = src_ip[c]
  PROVE  Cardinality(Stale(s)') <= Cardinality(Stale(s)) + Settled(s)
<1> DEFINE U == Stale(s)
           V == {d \in CPUs : pc'[d] \in {"check", "add"} /\ src_ip'[d] = s /\ count'[d] # pkt_count'[s]}
           H == {d \in CPUs : pc[d] \in {"check", "add"} /\ src_ip[d] = s /\ count[d] = pkt_count[s]}
           I == Inserters(s)
<1>1. pc[c] = "update" /\ Return(c)
  BY DEF Replace, Admit, TypeOK
<1>2. V \subseteq U \cup H
  BY <1>1 DEF Return, Stale, TypeOK
<1>3. H \subseteq CPUs /\ I \subseteq CPUs /\ H \cap I = {} /\ U \subseteq CPUs
  BY DEF Inserters, Stale
<1>4. Cardinality(H) + Cardinality(I) <= NCPU
  BY <1>3, DisjointCPUs
<1>5. /\ IsFiniteSet(U) /\ IsFiniteSet(H) /\ IsFiniteSet(U \cup H)
      /\ Cardinality(U) \in Nat /\ Cardinality(H) \in Nat /\ Cardinality(I) \in Nat
      /\ Cardinality(U \cup H) \in Nat /\ NCPU \in Nat
  <2>1. U \cup H \subseteq CPUs
    BY <1>3
  <2> HIDE DEF U, H, I
  <2>2. QED
    BY <1>3, <2>1, SubsetOfCPUs
<1>6. Cardinality(U \cup H) <= Cardinality(U) + Cardinality(H)
  <2>1. IsFiniteSet(U \cap H) /\ Cardinality(U \cap H) \in Nat
    BY <1>5, FS_Subset, FS_CardinalityType
  <2> HIDE DEF U, H
  <2>2. Cardinality(U \cup H) = Cardinality(U) + Cardinality(H) - Cardinality(U \cap H)
    BY <1>5, FS_Union
  <2>3. QED
    BY <1>5, <2>1, <2>2
<1>7. Cardinality(V) \in Nat /\ Cardinality(V) <= Cardinality(U \cup H)
  <2> HIDE DEF U, V, H
  <2>1. QED
    BY <1>2, <1>5, FS_Subset, FS_CardinalityType
<1>8. Settled(s) = NCPU - Cardinality(I)
  BY DEF Settled
<1>9. Cardinality(V) <= Cardinality(U) + Settled(s)
  <2> HIDE DEF U, V, H, I
  <2>1. QED
    BY <1>4, <1>5, <1>6, <1>7, <1>8
<1>10. V = Stale(s)'
  BY DEF Stale
<1>11. QED
  BY <1>9, <1>10

RoomCounted == Room => IntervalCounted

\* With room for every source, the packets that an interval has let through, and
\* will still let through on a kept pointer, are those of at most one count for
\* each CPU (main.bpf.c:49-58).
THEOREM IntervalsCounted == Spec => []RoomCounted
<1>1. Init => IntervalCounted
  <2> SUFFICES ASSUME Init, NEW s \in Sources
               PROVE  admitted[s] + Cardinality(Stale(s)) <= NCPU
    BY DEF IntervalCounted, Init
  <2>1. admitted[s] = 0
    BY DEF Init
  <2>2. QED
    BY <2>1, IntervalSets
<1>2. /\ TypeOK /\ OneOwner /\ AddersOnly /\ TypeOK'
      /\ Room /\ IntervalCounted /\ [Next]_vars
      => IntervalCounted'
  <2> SUFFICES ASSUME TypeOK, OneOwner, AddersOnly, TypeOK', Room, IntervalCounted, [Next]_vars,
                      NEW s \in Sources
               PROVE  admitted'[s] + Cardinality(Stale(s)') <=
                        IF pkt_count'[s] = NULL
                          THEN NCPU
                          ELSE value'[pkt_count'[s]] + NCPU
                               + (Settled(s)' - 1) * (RATE_LIMIT - 1 + Settled(s)')
    BY DEF IntervalCounted, NCPU
  <2> DEFINE e == pkt_count'[s]
             U == Stale(s)
             V == Stale(s)'
             m == Settled(s)
             n == Settled(s)'
             Kept == pkt_count'[s] = pkt_count[s]
             Quiet == Kept /\ value'[e] \in {value[e], value[e] + 1}
                        /\ admitted'[s] = admitted[s] /\ V \subseteq U
             Counted == Kept /\ s \in Linked /\ value'[e] = value[e] + 1
                          /\ admitted'[s] = admitted[s] + 1 /\ V \subseteq U
             Uncounted == Kept /\ value'[e] = value[e] /\ admitted'[s] = admitted[s] + 1
                            /\ Cardinality(V) = Cardinality(U) - 1
             First == pkt_count[s] = NULL /\ e # NULL /\ value'[e] = 1 /\ n >= 1
                        /\ admitted'[s] = admitted[s] + 1 /\ V \subseteq U
             Again == s \in Linked /\ e # NULL /\ value'[e] = 1 /\ n = m + 1
                        /\ admitted'[s] = admitted[s] + 1
                        /\ Cardinality(V) <= Cardinality(U) + m
             Restart == e = NULL /\ admitted'[s] = 0
             K == (m - 1) * (RATE_LIMIT - 1 + m)
             L == (n - 1) * (RATE_LIMIT - 1 + n)
  <2>0. /\ admitted[s] \in Nat /\ admitted'[s] \in Nat
        /\ NCPU \in Nat \ {0} /\ RATE_LIMIT \in Nat \ {0}
        /\ IsFiniteSet(U) /\ Cardinality(U) \in Nat
        /\ V \subseteq CPUs /\ Cardinality(V) \in 0 .. NCPU
        /\ m \in 0 .. NCPU /\ n \in 0 .. NCPU
        /\ n = NCPU - Cardinality(Inserters(s)')
        /\ Inserters(s)' \subseteq CPUs
    <3>1. V \subseteq CPUs /\ Inserters(s)' \subseteq CPUs
      BY DEF Stale, Inserters
    <3>2. Cardinality(V) \in 0 .. NCPU /\ Cardinality(Inserters(s)') \in 0 .. NCPU
      BY <3>1, SubsetOfCPUs
    <3>3. n = NCPU - Cardinality(Inserters(s)')
      BY DEF Settled, NCPU
    <3>4. n \in 0 .. NCPU /\ NCPU \in Nat \ {0}
      BY <3>2, <3>3, SubsetOfCPUs
    <3>5. IsFiniteSet(U) /\ Cardinality(U) \in Nat /\ m \in 0 .. NCPU
      BY IntervalSets
    <3>6. QED
      BY <3>1, <3>2, <3>3, <3>4, <3>5, LimitAssumption DEF TypeOK
  <2>1. SUFFICES Quiet \/ Counted \/ Uncounted \/ First \/ Again \/ Restart
    <3>1. V \subseteq U => Cardinality(V) <= Cardinality(U)
      BY <2>0, FS_Subset
    <3>2. K \in Int /\ L \in Int
      BY <2>0
    <3>3. pkt_count[s] = NULL => admitted[s] + Cardinality(U) <= NCPU
      BY DEF IntervalCounted
    <3>4. s \in Linked => /\ pkt_count[s] \in Elements /\ value[pkt_count[s]] \in Nat
                          /\ admitted[s] + Cardinality(U) <= value[pkt_count[s]] + NCPU + K
      BY DEF IntervalCounted, Linked, TypeOK
    <3>5. s \in Linked /\ Kept => L = K
      BY InsertersKept DEF Settled
    <3>6. e # NULL => e \in Elements /\ value'[e] \in Nat
      BY DEF TypeOK
    <3>7. pkt_count[s] # NULL => s \in Linked
      BY DEF Linked
    <3>8. CASE Quiet
      BY <2>0, <3>1, <3>2, <3>3, <3>4, <3>5, <3>6, <3>7, <3>8
    <3>9. CASE Counted
      BY <2>0, <3>1, <3>2, <3>4, <3>5, <3>6, <3>9 DEF Linked
    <3>10. CASE Uncounted
      BY <2>0, <3>2, <3>3, <3>4, <3>5, <3>6, <3>7, <3>10
    <3>11. CASE First
      <4>1. n - 1 \in Nat /\ RATE_LIMIT - 1 + n \in Nat
        BY <2>0, <3>11
      <4>2. L >= 0
        BY <4>1
      <4>3. QED
        BY <2>0, <3>1, <3>2, <3>3, <3>11, <4>2
    <3>12. CASE Again
      <4>1. value[pkt_count[s]] <= RATE_LIMIT - 1 + m
        <5>1. value[pkt_count[s]] + Cardinality(Adders(pkt_count[s])) <= RATE_LIMIT - 1 + m
          BY <3>12 DEF AddersOnly
        <5>2. QED
          BY <2>0, <3>4, <3>12, <5>1, AddersAreCPUs
      <4>2. K + (RATE_LIMIT - 1 + m) + m = L
        <5>1. L = m * (RATE_LIMIT - 1 + m + 1)
          BY <2>0, <3>12
        <5>2. QED
          BY <2>0, <5>1, NextCount
      <4>3. admitted[s] + Cardinality(U) <= (RATE_LIMIT - 1 + m) + NCPU + K
        BY <2>0, <3>2, <3>4, <3>12, <4>1
      <4>4. admitted'[s] + Cardinality(V) <= value'[e] + NCPU + L
        BY <2>0, <3>2, <3>12, <4>2, <4>3
      <4>5. QED
        BY <3>12, <4>4
    <3>13. CASE Restart
      BY <2>0, <3>13
    <3>14. QED
      BY <3>8, <3>9, <3>10, <3>11, <3>12, <3>13
  <2> HIDE DEF Quiet, Counted, Uncounted, First, Again, Restart
  <2>2. ASSUME NEW c \in CPUs, NEW t \in Sources, Enter(c, t)
        PROVE  Quiet
    BY <2>2 DEF Enter, Stale, TypeOK, Quiet
  <2>3. ASSUME NEW c \in CPUs, Drop(c)
        PROVE  Quiet
    BY <2>3 DEF Drop, Return, Stale, TypeOK, Quiet
  <2>4. ASSUME NEW c \in CPUs, UnderLimit(c)
        PROVE  Quiet
    BY <2>4 DEF UnderLimit, Stale, TypeOK, Quiet
  <2>5. ASSUME NEW c \in CPUs, Add(c)
        PROVE  Quiet \/ Counted \/ Uncounted
    <3>1. /\ Kept /\ pc[c] = "add" /\ count[c] \in Elements /\ src_ip[c] \in Sources
          /\ value' = [value EXCEPT ![count[c]] = @ + 1]
          /\ V = U \ {c}
          /\ admitted'[s] = IF src_ip[c] = s THEN admitted[s] + 1 ELSE admitted[s]
      BY <2>5 DEF Add, Admit, Return, Stale, TypeOK
    <3>2. CASE src_ip[c] # s
      BY <3>1, <3>2 DEF TypeOK, Quiet
    <3>3. CASE src_ip[c] = s /\ count[c] = e
      BY <3>1, <3>3, NullAssumption DEF TypeOK, Linked, Counted
    <3>4. CASE src_ip[c] = s /\ count[c] # e
      <4>1. c \in U
        BY <3>1, <3>4 DEF Stale
      <4>2. Cardinality(V) = Cardinality(U) - 1
        BY <3>1, <4>1, IntervalSets, OneLess
      <4>3. value'[e] = value[e]
        BY <3>1, <3>4 DEF TypeOK
      <4>4. QED
        BY <3>1, <3>4, <4>2, <4>3 DEF Uncounted
    <3>5. QED
      BY <3>2, <3>3, <3>4
  <2>6. ASSUME NEW c \in CPUs, NEW f \in Elements, src_ip[c] # s, Return(c),
               \A t \in Linked : pkt_count[t] # f,
               pkt_count' = [pkt_count EXCEPT ![src_ip[c]] = f],
               value' = [value EXCEPT ![f] = 1],
               admitted' = [admitted EXCEPT ![src_ip[c]] = @ + 1]
        PROVE  Quiet
    <3>1. Kept /\ admitted'[s] = admitted[s] /\ V \subseteq U
      BY <2>6 DEF Return, Stale, TypeOK
    <3>2. e # f
      BY <2>6, <3>1, NullAssumption DEF Linked
    <3>3. value'[e] = value[e]
      BY <2>6, <3>2 DEF TypeOK
    <3>4. QED
      BY <3>1, <3>3 DEF Quiet
  <2>7. ASSUME NEW c \in CPUs, Create(c)
        PROVE  Quiet \/ First
    <3>1. PICK f \in Free : /\ value' = [value EXCEPT ![f] = 1]
                            /\ pkt_count' = [pkt_count EXCEPT ![src_ip[c]] = f]
      BY <2>7 DEF Create
    <3>2. f \in Elements /\ \A t \in Linked : pkt_count[t] # f
      BY <3>1 DEF Free
    <3>3. /\ src_ip[c] \in Sources /\ pc[c] = "update" /\ Return(c)
          /\ admitted' = [admitted EXCEPT ![src_ip[c]] = @ + 1]
          /\ pkt_count[src_ip[c]] = NULL
      BY <2>7 DEF Create, Admit, TypeOK
    <3>4. CASE src_ip[c] # s
      BY <2>6, <3>1, <3>2, <3>3, <3>4
    <3>5. CASE src_ip[c] = s
      <4>1. e = f /\ value'[e] = 1 /\ e # NULL /\ admitted'[s] = admitted[s] + 1
        BY <3>1, <3>2, <3>3, <3>5, NullAssumption DEF TypeOK
      <4>2. V \subseteq U
        BY <3>3, <3>5, NullAssumption DEF Return, Stale, TypeOK
      <4>3. n >= 1
        <5>1. c \notin Inserters(s)'
          BY <3>3, Inserted
        <5>2. QED
          BY <2>0, <5>1, SubsetOfCPUs
      <4>4. QED
        BY <3>3, <3>5, <4>1, <4>2, <4>3 DEF First
    <3>6. QED
      BY <3>4, <3>5
  <2>8. ASSUME NEW c \in CPUs, Replace(c)
        PROVE  Quiet \/ Again
    <3>1. /\ value' = [value EXCEPT ![spare[c]] = 1]
          /\ pkt_count' = [pkt_count EXCEPT ![src_ip[c]] = spare[c]]
          /\ pkt_count[src_ip[c]] # NULL
      BY <2>8 DEF Replace
    <3>2. spare[c] \in Elements /\ \A t \in Linked : pkt_count[t] # spare[c]
      BY DEF OneOwner, TypeOK
    <3>3. /\ src_ip[c] \in Sources /\ pc[c] = "update" /\ Return(c)
          /\ admitted' = [admitted EXCEPT ![src_ip[c]] = @ + 1]
      BY <2>8 DEF Replace, Admit, TypeOK
    <3>4. CASE src_ip[c] # s
      BY <2>6, <3>1, <3>2, <3>3, <3>4
    <3>5. CASE src_ip[c] = s
      <4>1. /\ e # NULL /\ value'[e] = 1 /\ admitted'[s] = admitted[s] + 1
            /\ s \in Linked
        BY <3>1, <3>2, <3>3, <3>5, NullAssumption DEF TypeOK, Linked
      <4>2. Cardinality(V) <= Cardinality(U) + m
        BY <2>8, <3>5, PointersLeft
      <4>3. n = m + 1
        <5>1. Inserters(s)' = Inserters(s) \ {c} /\ c \in Inserters(s)
          BY <3>3, <3>5, Inserted
        <5>2. Cardinality(Inserters(s)') = Cardinality(Inserters(s)) - 1
          BY <5>1, IntervalSets, OneLess
        <5>3. QED
          BY <2>0, <5>2, IntervalSets
      <4>4. QED
        BY <4>1, <4>2, <4>3 DEF Again
    <3>6. QED
      BY <3>4, <3>5
  <2>9. ASSUME NEW c \in CPUs, MapFull(c)
        PROVE  Quiet
    <3>1. src_ip[c] \in Sources /\ Free = {} /\ pkt_count[src_ip[c]] = NULL
      BY <2>9 DEF MapFull, TypeOK
    <3>2. QED
      BY <3>1, PoolNotEmpty
  <2>10. ASSUME NEW t \in Sources, Delete(t)
         PROVE  Quiet \/ Restart
    BY <2>10 DEF Delete, Stale, TypeOK, Quiet, Restart
  <2>11. CASE Tick \/ EndCollect \/ EndReset \/ Shutdown \/ \E t \in Sources : Collect(t)
    BY <2>11 DEF Tick, EndCollect, EndReset, Shutdown, Collect, kernel, Stale, Quiet
  <2>12. CASE UNCHANGED vars
    BY <2>12 DEF vars, Stale, Quiet
  <2>13. QED
    BY <2>2, <2>3, <2>4, <2>5, <2>7, <2>8, <2>9, <2>10, <2>11, <2>12
       DEF Next, Program, Interval
<1>3. QED
  <2>1. Init => RoomCounted
    BY <1>1 DEF RoomCounted
  <2>2. /\ TypeOK /\ OneOwner /\ AddersOnly /\ TypeOK'
        /\ RoomCounted /\ [Next]_vars
        => RoomCounted'
    BY <1>2 DEF RoomCounted, Room
  <2>3. QED
    BY <2>1, <2>2, TypeCorrect, OwnersDistinct, AddersCounted, PTL DEF Spec

\* What a source gets through in one interval is bounded by RATE_LIMIT and the
\* number of CPUs, whatever is replaced, kept or reused in it, as long as the map
\* has room for every source (main.bpf.c:49-58).
THEOREM IntervalsBounded == Spec => []IntervalBound
<1>1. TypeOK /\ AddersOnly /\ RoomCounted => IntervalBound
  <2> SUFFICES ASSUME TypeOK, AddersOnly, IntervalCounted, NEW s \in Sources
               PROVE  admitted[s] <= NCPU * (RATE_LIMIT + NCPU)
    BY DEF IntervalBound, RoomCounted, Room
  <2> DEFINE m == Settled(s)
             K == (m - 1) * (RATE_LIMIT - 1 + m)
  <2>1. /\ admitted[s] \in Nat /\ Cardinality(Stale(s)) \in Nat /\ m \in 0 .. NCPU
        /\ NCPU \in Nat /\ RATE_LIMIT \in Nat \ {0}
    BY SubsetOfCPUs, IntervalSets, LimitAssumption DEF TypeOK
  <2>2. NCPU * (RATE_LIMIT + NCPU) \in Int /\ K \in Int
    BY <2>1
  <2>3. CASE pkt_count[s] = NULL
    <3>1. admitted[s] <= NCPU
      BY <2>1, <2>3 DEF IntervalCounted
    <3>2. NCPU * (RATE_LIMIT + NCPU) = NCPU + NCPU * (RATE_LIMIT - 1 + NCPU)
      BY <2>1
    <3>3. NCPU * (RATE_LIMIT - 1 + NCPU) >= 0
      BY <2>1
    <3>4. QED
      BY <2>1, <2>2, <3>1, <3>2, <3>3
  <2>4. CASE pkt_count[s] # NULL
    <3>1. s \in Linked /\ pkt_count[s] \in Elements /\ value[pkt_count[s]] \in Nat
      BY <2>4 DEF Linked, TypeOK
    <3>2. value[pkt_count[s]] <= RATE_LIMIT - 1 + m
      <4>1. value[pkt_count[s]] + Cardinality(Adders(pkt_count[s])) <= RATE_LIMIT - 1 + m
        BY <3>1 DEF AddersOnly
      <4>2. QED
        BY <2>1, <3>1, <4>1, AddersAreCPUs
    <3>3. admitted[s] + Cardinality(Stale(s)) <= value[pkt_count[s]] + NCPU + K
      BY <2>4 DEF IntervalCounted
    <3>4. K + (RATE_LIMIT - 1 + m) + NCPU <= NCPU * (RATE_LIMIT - 1 + 1 + NCPU)
      BY <2>1, AllCounts
    <3>5. RATE_LIMIT - 1 + 1 + NCPU = RATE_LIMIT + NCPU
      BY <2>1
    <3>6. QED
      BY <2>1, <2>2, <3>1, <3>2, <3>3, <3>4, <3>5
  <2>5. QED
    BY <2>3, <2>4
<1>2. QED
  BY <1>1, TypeCorrect, AddersCounted, IntervalsCounted, PTL

----------------------------------------------------------------------------
(* The egress hook: type correctness.                                      *)

\* What the steps of a loader keep.
LEMMA LoaderTyped ==
  ASSUME HookTypeOK, NEW l \in Loaders, Loader(l)
  PROVE  /\ at' \in [Loaders -> Stages \cup {"exited", "fatal", "killed"}]
         /\ qdisc' \in BOOLEAN
         /\ filters' \in Seq(Loaders \cup Attachments)
         /\ pinned' \in Loaders \cup {NoPin}
         /\ ~qdisc' => filters' = <<>>
<1> USE DEF HookTypeOK, Stages
<1>0. <<>> \in Seq(Loaders \cup Attachments)
  OBVIOUS
<1>1. CASE DelQdisc(l) \/ UndoQdisc(l)
  BY <1>0, <1>1 DEF DelQdisc, UndoQdisc, Step, StartClean, Deleted
<1>2. CASE AddQdisc(l)
  BY <1>2 DEF AddQdisc, Step
<1>3. CASE RemovePin(l) \/ Unpin(l)
  BY <1>3 DEF RemovePin, Unpin, Step
<1>4. CASE Pin(l)
  BY <1>4 DEF Pin, Step
<1>5. CASE AddFilter(l)
  <2>1. <<l>> \in Seq(Loaders \cup Attachments)
    OBVIOUS
  <2>2. <<l>> \o filters \in Seq(Loaders \cup Attachments)
    BY <2>1
  <2>3. QED
    BY <1>5, <2>2 DEF AddFilter, Step
<1>6. CASE Signal(l) \/ Kill(l)
  BY <1>6 DEF Signal, Kill, Step, hook
<1>7. CASE CommandFails(l)
  BY <1>7 DEF CommandFails, Step, hook
<1>8. QED
  BY <1>1, <1>2, <1>3, <1>4, <1>5, <1>6, <1>7 DEF Loader

\* A failure is recorded with the step that failed.
LEMMA FailuresRecorded ==
  ASSUME NEW l \in Loaders, Loader(l)
  PROVE  failed \subseteq failed' /\ failed' \subseteq failed \cup {<<l, x>> : x \in Stages}
<1>1. CASE CommandFails(l)
  <2>1. at[l] \in Stages /\ failed' = failed \cup {<<l, at[l]>>}
    BY <1>1 DEF CommandFails, Step, Stages
  <2>2. QED
    BY <2>1
<1>2. CASE ~CommandFails(l)
  BY <1>2 DEF Loader, DelQdisc, AddQdisc, RemovePin, Pin, AddFilter, Signal, UndoQdisc, Unpin,
              Kill, By
<1>3. QED
  BY <1>1, <1>2

\* Every variable keeps its type, and there is no filter without the qdisc.
THEOREM HookTypeCorrect == HookSpec => []HookTypeOK
<1>1. HookInit => HookTypeOK
  <2>1. <<>> \in Seq(Loaders \cup Attachments) /\ 0 \in 0..QueueEntries
    BY QueueAssumption
  <2>2. HookInit => qdisc \in BOOLEAN /\ popped \in BOOLEAN
    BY DEF HookInit
  <2>3. HookInit => /\ at \in [Loaders -> Stages \cup {"exited", "fatal", "killed"}]
                /\ queued \in [Instances -> 0..QueueEntries]
                /\ passed \in [Attachments -> Nat]
    BY <2>1 DEF HookInit, Stages
  <2>4. QED
    BY <2>1, <2>2, <2>3 DEF HookInit, HookTypeOK
<1>2. HookTypeOK /\ [HookNext]_hookVars => HookTypeOK'
  <2> SUFFICES ASSUME HookTypeOK, [HookNext]_hookVars
               PROVE  HookTypeOK'
    OBVIOUS
  <2>1. ASSUME NEW l \in Loaders, Loader(l)
        PROVE  HookTypeOK'
    <3>1. UNCHANGED <<queued, popped, passed>> /\ disturbed' \subseteq Loaders
      BY <2>1 DEF Loader, DelQdisc, AddQdisc, RemovePin, Pin, AddFilter, Signal, UndoQdisc,
                  Unpin, CommandFails, Kill, By, Noticed, shaper, HookTypeOK
    <3>2. failed' \subseteq failed \cup {<<l, x>> : x \in Stages}
      BY <2>1, FailuresRecorded
    <3>3. QED
      BY <2>1, <3>1, <3>2, LoaderTyped DEF HookTypeOK
  <2>2. ASSUME NEW a \in Attachments, Attach(a)
        PROVE  HookTypeOK'
    <3>1. <<a>> \o filters \in Seq(Loaders \cup Attachments)
      <4>1. <<a>> \in Seq(Loaders \cup Attachments)
        OBVIOUS
      <4>2. QED
        BY <4>1 DEF HookTypeOK
    <3>2. QED
      BY <2>2, <3>1 DEF Attach, Noticed, shaper, HookTypeOK
  <2>3. ASSUME NEW a \in Attachments, Push(a)
        PROVE  HookTypeOK'
    <3>1. queued' \in [Instances -> 0..QueueEntries] /\ passed' \in [Attachments -> Nat]
      BY <2>3, QueueAssumption DEF Push, Instances, HookTypeOK
    <3>2. QED
      BY <2>3, <3>1 DEF Push, hook, HookTypeOK
  <2>4. CASE Pop
    <3>1. queued' \in [Instances -> 0..QueueEntries]
      BY <2>4, QueueAssumption DEF Pop, Popped, Instances, HookTypeOK
    <3>2. popped' \in BOOLEAN
      BY <2>4 DEF Pop
    <3>3. QED
      BY <2>4, <3>1, <3>2 DEF Pop, hook, HookTypeOK
  <2>5. CASE UNCHANGED hookVars
    BY <2>5 DEF hookVars, hook, shaper, HookTypeOK
  <2>6. QED
    BY <2>1, <2>2, <2>3, <2>4, <2>5 DEF HookNext
<1>3. QED
  BY <1>1, <1>2, PTL DEF HookSpec

----------------------------------------------------------------------------
(* A loader that nobody disturbed.                                         *)

\* What it has found and made when it is about to take each step, unless a step that was
\* to clear the way failed; and a loader that gave up had a step that failed by itself.
Undisturbed(l) ==
  /\ at[l] = "add" => ~qdisc \/ l \in Hindered
  /\ at[l] \in {"remove", "pin", "filter"} => qdisc /\ filters = <<>>
  /\ at[l] = "pin" => pinned = NoPin \/ l \in Hindered
  /\ at[l] \in {"filter", "loop"} => pinned = l
  /\ at[l] = "loop" => filters = <<l>>
  /\ at[l] = "fatal" => l \in Hindered

Recovering == \A l \in Loaders \ disturbed : Undisturbed(l)

\* A step of another loader or an attachment leaves what a loader relies on as it is, or
\* disturbs the loader.
LEMMA OthersDisturb ==
  ASSUME HookTypeOK, NEW l \in Loaders \ disturbed', l \notin disturbed, Undisturbed(l),
         at'[l] = at[l], Hindered \subseteq Hindered',
         hook' = hook \/ (l \in Alive => l \in disturbed')
  PROVE  Undisturbed(l)'
<1>1. CASE hook' = hook
  BY <1>1 DEF Undisturbed, hook
<1>2. CASE l \notin Alive
  BY <1>2 DEF Undisturbed, Alive
<1>3. QED
  BY <1>1, <1>2

LEMMA RecoveringStep == HookTypeOK /\ Recovering /\ [HookNext]_hookVars => Recovering'
<1> SUFFICES ASSUME HookTypeOK, Recovering, [HookNext]_hookVars, NEW l \in Loaders \ disturbed'
             PROVE  Undisturbed(l)'
  BY DEF Recovering
<1> USE DEF HookTypeOK
<1>0. disturbed \subseteq disturbed' /\ failed \subseteq failed'
  BY DEF HookNext, Loader, DelQdisc, AddQdisc, RemovePin, Pin, AddFilter, Signal, UndoQdisc, Unpin,
         CommandFails, Kill, By, Noticed, Attach, Push, Pop, hookVars
<1>1. disturbed \subseteq disturbed' /\ Hindered \subseteq Hindered'
  BY <1>0 DEF Hindered
<1>2. Undisturbed(l)
  BY <1>1 DEF Recovering
<1>3. CASE Loader(l)
  <2>1. CASE DelQdisc(l)
    BY <1>1, <1>2, <2>1 DEF DelQdisc, Step, StartClean, Deleted, By, Undisturbed
  <2>2. CASE AddQdisc(l)
    BY <1>1, <1>2, <2>2 DEF AddQdisc, Step, By, Undisturbed
  <2>3. CASE RemovePin(l)
    BY <1>1, <1>2, <2>3 DEF RemovePin, Step, By, Undisturbed
  <2>4. CASE Pin(l)
    BY <1>1, <1>2, <2>4, DistinctAssumption DEF Pin, Step, By, Undisturbed
  <2>5. CASE AddFilter(l)
    BY <1>1, <1>2, <2>5 DEF AddFilter, Step, By, Undisturbed
  <2>6. CASE Signal(l) \/ Kill(l)
    BY <1>1, <1>2, <2>6 DEF Signal, Kill, Step, Undisturbed
  <2>7. CASE UndoQdisc(l) \/ Unpin(l)
    BY <1>1, <1>2, <2>7 DEF UndoQdisc, Unpin, Step, Undisturbed
  <2>8. CASE CommandFails(l)
    <3>1. /\ UNCHANGED <<qdisc, filters, pinned>> /\ at' = [at EXCEPT ![l] = at'[l]]
          /\ <<l, at[l]>> \in failed'
      BY <2>8 DEF CommandFails, Step, hook
    <3>2. CASE at[l] \in {"undo", "unpin"}
      BY <2>8, <3>1, <3>2 DEF CommandFails, Step, Undisturbed
    <3>3. CASE at[l] \in {"new", "add", "remove", "pin", "filter"}
      <4>1. l \in Hindered'
        BY <3>1, <3>3 DEF Hindered
      <4>2. at'[l] \in {"add", "pin", "fatal"}
        BY <2>8, <3>3 DEF CommandFails, Step
      <4>3. at'[l] = "pin" => at[l] = "remove"
        BY <2>8 DEF CommandFails, Step
      <4>4. QED
        BY <1>2, <3>1, <4>1, <4>2, <4>3 DEF Undisturbed
    <3>4. QED
      BY <2>8, <3>2, <3>3 DEF CommandFails, Step
  <2>9. QED
    BY <1>3, <2>1, <2>2, <2>3, <2>4, <2>5, <2>6, <2>7, <2>8 DEF Loader
<1>4. ASSUME NEW k \in Loaders, k # l, Loader(k)
      PROVE  Undisturbed(l)'
  <2>1. at'[l] = at[l]
    BY <1>4 DEF Loader, DelQdisc, AddQdisc, RemovePin, Pin, AddFilter, Signal, UndoQdisc,
                Unpin, CommandFails, Kill, Step
  <2>2. hook' = hook \/ (l \in Alive => l \in disturbed')
    BY <1>4 DEF Loader, DelQdisc, AddQdisc, RemovePin, Pin, AddFilter, Signal, UndoQdisc,
                Unpin, CommandFails, Kill, By, Noticed
  <2>3. QED
    BY <1>1, <1>2, <2>1, <2>2, OthersDisturb
<1>5. ASSUME NEW a \in Attachments, Attach(a)
      PROVE  Undisturbed(l)'
  BY <1>1, <1>2, <1>5, OthersDisturb DEF Attach, Noticed
<1>6. CASE Pop \/ \E a \in Attachments : Push(a)
  BY <1>1, <1>2, <1>6, OthersDisturb DEF Pop, Push
<1>7. CASE UNCHANGED hookVars
  BY <1>1, <1>2, <1>7, OthersDisturb DEF hookVars
<1>8. QED
  BY <1>3, <1>4, <1>5, <1>6, <1>7 DEF HookNext

LEMMA RecoveringAlways == HookSpec => []Recovering
<1>1. HookInit => Recovering
  BY DEF HookInit, Recovering, Undisturbed
<1>2. QED
  BY <1>1, RecoveringStep, HookTypeCorrect, PTL DEF HookSpec

\* A start gets over whatever an earlier loader left (main.go:46-56): it is fatal only
\* after a step that failed by itself, or somebody who changed the hook meanwhile.
THEOREM StartsRecover == HookSpec => []StartRecovers
<1>1. Recovering => StartRecovers
  BY DEF Recovering, Undisturbed, StartRecovers
<1>2. QED
  BY <1>1, RecoveringAlways, PTL

\* A loader in its loop that nobody disturbed has the only filter and the pin
\* (main.go:60-65): no source is left to the limiter of a loader that was killed.
THEOREM OwnFilterOnly == HookSpec => []OnlyOwnFilter
<1>1. Recovering => OnlyOwnFilter
  BY DEF Recovering, Undisturbed, OnlyOwnFilter
<1>2. QED
  BY <1>1, RecoveringAlways, PTL

----------------------------------------------------------------------------
(* What stays behind.                                                      *)

\* A loader's filter is there only between its last set-up step and its clean-up, or
\* after a deletion that failed; its pin only from its own on, until it is removed.
Remains ==
  \A l \in Loaders :
    /\ l \in Attached => \/ at[l] \in {"loop", "undo", "killed"}
                         \/ at[l] \in {"unpin", "exited"} /\ <<l, "undo">> \in failed
    /\ pinned = l => \/ at[l] \in {"filter", "loop", "undo", "unpin", "killed", "fatal"}
                     \/ at[l] = "exited" /\ <<l, "unpin">> \in failed

\* Whose filters there are after one was put before the others.
LEMMA AttachedFirst ==
  ASSUME NEW S, NEW q \in Seq(S), NEW x \in S
  PROVE  Range(<<x>> \o q) \subseteq Range(q) \cup {x}
<1>1. /\ DOMAIN (<<x>> \o q) = 1..(Len(q) + 1)
      /\ \A i \in 1..(Len(q) + 1) : (<<x>> \o q)[i] = IF i = 1 THEN x ELSE q[i - 1]
  OBVIOUS
<1>2. \A i \in 1..(Len(q) + 1) : i = 1 \/ i - 1 \in DOMAIN q
  OBVIOUS
<1>3. QED
  BY <1>1, <1>2 DEF Range

LEMMA RemainsStep == HookTypeOK /\ Remains /\ [HookNext]_hookVars => Remains'
<1> SUFFICES ASSUME HookTypeOK, Remains, [HookNext]_hookVars
             PROVE  Remains'
  OBVIOUS
<1>1. ASSUME Attached' \subseteq Attached, pinned' \in {pinned, NoPin}, failed \subseteq failed',
             \A k \in Loaders :
               \/ at'[k] = at[k]
               \/ at[k] = "new" /\ at'[k] = "add"
               \/ at[k] \in {"add", "remove"} /\ at'[k] \in {"remove", "pin", "fatal"}
               \/ at[k] \in {"pin", "filter"} /\ at'[k] = "fatal"
               \/ at'[k] = "killed"
               \/ at[k] = "loop" /\ at'[k] = "undo"
               \/ at[k] = "undo" /\ at'[k] = "unpin" /\ (Attached' = {} \/ <<k, "undo">> \in failed')
               \/ at[k] = "unpin" /\ at'[k] = "exited" /\ (pinned' = NoPin \/ <<k, "unpin">> \in failed')
      PROVE  Remains'
  BY <1>1, DistinctAssumption DEF Remains
<1>2. ASSUME NEW l \in Loaders, Loader(l)
      PROVE  Remains'
  <2>1. Range(<<>>) = {}
    BY DEF Range
  <2>2. CASE DelQdisc(l) \/ UndoQdisc(l)
    BY <1>1, <2>1, <2>2 DEF DelQdisc, UndoQdisc, Step, StartClean, Deleted, By, Attached, HookTypeOK
  <2>3. CASE AddQdisc(l)
    BY <1>1, <2>3 DEF AddQdisc, Step, By, Attached, HookTypeOK
  <2>4. CASE RemovePin(l) \/ Unpin(l)
    BY <1>1, <2>4 DEF RemovePin, Unpin, Step, By, Attached, HookTypeOK
  <2>5. CASE Pin(l)
    BY <2>5, DistinctAssumption DEF Pin, Step, By, Attached, HookTypeOK, Remains
  <2>6. CASE AddFilter(l)
    <3>1. Attached' \subseteq Attached \cup {l}
      BY <2>6, AttachedFirst DEF AddFilter, Attached, HookTypeOK
    <3>2. /\ at[l] = "filter" /\ pinned' = pinned /\ failed' = failed
          /\ at'[l] \in {"loop", "fatal"}
          /\ at'[l] = "fatal" => Attached' = Attached
          /\ \A k \in Loaders \ {l} : at'[k] = at[k]
      BY <2>6 DEF AddFilter, Step, By, Attached, HookTypeOK
    <3>3. ASSUME NEW k \in Loaders
          PROVE  /\ k \in Attached' => \/ at'[k] \in {"loop", "undo", "killed"}
                                       \/ at'[k] \in {"unpin", "exited"} /\ <<k, "undo">> \in failed'
                 /\ pinned' = k => \/ at'[k] \in {"filter", "loop", "undo", "unpin", "killed", "fatal"}
                                   \/ at'[k] = "exited" /\ <<k, "unpin">> \in failed'
      <4>1. CASE k = l
        BY <3>2, <4>1 DEF Remains
      <4>2. CASE k # l
        BY <3>1, <3>2, <4>2 DEF Remains
      <4>3. QED
        BY <4>1, <4>2
    <3>4. QED
      BY <3>3 DEF Remains
  <2>7. CASE Signal(l) \/ Kill(l)
    BY <1>1, <2>7 DEF Signal, Kill, Step, hook, Attached, HookTypeOK
  <2>8. CASE CommandFails(l)
    BY <1>1, <2>8 DEF CommandFails, Step, hook, Attached, HookTypeOK
  <2>9. QED
    BY <1>2, <2>2, <2>3, <2>4, <2>5, <2>6, <2>7, <2>8 DEF Loader
<1>3. ASSUME NEW a \in Attachments, Attach(a)
      PROVE  Remains'
  <2>1. Attached' \subseteq Attached \cup {a}
    <3>1. /\ filters' = <<a>> \o filters
          /\ filters \in Seq(Loaders \cup Attachments)
          /\ a \in Loaders \cup Attachments
      BY <1>3 DEF Attach, HookTypeOK
    <3>2. QED
      BY <3>1, AttachedFirst DEF Attached
  <2>2. QED
    BY <1>3, <2>1, DistinctAssumption DEF Attach, Remains
<1>4. CASE Pop \/ \E a \in Attachments : Push(a)
  BY <1>1, <1>4 DEF Pop, Push, hook, Attached
<1>5. CASE UNCHANGED hookVars
  BY <1>1, <1>5 DEF hookVars, hook, Attached
<1>6. QED
  BY <1>2, <1>3, <1>4, <1>5 DEF HookNext

\* A filter is left behind only by a kill or a failed deletion, a pin only by a kill, a
\* loader that gave up, or a failed removal (main.go:57, 63, 65).
THEOREM LeftBehindExplained == HookSpec => []LeftBehind
<1>1. HookInit => Remains
  <2>1. Range(<<>>) = {}
    BY DEF Range
  <2>2. QED
    BY <2>1, DistinctAssumption DEF HookInit, Remains, Attached
<1>2. Remains => LeftBehind
  BY DEF Remains, LeftBehind, Alive
<1>3. QED
  BY <1>1, <1>2, RemainsStep, HookTypeCorrect, PTL DEF HookSpec

----------------------------------------------------------------------------
(* The queue.                                                              *)

\* What an attachment let through is in its queue, and the loader's own queue is empty.
Filling ==
  /\ \A a \in Attachments : passed[a] = queued[a]
  /\ queued[Own] = 0
  /\ ~popped

\* The queue that is filled is popped by nobody (series 10, main.go:35, 50): an attachment
\* lets no more than max_entries packets through, and pop never shows one.
THEOREM QueueIsOnlyFilled == HookSpec => []QueueOnlyFills
<1>1. HookInit => Filling
  BY DEF HookInit, Filling, Instances
<1>2. HookTypeOK /\ Filling /\ [HookNext]_hookVars => Filling'
  <2> SUFFICES ASSUME HookTypeOK, Filling, [HookNext]_hookVars
               PROVE  Filling'
    OBVIOUS
  <2>1. ASSUME NEW a \in Attachments, Push(a)
        PROVE  Filling'
    BY <2>1, DistinctAssumption DEF Push, Filling, Instances, HookTypeOK
  <2>2. CASE Pop
    BY <2>2, DistinctAssumption DEF Pop, Popped, Filling, Instances, HookTypeOK
  <2>3. ASSUME UNCHANGED shaper
        PROVE  Filling'
    BY <2>3 DEF shaper, Filling
  <2>4. ASSUME NEW l \in Loaders, Loader(l)
        PROVE  UNCHANGED shaper
    BY <2>4 DEF Loader, DelQdisc, AddQdisc, RemovePin, Pin, AddFilter, Signal, UndoQdisc,
                Unpin, CommandFails, Kill, By
  <2>5. QED
    BY <2>1, <2>2, <2>3, <2>4 DEF HookNext, Attach, hookVars
<1>3. HookTypeOK /\ Filling => QueueOnlyFills
  BY QueueAssumption DEF HookTypeOK, Filling, QueueOnlyFills, Instances
<1>4. QED
  BY <1>1, <1>2, <1>3, HookTypeCorrect, PTL DEF HookSpec

=============================================================================
