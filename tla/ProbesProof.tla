---------------------------- MODULE ProbesProof ----------------------------
(***************************************************************************)
(* The lessons on kprobes and uprobes (03, 04), for any number of CPUs,    *)
(* requests and writes.  A latency is that of its own request, an entry    *)
(* stays only for a completion that was not seen, the two histograms agree *)
(* between commands, and a printed histogram has a sum it had meanwhile.   *)
(* A captured line shows its own write's bytes, and "Intercepted" counts   *)
(* what was sent or is about to be.                                        *)
(***************************************************************************)
EXTENDS IoLatency, TlsCapture, FiniteSetTheorems, TLAPS

----------------------------------------------------------------------------
(* Sums.                                                                   *)

\* The element a fold takes out of a set first, and the function it iterates.
Pick(T) == CHOOSE x \in T : TRUE
Iterates(g, f, S) ==
  g = [T \in SUBSET S |-> IF T = {} THEN 0 ELSE f[Pick(T)] + g[T \ {Pick(T)}]]

\* Among sets of a finite set's elements there is one none of the others is part of.
LEMMA Smallest ==
  ASSUME NEW S, IsFiniteSet(S), NEW Bad, Bad \subseteq SUBSET S, Bad # {}
  PROVE  \E T \in Bad : \A U \in Bad : U \subseteq T => U = T
<1>1. Bad \subseteq FiniteSubsetsOf(S)
  BY FS_Subset DEF FiniteSubsetsOf
<1>2. PICK T \in Bad : \A U \in Bad : <<U, T>> \notin StrictSubsetOrdering(S)
  BY <1>1, FS_StrictSubsetOrderingWellFounded, WFMin
<1>3. QED
  BY <1>1, <1>2 DEF StrictSubsetOrdering

\* The iteration is the same function from whichever set it starts.
LEMMA IterateUnique ==
  ASSUME NEW f, NEW S, NEW T, IsFiniteSet(S), NEW g, NEW h,
         Iterates(g, f, S), Iterates(h, f, T)
  PROVE  \A U \in SUBSET S : U \subseteq T => g[U] = h[U]
<1> DEFINE Bad == {U \in SUBSET S : U \subseteq T /\ g[U] # h[U]}
<1>1. SUFFICES ASSUME Bad # {} PROVE FALSE
  OBVIOUS
<1>2. PICK U \in Bad : \A V \in Bad : V \subseteq U => V = U
  <2>1. Bad \subseteq SUBSET S
    OBVIOUS
  <2> HIDE DEF Bad
  <2>2. QED
    BY <1>1, <2>1, Smallest
<1>3. U # {}
  BY DEF Iterates
<1>4. Pick(U) \in U
  BY <1>3 DEF Pick
<1>5. g[U \ {Pick(U)}] = h[U \ {Pick(U)}]
  BY <1>2, <1>4
<1>6. g[U] = f[Pick(U)] + g[U \ {Pick(U)}] /\ h[U] = f[Pick(U)] + h[U \ {Pick(U)}]
  BY <1>3 DEF Iterates
<1>7. QED
  BY <1>5, <1>6

\* The iteration is a function.
LEMMA IterateExists ==
  ASSUME NEW f, NEW S, IsFiniteSet(S)
  PROVE  \E g : Iterates(g, f, S)
<1> DEFINE Bad == {U \in SUBSET S : ~\E g : Iterates(g, f, U)}
<1>1. SUFFICES ASSUME Bad # {} PROVE FALSE
  OBVIOUS
<1>2. PICK U \in Bad : \A V \in Bad : V \subseteq U => V = U
  <2>1. Bad \subseteq SUBSET S
    OBVIOUS
  <2> HIDE DEF Bad
  <2>2. QED
    BY <1>1, <2>1, Smallest
<1> DEFINE G(V) == CHOOSE g : Iterates(g, f, V)
           h == [V \in SUBSET U |-> IF V = {} THEN 0
                                    ELSE f[Pick(V)] + G(V \ {Pick(V)})[V \ {Pick(V)}]]
<1>3. ASSUME NEW V \in SUBSET U, V # U
      PROVE  Iterates(G(V), f, V)
  BY <1>2, <1>3
<1>4. ASSUME NEW V \in SUBSET U, V # U
      PROVE  h[V] = G(V)[V]
  <2>1. CASE V = {}
    <3>1. Iterates(G(V), f, V) /\ h[V] = 0
      BY <1>3, <1>4, <2>1
    <3> HIDE DEF G, h
    <3>2. G(V)[V] = 0
      BY <2>1, <3>1 DEF Iterates
    <3>3. QED
      BY <3>1, <3>2
  <2>2. CASE V # {}
    <3>1. Pick(V) \in V
      BY <2>2 DEF Pick
    <3>2. V \ {Pick(V)} \in SUBSET U /\ V \ {Pick(V)} # U /\ IsFiniteSet(V)
      BY <3>1, <1>4, FS_Subset
    <3>3. Iterates(G(V), f, V) /\ Iterates(G(V \ {Pick(V)}), f, V \ {Pick(V)})
      BY <3>2, <1>3, <1>4
    <3>4. G(V)[V \ {Pick(V)}] = G(V \ {Pick(V)})[V \ {Pick(V)}]
      BY <3>2, <3>3, IterateUnique
    <3>5. G(V)[V] = f[Pick(V)] + G(V)[V \ {Pick(V)}]
      BY <2>2, <3>3 DEF Iterates
    <3>6. QED
      BY <2>2, <3>4, <3>5
  <2>3. QED
    BY <2>1, <2>2
<1>5. ASSUME NEW V \in SUBSET U, V # {}
      PROVE  h[V] = f[Pick(V)] + h[V \ {Pick(V)}]
  <2>1. Pick(V) \in V
    BY <1>5 DEF Pick
  <2>2. h[V \ {Pick(V)}] = G(V \ {Pick(V)})[V \ {Pick(V)}]
    BY <2>1, <1>4
  <2>3. QED
    BY <2>2, <1>5
<1>6. h = [V \in SUBSET U |-> h[V]] /\ h[{}] = 0
  OBVIOUS
<1> HIDE DEF h
<1>7. Iterates(h, f, U)
  BY <1>5, <1>6 DEF Iterates
<1>8. QED
  BY <1>7

\* A sum is one of its values and the sum of the others.
LEMMA SumUnfold ==
  ASSUME NEW f, NEW S, IsFiniteSet(S)
  PROVE  SumFunctionOnSet(f, S) =
           IF S = {} THEN 0 ELSE f[Pick(S)] + SumFunctionOnSet(f, S \ {Pick(S)})
<1> DEFINE G(V) == CHOOSE g : Iterates(g, f, V)
<1>1. \A V : SumFunctionOnSet(f, V) = G(V)[V]
  BY DEF SumFunctionOnSet, FoldFunctionOnSet, MapThenFoldSet, Iterates, Pick
<1>2. IsFiniteSet(S \ {Pick(S)})
  BY FS_Subset
<1>3. Iterates(G(S), f, S) /\ Iterates(G(S \ {Pick(S)}), f, S \ {Pick(S)})
  BY <1>2, IterateExists
<1> HIDE DEF G
<1>4. CASE S = {}
  <2>1. G(S)[S] = 0
    BY <1>3, <1>4 DEF Iterates
  <2>2. QED
    BY <1>1, <1>4, <2>1
<1>5. CASE S # {}
  <2>1. G(S)[S] = f[Pick(S)] + G(S)[S \ {Pick(S)}]
    BY <1>3, <1>5 DEF Iterates
  <2>2. G(S)[S \ {Pick(S)}] = G(S \ {Pick(S)})[S \ {Pick(S)}]
    BY <1>3, IterateUnique
  <2>3. QED
    BY <1>1, <1>5, <2>1, <2>2
<1>6. QED
  BY <1>4, <1>5

\* A sum of naturals is one, and any of them can be taken out of it first.
LEMMA SumRemove ==
  ASSUME NEW S, IsFiniteSet(S), NEW f, \A x \in S : f[x] \in Nat
  PROVE  /\ SumFunctionOnSet(f, S) \in Nat
         /\ \A y \in S : SumFunctionOnSet(f, S) = f[y] + SumFunctionOnSet(f, S \ {y})
<1> DEFINE Sum(T) == SumFunctionOnSet(f, T)
           Good(T) == Sum(T) \in Nat /\ \A y \in T : Sum(T) = f[y] + Sum(T \ {y})
           Bad == {T \in SUBSET S : ~Good(T)}
<1>1. SUFFICES ASSUME Bad # {} PROVE FALSE
  OBVIOUS
<1>2. PICK T \in Bad : \A U \in Bad : U \subseteq T => U = T
  <2>1. Bad \subseteq SUBSET S
    OBVIOUS
  <2> HIDE DEF Bad
  <2>2. QED
    BY <1>1, <2>1, Smallest
<1> DEFINE p == Pick(T)
<1>3. \A U \in SUBSET S : Sum(U) = IF U = {} THEN 0 ELSE f[Pick(U)] + Sum(U \ {Pick(U)})
  BY SumUnfold, FS_Subset
<1>4. \A U \in SUBSET T : U # T => Good(U)
  BY <1>2
<1> HIDE DEF Sum
<1>5. CASE T = {}
  <2>1. Sum(T) = 0
    BY <1>3, <1>5
  <2>2. QED
    BY <1>5, <2>1
<1>6. CASE T # {}
  <2>1. p \in T
    BY <1>6 DEF Pick
  <2>2. Sum(T) = f[p] + Sum(T \ {p}) /\ Good(T \ {p})
    BY <1>3, <1>4, <1>6, <2>1
  <2>3. Sum(T) \in Nat
    BY <2>1, <2>2
  <2>4. ASSUME NEW y \in T, y # p
        PROVE  Sum(T) = f[y] + Sum(T \ {y})
    <3>1. Sum(T \ {p}) = f[y] + Sum((T \ {p}) \ {y})
      BY <2>2, <2>4
    <3>2. Good(T \ {y}) /\ p \in T \ {y}
      BY <1>4, <2>1, <2>4
    <3>3. Sum(T \ {y}) = f[p] + Sum((T \ {y}) \ {p})
      BY <3>2
    <3>4. (T \ {p}) \ {y} = (T \ {y}) \ {p}
      OBVIOUS
    <3>5. Good((T \ {y}) \ {p})
      BY <1>4, <2>1
    <3>6. f[p] \in Nat /\ f[y] \in Nat
      BY <2>1
    <3>7. QED
      BY <2>2, <3>1, <3>3, <3>4, <3>5, <3>6
  <2>5. QED
    BY <1>2, <2>2, <2>3, <2>4
<1>7. QED
  BY <1>5, <1>6

\* A sum depends on the summed values only.
LEMMA SumAgree ==
  ASSUME NEW S, IsFiniteSet(S), NEW f, NEW g, \A x \in S : f[x] = g[x]
  PROVE  SumFunctionOnSet(f, S) = SumFunctionOnSet(g, S)
<1> DEFINE Bad == {T \in SUBSET S : SumFunctionOnSet(f, T) # SumFunctionOnSet(g, T)}
<1>1. SUFFICES ASSUME Bad # {} PROVE FALSE
  OBVIOUS
<1>2. PICK T \in Bad : \A U \in Bad : U \subseteq T => U = T
  <2>1. Bad \subseteq SUBSET S
    OBVIOUS
  <2> HIDE DEF Bad
  <2>2. QED
    BY <1>1, <2>1, Smallest
<1>3. IsFiniteSet(T)
  BY FS_Subset
<1>4. T # {}
  BY <1>3, SumUnfold
<1>5. Pick(T) \in T
  BY <1>4 DEF Pick
<1>6. SumFunctionOnSet(f, T \ {Pick(T)}) = SumFunctionOnSet(g, T \ {Pick(T)})
  BY <1>2, <1>5
<1>7. QED
  BY <1>3, <1>4, <1>5, <1>6, SumUnfold

\* Changing one of the summed values changes the sum as much.
LEMMA SumChange ==
  ASSUME NEW S, IsFiniteSet(S), NEW f, NEW g, NEW y,
         \A x \in S : f[x] \in Nat /\ g[x] \in Nat /\ (x # y => g[x] = f[x])
  PROVE  SumFunctionOnSet(g, S) = SumFunctionOnSet(f, S) + (IF y \in S THEN g[y] - f[y] ELSE 0)
<1>1. CASE y \in S
  <2>1. IsFiniteSet(S \ {y})
    BY FS_Subset
  <2>2. SumFunctionOnSet(f, S) = f[y] + SumFunctionOnSet(f, S \ {y})
    BY <1>1, SumRemove
  <2>3. SumFunctionOnSet(g, S) = g[y] + SumFunctionOnSet(g, S \ {y})
    BY <1>1, SumRemove
  <2>4. SumFunctionOnSet(g, S \ {y}) = SumFunctionOnSet(f, S \ {y})
    BY <2>1, SumAgree
  <2>5. SumFunctionOnSet(f, S \ {y}) \in Nat /\ f[y] \in Nat /\ g[y] \in Nat
    BY <1>1, <2>1, SumRemove
  <2>6. QED
    BY <1>1, <2>2, <2>3, <2>4, <2>5
<1>2. CASE y \notin S
  <2>1. SumFunctionOnSet(g, S) = SumFunctionOnSet(f, S)
    BY <1>2, SumAgree
  <2>2. SumFunctionOnSet(f, S) \in Nat
    BY SumRemove
  <2>3. QED
    BY <1>2, <2>1, <2>2
<1>3. QED
  BY <1>1, <1>2

\* A sum of zeros is zero.
LEMMA SumZero ==
  ASSUME NEW S, IsFiniteSet(S), NEW f, \A x \in S : f[x] = 0
  PROVE  SumFunctionOnSet(f, S) = 0
<1> DEFINE Bad == {T \in SUBSET S : SumFunctionOnSet(f, T) # 0}
<1>1. SUFFICES ASSUME Bad # {} PROVE FALSE
  OBVIOUS
<1>2. PICK T \in Bad : \A U \in Bad : U \subseteq T => U = T
  <2>1. Bad \subseteq SUBSET S
    OBVIOUS
  <2> HIDE DEF Bad
  <2>2. QED
    BY <1>1, <2>1, Smallest
<1>3. IsFiniteSet(T)
  BY FS_Subset
<1>4. T # {}
  BY <1>3, SumUnfold
<1>5. Pick(T) \in T
  BY <1>4 DEF Pick
<1>6. SumFunctionOnSet(f, T \ {Pick(T)}) = 0
  BY <1>2, <1>5
<1>7. QED
  BY <1>3, <1>4, <1>5, <1>6, SumUnfold

\* A sum of smaller values is smaller.
LEMMA SumMonotone ==
  ASSUME NEW S, IsFiniteSet(S), NEW f, NEW g,
         \A x \in S : f[x] \in Nat /\ g[x] \in Nat /\ f[x] <= g[x]
  PROVE  SumFunctionOnSet(f, S) <= SumFunctionOnSet(g, S)
<1> DEFINE Bad == {T \in SUBSET S : ~(SumFunctionOnSet(f, T) <= SumFunctionOnSet(g, T))}
<1>1. SUFFICES ASSUME Bad # {} PROVE FALSE
  OBVIOUS
<1>2. PICK T \in Bad : \A U \in Bad : U \subseteq T => U = T
  <2>1. Bad \subseteq SUBSET S
    OBVIOUS
  <2> HIDE DEF Bad
  <2>2. QED
    BY <1>1, <2>1, Smallest
<1>3. IsFiniteSet(T)
  BY FS_Subset
<1>4. T # {}
  <2>1. T = {} => SumFunctionOnSet(f, T) = 0 /\ SumFunctionOnSet(g, T) = 0
    BY <1>3, SumUnfold
  <2>2. QED
    BY <2>1
<1>5. PICK y \in T : TRUE
  BY <1>4
<1>6. SumFunctionOnSet(f, T \ {y}) <= SumFunctionOnSet(g, T \ {y})
  BY <1>2
<1>7. /\ SumFunctionOnSet(f, T) = f[y] + SumFunctionOnSet(f, T \ {y})
      /\ SumFunctionOnSet(g, T) = g[y] + SumFunctionOnSet(g, T \ {y})
  BY <1>3, SumRemove
<1>8. IsFiniteSet(T \ {y})
  BY <1>3, FS_Subset
<1>9. SumFunctionOnSet(f, T \ {y}) \in Nat /\ SumFunctionOnSet(g, T \ {y}) \in Nat
  BY <1>8, SumRemove
<1>10. QED
  BY <1>6, <1>7, <1>9

----------------------------------------------------------------------------
(* The latency histograms: type correctness.                               *)

LEMMA KeysFinite == IsFiniteSet(Keys) /\ Cardinality(Keys) \in Nat
BY SetAssumption, FS_Subset, FS_CardinalityType DEF Keys

LEMMA BucketsFinite == /\ IsFiniteSet(Bucket) /\ 0 \in Bucket
                       /\ Buckets \in Nat /\ 0 \in 0 .. Buckets
<1>1. Buckets \in Nat /\ Buckets > 0
  BY SizeAssumption
<1>2. 0 \in Int /\ Buckets - 1 \in Int
  BY <1>1
<1>3. IsFiniteSet(0 .. Buckets - 1)
  BY <1>2, FS_Interval
<1>4. QED
  BY <1>1, <1>3 DEF Bucket

LEMMA BucketInRange == ASSUME NEW d \in Int PROVE BucketOf(d) \in Bucket
BY SizeAssumption DEF BucketOf, Least, Bucket

\* A histogram's sum is over its buckets.
LEMMA HistSum ==
  ASSUME hist \in [Maps -> [Bucket -> Nat]]
  PROVE  /\ SumFunction(hist["latencies"]) = SumFunctionOnSet(hist["latencies"], Bucket)
         /\ SumFunction(hist["latencies"]) \in Nat
<1>1. DOMAIN hist["latencies"] = Bucket /\ \A b \in Bucket : hist["latencies"][b] \in Nat
  BY DEF Maps
<1>2. SumFunctionOnSet(hist["latencies"], Bucket) \in Nat
  BY <1>1, BucketsFinite, SumRemove
<1>3. QED
  BY <1>1, <1>2 DEF SumFunction, FoldFunction, SumFunctionOnSet

\* What is used of an array map after an addition.
LEMMA HistTyped ==
  ASSUME hist \in [Maps -> [Bucket -> Nat]], NEW m \in Maps, NEW b \in Bucket, NEW n \in Nat,
         hist' = [hist EXCEPT ![m][b] = n]
  PROVE  hist' \in [Maps -> [Bucket -> Nat]]
OBVIOUS

\* The map does not grow but by an entry that has room.
LEMMA RoomKept ==
  ASSUME Cardinality(Keys) <= MaxEntries, NEW r \in Requests,
         \/ Keys' \subseteq Keys
         \/ Keys' \subseteq Keys \cup {r} /\ Cardinality(Keys \cup {r}) <= MaxEntries
  PROVE  Cardinality(Keys') <= MaxEntries
<1>1. IsFiniteSet(Keys) /\ IsFiniteSet(Keys \cup {r})
  BY KeysFinite, FS_AddElement
<1>2. MaxEntries \in Nat
  BY SizeAssumption
<1>3. CASE Keys' \subseteq Keys
  <2>1. IsFiniteSet(Keys') /\ Cardinality(Keys') <= Cardinality(Keys)
    BY <1>1, <1>3, FS_Subset
  <2>2. Cardinality(Keys') \in Nat /\ Cardinality(Keys) \in Nat
    BY <1>1, <2>1, FS_CardinalityType
  <2>3. QED
    BY <1>2, <2>1, <2>2
<1>4. CASE Keys' \subseteq Keys \cup {r} /\ Cardinality(Keys \cup {r}) <= MaxEntries
  <2>1. IsFiniteSet(Keys') /\ Cardinality(Keys') <= Cardinality(Keys \cup {r})
    BY <1>1, <1>4, FS_Subset
  <2>2. Cardinality(Keys') \in Nat /\ Cardinality(Keys \cup {r}) \in Nat
    BY <1>1, <2>1, FS_CardinalityType
  <2>3. QED
    BY <1>2, <1>4, <2>1, <2>2
<1>5. QED
  BY <1>3, <1>4

\* A CPU has a request from its entry into trace_io_done to its return.
HasRequest == \A c \in CPUs : pc[c] # "idle" => req[c] \in Requests

LEMMA HasRequestStep == TypeOK /\ HasRequest /\ [Next]_vars => HasRequest'
<1> SUFFICES ASSUME TypeOK, HasRequest, [Next]_vars
             PROVE  HasRequest'
  OBVIOUS
<1> USE DEF TypeOK, HasRequest
<1>1. CASE IO
  BY <1>1 DEF IO, Time, Store, MapFull, StartUnseen, DoneUnseen, Issue, program
<1>2. ASSUME NEW c \in CPUs, Program(c)
      PROVE  HasRequest'
  BY <1>2 DEF Program, Done, Unknown, Measure, Delete, AddLatency, AddRead, Return
<1>3. CASE Loader
  BY <1>3 DEF Loader, AttachStart, AttachDone, Signal, DetachDone, DetachStart, TickPrint,
              ReadBucket, EndPrint, Clear, ClearBucket, program
<1>4. CASE UNCHANGED vars
  BY <1>4 DEF vars, program
<1>5. QED
  BY <1>1, <1>2, <1>3, <1>4 DEF Next

LEMMA TypeOKStep == TypeOK /\ HasRequest /\ [Next]_vars => TypeOK'
<1> SUFFICES ASSUME TypeOK, HasRequest, [Next]_vars
             PROVE  TypeOK'
  OBVIOUS
<1> USE DEF TypeOK
<1>1. ASSUME Time
      PROVE  TypeOK'
  BY <1>1 DEF Time, program, print, Keys
<1>2. ASSUME NEW r \in Requests, Store(r)
      PROVE  TypeOK'
  <2>1. start_times' \in [Requests -> Nat \cup {NULL}] /\ Keys' \subseteq Keys \cup {r}
    BY <1>2 DEF Store, Keys
  <2>2. Cardinality(Keys') <= MaxEntries
    BY <1>2, <2>1, RoomKept DEF Store
  <2>3. QED
    BY <1>2, <2>1, <2>2 DEF Store, Issue, program, print
<1>3. ASSUME NEW r \in Requests, MapFull(r) \/ StartUnseen(r)
      PROVE  TypeOK'
  <2>1. /\ io' = [io EXCEPT ![r] = "issued"] /\ ios' = ios + 1
        /\ UNCHANGED <<start_times, born, stored, unseen>>
        /\ UNCHANGED <<now, program, hist, probes, main, cli, next, print>>
    BY <1>3 DEF MapFull, StartUnseen, Issue
  <2>2. QED
    BY <2>1 DEF program, print, Keys
<1>4. ASSUME NEW r \in Requests, DoneUnseen(r)
      PROVE  TypeOK'
  BY <1>4 DEF DoneUnseen, program, print, Keys
<1>5. ASSUME NEW c \in CPUs, NEW r \in Requests, Done(c, r)
      PROVE  TypeOK'
  BY <1>5 DEF Done, print, Keys
<1>6. ASSUME NEW c \in CPUs, Return(c)
      PROVE  /\ io' \in [Requests -> {"free", "issued", "completing"}]
             /\ pc' \in [CPUs -> {"idle", "lookup", "delete", "latencies", "read_lat"}]
             /\ req' \in [CPUs -> Requests \cup {NULL}]
             /\ bucket' \in [CPUs -> Bucket]
             /\ born' \in [Requests -> Nat] /\ stored' \in [Requests -> BOOLEAN]
             /\ now' \in Nat /\ ios' \in Nat
  BY <1>6, BucketsFinite DEF Return
<1>7. ASSUME NEW c \in CPUs, Unknown(c)
      PROVE  TypeOK'
  BY <1>6, <1>7 DEF Unknown, print, Keys
<1>8. ASSUME NEW c \in CPUs, Measure(c)
      PROVE  TypeOK'
  <2>1. start_times[req[c]] \in Nat
    BY <1>8 DEF Measure, HasRequest
  <2>2. BucketOf(now - start_times[req[c]]) \in Bucket
    BY <2>1, BucketInRange
  <2>3. QED
    BY <1>8, <2>2 DEF Measure, block, print, Keys
<1>9. ASSUME NEW c \in CPUs, Delete(c)
      PROVE  TypeOK'
  <2>1. start_times' \in [Requests -> Nat \cup {NULL}] /\ Keys' \subseteq Keys
    BY <1>9 DEF Delete, Keys
  <2>2. Cardinality(Keys') <= MaxEntries
    BY <1>9, <2>1, RoomKept DEF Delete, HasRequest
  <2>3. QED
    BY <1>9, <2>1, <2>2 DEF Delete, print
<1>10. ASSUME NEW c \in CPUs, AddLatency(c)
       PROVE  TypeOK'
  <2>1. hist' \in [Maps -> [Bucket -> Nat]]
    BY <1>10, HistTyped DEF AddLatency, Maps
  <2>2. QED
    BY <1>10, <2>1 DEF AddLatency, block, print, Keys
<1>11. ASSUME NEW c \in CPUs, AddRead(c)
       PROVE  TypeOK'
  <2>1. hist' \in [Maps -> [Bucket -> Nat]]
    BY <1>11, HistTyped DEF AddRead, Maps
  <2>2. QED
    BY <1>6, <1>11, <2>1 DEF AddRead, print, Keys
<1>12. CASE AttachStart \/ AttachDone \/ DetachDone \/ DetachStart \/ Clear
  BY <1>12 DEF AttachStart, AttachDone, DetachDone, DetachStart, Clear, block, program, print,
               Keys, Maps
<1>13. CASE Signal \/ TickPrint
  <2>1. SumFunction(hist["latencies"]) \in Nat
    BY HistSum
  <2>2. /\ printing' = TRUE /\ i' = 0 /\ sum' = 0 /\ least' \in Nat
        /\ main' \in {main, "final"}
        /\ UNCHANGED <<block, program, start_times, hist, probes, cli, next>>
    BY <1>13, <2>1 DEF Signal, TickPrint, StartPrint
  <2>3. 0 \in 0 .. Buckets
    BY BucketsFinite
  <2>4. QED
    BY <2>2, <2>3 DEF block, program, Keys
<1>14. CASE ReadBucket
  <2>1. i \in Bucket /\ i + 1 \in 0 .. Buckets
    BY <1>14, SizeAssumption DEF ReadBucket, Bucket
  <2>2. hist["latencies"][i] \in Nat
    BY <2>1 DEF Maps
  <2>3. QED
    BY <1>14, <2>1, <2>2 DEF ReadBucket, block, program, Keys
<1>15. CASE EndPrint
  <2>1. 0 \in 0 .. Buckets
    BY BucketsFinite
  <2>2. /\ printing' = FALSE /\ i' = 0 /\ sum' = 0 /\ least' = NULL
        /\ main' \in {main, "detach"}
        /\ UNCHANGED <<block, program, start_times, hist, probes, cli, next>>
    BY <1>15 DEF EndPrint
  <2>3. QED
    BY <2>1, <2>2 DEF block, program, Keys
<1>16. CASE ClearBucket
  <2>1. hist' \in [Maps -> [Bucket -> Nat]]
    BY <1>16, HistTyped DEF ClearBucket
  <2>2. next' \in Bucket
    BY <1>16, SizeAssumption DEF ClearBucket, Bucket
  <2>3. cli' \in {"idle"} \cup Maps
    BY <1>16 DEF ClearBucket, Follows, Maps
  <2>4. QED
    BY <1>16, <2>1, <2>2, <2>3 DEF ClearBucket, block, program, Keys
<1>17. CASE UNCHANGED vars
  BY <1>17 DEF vars, block, program, print, Keys
<1>18. QED
  BY <1>1, <1>2, <1>3, <1>4, <1>5, <1>7, <1>8, <1>9, <1>10, <1>11, <1>12, <1>13, <1>14, <1>15,
     <1>16, <1>17 DEF Next, IO, Program, Loader

\* Every variable keeps its type, and start_times never has more than max_entries.
THEOREM TypeCorrect == Spec => []TypeOK
<1>1. Init => TypeOK
  <2> SUFFICES ASSUME Init
               PROVE  TypeOK
    OBVIOUS
  <2>1. Cardinality(Keys) <= MaxEntries
    <3>1. Keys = {}
      BY DEF Init, Keys
    <3>2. QED
      BY <3>1, FS_EmptySet, SizeAssumption
  <2>2. io \in [Requests -> {"free", "issued", "completing"}]
    <3>1. io \in [Requests -> {"free", "issued"}]
      BY DEF Init
    <3>2. QED
      BY <3>1
  <2>3. 0 \in Bucket /\ 0 \in 0 .. Buckets
    BY BucketsFinite
  <2>4. hist \in [Maps -> [Bucket -> Nat]] /\ bucket \in [CPUs -> Bucket]
    BY <2>3 DEF Init, Empty
  <2>5. /\ pc \in [CPUs -> {"idle", "lookup", "delete", "latencies", "read_lat"}]
        /\ req \in [CPUs -> Requests \cup {NULL}]
        /\ start_times \in [Requests -> Nat \cup {NULL}]
        /\ born \in [Requests -> Nat] /\ stored \in [Requests -> BOOLEAN]
    BY DEF Init
  <2>6. QED
    BY <2>1, <2>2, <2>3, <2>4, <2>5 DEF Init, TypeOK
<1>2. Init => HasRequest
  BY DEF Init, HasRequest
<1>3. QED
  BY <1>1, <1>2, TypeOKStep, HasRequestStep, PTL DEF Spec

----------------------------------------------------------------------------
(* The latency histograms: start and end.                                  *)

\* A request that is being completed is one CPU's, and nobody starts it meanwhile.
Completing ==
  /\ HasRequest
  /\ \A c \in CPUs : pc[c] # "idle" => io[req[c]] = "completing"
  /\ \A c, d \in CPUs : pc[c] # "idle" /\ pc[d] # "idle" /\ req[c] = req[d] => c = d

\* A request whose start was stored has its own time in the map until it is deleted.
Timed ==
  \A r \in Requests :
    /\ born[r] <= now
    /\ stored[r] => io[r] # "free"
    /\ stored[r] => \/ start_times[r] = born[r]
                    \/ \E c \in CPUs : req[c] = r /\ pc[c] \in {"latencies", "read_lat"}

\* There is no entry for a request once its CPU has deleted it, and the others are
\* explained.
Taken ==
  /\ \A c \in CPUs : pc[c] \in {"latencies", "read_lat"} => start_times[req[c]] = NULL
  /\ StaleExplained

Paired == Completing /\ Timed /\ Taken

LEMMA LoaderApart == Loader \/ UNCHANGED vars => UNCHANGED <<block, program, start_times>>
BY DEF Loader, AttachStart, AttachDone, Signal, DetachDone, DetachStart, TickPrint, ReadBucket,
       EndPrint, Clear, ClearBucket, vars

LEMMA CompletingStep == TypeOK /\ Completing /\ [Next]_vars => Completing'
<1> SUFFICES ASSUME TypeOK, Completing, [Next]_vars
             PROVE  Completing'
  OBVIOUS
<1>0. HasRequest'
  BY HasRequestStep DEF Completing
<1> USE DEF Completing, HasRequest, TypeOK
<1>1. ASSUME NEW r \in Requests, Store(r) \/ MapFull(r) \/ StartUnseen(r)
      PROVE  Completing'
  BY <1>0, <1>1 DEF Store, MapFull, StartUnseen, Issue, program
<1>2. ASSUME NEW r \in Requests, DoneUnseen(r)
      PROVE  Completing'
  BY <1>0, <1>2 DEF DoneUnseen, program
<1>3. CASE Time
  BY <1>0, <1>3 DEF Time, program
<1>4. ASSUME NEW c \in CPUs, NEW r \in Requests, Done(c, r)
      PROVE  Completing'
  <2>1. \A d \in CPUs : pc[d] # "idle" => req[d] # r
    BY <1>4 DEF Done
  <2>2. QED
    BY <1>0, <1>4, <2>1 DEF Done
<1>5. ASSUME NEW c \in CPUs, pc[c] # "idle", Return(c)
      PROVE  Completing'
  <2>1. \A d \in CPUs : d # c /\ pc[d] # "idle" => req[d] # req[c]
    BY <1>5
  <2>2. QED
    BY <1>0, <1>5, <2>1 DEF Return
<1>6. ASSUME NEW c \in CPUs, Unknown(c) \/ AddRead(c)
      PROVE  Completing'
  BY <1>5, <1>6 DEF Unknown, AddRead
<1>7. ASSUME NEW c \in CPUs, Measure(c) \/ Delete(c) \/ AddLatency(c)
      PROVE  Completing'
  BY <1>0, <1>7 DEF Measure, Delete, AddLatency, block
<1>8. CASE Loader \/ UNCHANGED vars
  BY <1>0, <1>8, LoaderApart DEF block, program
<1>9. QED
  BY <1>1, <1>2, <1>3, <1>4, <1>6, <1>7, <1>8 DEF Next, IO, Program

LEMMA TimedStep == TypeOK /\ Completing /\ Timed /\ [Next]_vars => Timed'
<1> SUFFICES ASSUME TypeOK, Completing, Timed, [Next]_vars
             PROVE  Timed'
  OBVIOUS
<1> USE DEF Completing, HasRequest, Timed, TypeOK
<1>1. ASSUME NEW r \in Requests, Store(r)
      PROVE  Timed'
  BY <1>1 DEF Store, Issue, program
<1>2. ASSUME NEW r \in Requests, MapFull(r) \/ StartUnseen(r)
      PROVE  Timed'
  BY <1>2 DEF MapFull, StartUnseen, Issue, program
<1>3. ASSUME NEW r \in Requests, DoneUnseen(r)
      PROVE  Timed'
  BY <1>3 DEF DoneUnseen, program
<1>4. CASE Time
  BY <1>4 DEF Time, program
<1>5. ASSUME NEW c \in CPUs, NEW r \in Requests, Done(c, r)
      PROVE  Timed'
  BY <1>5 DEF Done
<1>6. ASSUME NEW c \in CPUs, pc[c] # "idle", Return(c), start_times' = start_times
      PROVE  Timed'
  <2>1. ASSUME NEW r \in Requests, r # req[c]
        PROVE  (\E d \in CPUs : req[d] = r /\ pc[d] \in {"latencies", "read_lat"}) =>
                 \E d \in CPUs : req'[d] = r /\ pc'[d] \in {"latencies", "read_lat"}
    BY <1>6, <2>1 DEF Return
  <2>2. /\ now' = now
        /\ \A r \in Requests \ {req[c]} : born'[r] = born[r] /\ stored'[r] = stored[r]
                                          /\ io'[r] = io[r]
        /\ born'[req[c]] = 0 /\ stored'[req[c]] = FALSE
    BY <1>6 DEF Return
  <2>3. QED
    BY <1>6, <2>1, <2>2
<1>7. ASSUME NEW c \in CPUs, Unknown(c) \/ AddRead(c)
      PROVE  Timed'
  BY <1>6, <1>7 DEF Unknown, AddRead
<1>8. ASSUME NEW c \in CPUs, Measure(c) \/ AddLatency(c)
      PROVE  Timed'
  BY <1>8 DEF Measure, AddLatency, block
<1>9. ASSUME NEW c \in CPUs, Delete(c)
      PROVE  Timed'
  BY <1>9 DEF Delete
<1>10. CASE Loader \/ UNCHANGED vars
  BY <1>10, LoaderApart DEF block, program
<1>11. QED
  BY <1>1, <1>2, <1>3, <1>4, <1>5, <1>7, <1>8, <1>9, <1>10 DEF Next, IO, Program

LEMMA TakenStep == TypeOK /\ Completing /\ Taken /\ [Next]_vars => Taken'
<1> SUFFICES ASSUME TypeOK, Completing, Taken, [Next]_vars
             PROVE  Taken'
  OBVIOUS
<1> USE NullAssumption DEF Completing, HasRequest, Taken, StaleExplained, Keys, TypeOK
<1>1. ASSUME NEW r \in Requests, Store(r)
      PROVE  Taken'
  BY <1>1 DEF Store, Issue, program
<1>2. ASSUME NEW r \in Requests, MapFull(r) \/ StartUnseen(r)
      PROVE  Taken'
  BY <1>2 DEF MapFull, StartUnseen, Issue, program
<1>3. ASSUME NEW r \in Requests, DoneUnseen(r)
      PROVE  Taken'
  BY <1>3 DEF DoneUnseen, program
<1>4. CASE Time
  BY <1>4 DEF Time, program
<1>5. ASSUME NEW c \in CPUs, NEW r \in Requests, Done(c, r)
      PROVE  Taken'
  BY <1>5 DEF Done
<1>6. ASSUME NEW c \in CPUs, pc[c] # "idle", Return(c), start_times[req[c]] = NULL,
             UNCHANGED <<start_times, unseen>>
      PROVE  Taken'
  <2>1. /\ \A d \in CPUs \ {c} : pc'[d] = pc[d] /\ req'[d] = req[d]
        /\ pc'[c] = "idle"
        /\ \A r \in Requests \ {req[c]} : stored'[r] = stored[r] /\ io'[r] = io[r]
    BY <1>6 DEF Return
  <2>2. \A d \in CPUs \ {c} : pc[d] # "idle" => req[d] # req[c]
    BY <1>6
  <2>3. QED
    BY <1>6, <2>1, <2>2
<1>7. ASSUME NEW c \in CPUs, Unknown(c) \/ AddRead(c)
      PROVE  Taken'
  BY <1>6, <1>7 DEF Unknown, AddRead
<1>8. ASSUME NEW c \in CPUs, Measure(c) \/ AddLatency(c)
      PROVE  Taken'
  BY <1>8 DEF Measure, AddLatency, block
<1>9. ASSUME NEW c \in CPUs, Delete(c)
      PROVE  Taken'
  BY <1>9 DEF Delete
<1>10. CASE Loader \/ UNCHANGED vars
  BY <1>10, LoaderApart DEF block, program
<1>11. QED
  BY <1>1, <1>2, <1>3, <1>4, <1>5, <1>7, <1>8, <1>9, <1>10 DEF Next, IO, Program

LEMMA PairedAlways == Spec => []Paired
<1>1. Init => Paired
  BY NullAssumption DEF Init, Paired, Completing, HasRequest, Timed, Taken, StaleExplained, Keys
<1>2. TypeOK /\ Paired /\ [Next]_vars => Paired'
  BY CompletingStep, TimedStep, TakenStep DEF Paired
<1>3. QED
  BY <1>1, <1>2, TypeCorrect, PTL DEF Spec

\* What is left in start_times (main.bpf.c:53) is a request under way whose start was
\* seen, one whose completion was not, or one that trace_io_done is just taking out.
THEOREM StaleEntriesExplained == Spec => []StaleExplained
<1>1. Paired => StaleExplained
  BY DEF Paired, Taken
<1>2. QED
  BY <1>1, PairedAlways, PTL

\* The bucket of a request (main.bpf.c:38-57) is that of the time since its own start:
\* for the CPU's request is no other CPU's, so that its time is still in the map.
THEOREM LatencyIsOwn == Spec => OwnLatency
<1>1. ASSUME TypeOK, Paired, NEW c \in CPUs, Measure(c), stored[req[c]],
             now - born[req[c]] < Word
      PROVE  bucket'[c] = Least(now - born[req[c]], Buckets - 1)
  <2>1. req[c] \in Requests /\ pc[c] = "lookup"
    BY <1>1 DEF Measure, Paired, Completing, HasRequest
  <2>2. \A d \in CPUs : req[d] = req[c] /\ pc[d] # "idle" => pc[d] = "lookup"
    BY <1>1, <2>1 DEF Paired, Completing
  <2>3. start_times[req[c]] = born[req[c]] /\ born[req[c]] <= now
    BY <1>1, <2>1, <2>2 DEF Paired, Timed
  <2>4. now - born[req[c]] \in Nat
    BY <1>1, <2>1, <2>3 DEF TypeOK
  <2>5. (now - born[req[c]]) % Word = now - born[req[c]]
    BY <1>1, <2>4, SizeAssumption
  <2>6. bucket'[c] = BucketOf(now - born[req[c]])
    BY <1>1, <2>3 DEF Measure, TypeOK
  <2>7. QED
    BY <2>5, <2>6 DEF BucketOf
<1>2. TypeOK /\ Paired /\ [Next]_vars =>
        [\A c \in CPUs :
           LET took == now - born[req[c]] IN
           Measure(c) /\ stored[req[c]] /\ took < Word
             => bucket'[c] = Least(took, Buckets - 1)]_vars
  BY <1>1
<1>3. QED
  BY <1>2, TypeCorrect, PairedAlways, PTL DEF Spec, OwnLatency

----------------------------------------------------------------------------
(* The latency histograms: clearing.                                       *)

\* The CPUs that have counted in a bucket of latencies and not yet in read_lat's.
Adding(b) == {c \in CPUs : pc[c] = "read_lat" /\ bucket[c] = b}

\* The command has cleared the bucket of latencies and not yet that of read_lat.
HalfCleared(b) == (cli = "latencies" /\ b < next) \/ (cli = "read_lat" /\ b >= next)

Balanced(b) ==
  hist["read_lat"][b] + Cardinality(Adding(b)) <= hist["latencies"][b] + Cardinality(CPUs)

Agreeing ==
  /\ cli \notin Maps => next = 0
  /\ \A b \in Bucket : ~HalfCleared(b) => Balanced(b)

LEMMA AddingFinite ==
  ASSUME NEW S, S \subseteq CPUs
  PROVE  /\ IsFiniteSet(S) /\ Cardinality(S) \in Nat
         /\ Cardinality(CPUs) \in Nat /\ Cardinality(S) <= Cardinality(CPUs)
BY CPUsAssumption, FS_Subset, FS_CardinalityType

\* The counters of a bucket and the CPUs between them move together.
LEMMA BalanceKept ==
  ASSUME TypeOK, NEW b \in Bucket, Balanced(b), Adding(b)' \subseteq Adding(b),
         hist' = hist
  PROVE  Balanced(b)'
<1>1. Adding(b) \subseteq CPUs /\ Adding(b)' \subseteq CPUs
  BY DEF Adding
<1>2. IsFiniteSet(Adding(b)) /\ Cardinality(Adding(b)) \in Nat /\ Cardinality(CPUs) \in Nat
  BY <1>1, AddingFinite
<1>3. Cardinality(Adding(b)') \in Nat /\ Cardinality(Adding(b)') <= Cardinality(Adding(b))
  BY <1>2, FS_Subset, FS_CardinalityType
<1>4. hist["read_lat"][b] \in Nat /\ hist["latencies"][b] \in Nat
  BY DEF TypeOK, Maps
<1>5. Cardinality(Adding(b))' = Cardinality(Adding(b)')
  OBVIOUS
<1>6. QED
  BY <1>2, <1>3, <1>4, <1>5 DEF Balanced

LEMMA AgreeingAdd ==
  ASSUME TypeOK, Agreeing, NEW c \in CPUs, AddLatency(c)
  PROVE  Agreeing'
<1>1. UNCHANGED <<cli, next, bucket>> /\ pc' = [pc EXCEPT ![c] = "read_lat"] /\ pc[c] = "latencies"
  BY DEF AddLatency, block
<1>2. SUFFICES ASSUME NEW b \in Bucket, Balanced(b)
               PROVE  Balanced(b)'
  BY <1>1 DEF Agreeing, HalfCleared
<1>3. CASE bucket[c] # b
  <2>1. Adding(b)' = Adding(b)
    BY <1>1, <1>3 DEF Adding, TypeOK
  <2>2. hist'["read_lat"][b] = hist["read_lat"][b] /\ hist'["latencies"][b] = hist["latencies"][b]
    BY <1>3 DEF AddLatency, TypeOK, Maps
  <2>3. QED
    BY <1>2, <2>1, <2>2 DEF Balanced
<1>4. CASE bucket[c] = b
  <2>1. Adding(b)' = Adding(b) \cup {c} /\ c \notin Adding(b)
    BY <1>1, <1>4 DEF Adding, TypeOK
  <2>2. /\ hist'["read_lat"][b] = hist["read_lat"][b]
        /\ hist'["latencies"][b] = hist["latencies"][b] + 1
    BY <1>4 DEF AddLatency, TypeOK, Maps
  <2>3. hist["read_lat"][b] \in Nat /\ hist["latencies"][b] \in Nat
    BY DEF TypeOK, Maps
  <2>4. IsFiniteSet(Adding(b)) /\ Cardinality(Adding(b)) \in Nat /\ Cardinality(CPUs) \in Nat
    BY AddingFinite DEF Adding
  <2>5. Cardinality(Adding(b)') = Cardinality(Adding(b)) + 1
    BY <2>1, <2>4, FS_AddElement
  <2>6. Cardinality(Adding(b))' = Cardinality(Adding(b)')
    OBVIOUS
  <2>7. QED
    BY <1>2, <2>2, <2>3, <2>4, <2>5, <2>6 DEF Balanced
<1>5. QED
  BY <1>3, <1>4

LEMMA AgreeingAddRead ==
  ASSUME TypeOK, Agreeing, NEW c \in CPUs, AddRead(c)
  PROVE  Agreeing'
<1>1. /\ UNCHANGED <<cli, next>> /\ bucket' = [bucket EXCEPT ![c] = 0]
      /\ pc' = [pc EXCEPT ![c] = "idle"] /\ pc[c] = "read_lat"
  BY DEF AddRead, Return
<1>2. SUFFICES ASSUME NEW b \in Bucket, Balanced(b)
               PROVE  Balanced(b)'
  BY <1>1 DEF Agreeing, HalfCleared
<1>3. Adding(b)' = Adding(b) \ {c}
  BY <1>1 DEF Adding, TypeOK
<1>4. CASE bucket[c] # b
  <2>1. Adding(b)' = Adding(b)
    BY <1>3, <1>4 DEF Adding
  <2>2. hist'["read_lat"][b] = hist["read_lat"][b] /\ hist'["latencies"][b] = hist["latencies"][b]
    BY <1>4 DEF AddRead, TypeOK, Maps
  <2>3. QED
    BY <1>2, <2>1, <2>2 DEF Balanced
<1>5. CASE bucket[c] = b
  <2>1. c \in Adding(b)
    BY <1>1, <1>5 DEF Adding
  <2>2. /\ hist'["read_lat"][b] = hist["read_lat"][b] + 1
        /\ hist'["latencies"][b] = hist["latencies"][b]
    BY <1>5 DEF AddRead, TypeOK, Maps
  <2>3. hist["read_lat"][b] \in Nat /\ hist["latencies"][b] \in Nat
    BY DEF TypeOK, Maps
  <2>4. IsFiniteSet(Adding(b)) /\ Cardinality(Adding(b)) \in Nat /\ Cardinality(CPUs) \in Nat
    BY AddingFinite DEF Adding
  <2>5. Cardinality(Adding(b)') = Cardinality(Adding(b)) - 1
    BY <1>3, <2>1, <2>4, FS_RemoveElement
  <2>6. Cardinality(Adding(b))' = Cardinality(Adding(b)')
    OBVIOUS
  <2>7. QED
    BY <1>2, <2>2, <2>3, <2>4, <2>5, <2>6 DEF Balanced
<1>6. QED
  BY <1>4, <1>5

\* A bucket of latencies that is cleared is half cleared from then on; when read_lat's
\* is, no more CPUs can be between the two than there are.
LEMMA AgreeingClear ==
  ASSUME TypeOK, Agreeing, ClearBucket
  PROVE  Agreeing'
<1>1. /\ cli \in Maps /\ hist' = [hist EXCEPT ![cli][next] = 0] /\ UNCHANGED <<pc, bucket>>
      /\ next' = (next + 1) % Buckets
      /\ cli' = IF next = Buckets - 1 THEN Follows[cli] ELSE cli
  BY DEF ClearBucket, program
<1>2. Buckets \in Nat /\ Buckets > 0 /\ next \in 0 .. Buckets - 1
  BY SizeAssumption DEF TypeOK, Bucket
<1>3. /\ next = Buckets - 1 => next' = 0
      /\ next # Buckets - 1 => next' = next + 1
  BY <1>1, <1>2
<1>4. cli' \notin Maps => next' = 0
  BY <1>1, <1>3 DEF Follows, Maps
<1>5. ASSUME NEW b \in Bucket, ~HalfCleared(b)'
      PROVE  Balanced(b)'
  <2>0. b \in 0 .. Buckets - 1
    BY DEF Bucket
  <2>1. Adding(b)' = Adding(b)
    BY <1>1 DEF Adding
  <2>2. CASE cli = "latencies"
    <3>1. next # Buckets - 1 /\ cli' = "latencies" /\ b >= next + 1
      BY <1>1, <1>2, <1>3, <1>5, <2>0, <2>2 DEF HalfCleared, Follows
    <3>2. Balanced(b)
      BY <1>2, <2>0, <2>2, <3>1 DEF Agreeing, HalfCleared
    <3>3. hist'["read_lat"][b] = hist["read_lat"][b] /\ hist'["latencies"][b] = hist["latencies"][b]
      BY <1>1, <1>2, <2>0, <2>2, <3>1 DEF TypeOK, Maps
    <3>4. QED
      BY <2>1, <3>2, <3>3 DEF Balanced
  <2>3. CASE cli = "read_lat"
    <3>1. b <= next
      BY <1>1, <1>2, <1>3, <1>5, <2>0, <2>3 DEF HalfCleared, Follows
    <3>2. hist'["latencies"][b] = hist["latencies"][b]
      BY <1>1, <2>3 DEF TypeOK, Maps
    <3>3. CASE b = next
      <4>1. hist'["read_lat"][b] = 0
        BY <1>1, <2>3, <3>3 DEF TypeOK, Maps
      <4>2. hist["latencies"][b] \in Nat
        BY DEF TypeOK, Maps
      <4>3. /\ Cardinality(Adding(b)) <= Cardinality(CPUs)
            /\ Cardinality(Adding(b)) \in Nat /\ Cardinality(CPUs) \in Nat
        BY AddingFinite DEF Adding
      <4>4. QED
        BY <2>1, <3>2, <4>1, <4>2, <4>3 DEF Balanced
    <3>4. CASE b < next
      <4>1. Balanced(b)
        BY <1>2, <2>0, <2>3, <3>4 DEF Agreeing, HalfCleared
      <4>2. hist'["read_lat"][b] = hist["read_lat"][b]
        BY <1>1, <1>2, <2>0, <2>3, <3>4 DEF TypeOK, Maps
      <4>3. QED
        BY <2>1, <3>2, <4>1, <4>2 DEF Balanced
    <3>5. QED
      BY <1>2, <2>0, <3>1, <3>3, <3>4
  <2>4. QED
    BY <1>1, <2>2, <2>3 DEF Maps
<1>6. QED
  BY <1>4, <1>5 DEF Agreeing

LEMMA AgreeingStep == TypeOK /\ Agreeing /\ [Next]_vars => Agreeing'
<1> SUFFICES ASSUME TypeOK, Agreeing, [Next]_vars
             PROVE  Agreeing'
  OBVIOUS
<1>1. ASSUME UNCHANGED <<hist, cli, next>>,
             \A b \in Bucket : Adding(b)' \subseteq Adding(b)
      PROVE  Agreeing'
  BY <1>1, BalanceKept DEF Agreeing, HalfCleared
<1>2. ASSUME UNCHANGED <<pc, bucket, hist, cli, next>>
      PROVE  Agreeing'
  BY <1>1, <1>2 DEF Adding
<1>3. CASE IO
  BY <1>2, <1>3 DEF IO, Time, Store, MapFull, StartUnseen, DoneUnseen, Issue, program
<1>4. ASSUME NEW c \in CPUs, NEW r \in Requests, Done(c, r)
      PROVE  Agreeing'
  BY <1>1, <1>4 DEF Done, Adding, TypeOK
<1>5. ASSUME NEW c \in CPUs, Unknown(c)
      PROVE  Agreeing'
  BY <1>1, <1>5 DEF Unknown, Return, Adding, TypeOK
<1>6. ASSUME NEW c \in CPUs, Measure(c)
      PROVE  Agreeing'
  BY <1>1, <1>6 DEF Measure, Adding, TypeOK
<1>7. ASSUME NEW c \in CPUs, Delete(c)
      PROVE  Agreeing'
  BY <1>1, <1>7 DEF Delete, Adding, TypeOK
<1>8. CASE Clear
  <2>1. UNCHANGED <<pc, bucket, hist, next>> /\ cli = "idle" /\ cli' = "latencies"
    BY <1>8 DEF Clear, program
  <2>2. next = 0
    BY <2>1 DEF Agreeing, Maps
  <2>3. \A b \in Bucket : ~HalfCleared(b)
    BY <2>1 DEF HalfCleared
  <2>4. \A b \in Bucket : Balanced(b)'
    BY <2>1, <2>3 DEF Agreeing, Balanced, Adding
  <2>5. QED
    BY <2>1, <2>4 DEF Agreeing, Maps
<1>9. CASE AttachStart \/ AttachDone \/ Signal \/ DetachDone \/ DetachStart
           \/ TickPrint \/ ReadBucket \/ EndPrint
  BY <1>2, <1>9 DEF AttachStart, AttachDone, Signal, DetachDone, DetachStart, TickPrint,
                    ReadBucket, EndPrint, program
<1>10. CASE UNCHANGED vars
  BY <1>2, <1>10 DEF vars, program
<1>11. QED
  BY <1>3, <1>4, <1>5, <1>6, <1>7, <1>8, <1>9, <1>10, AgreeingAdd, AgreeingAddRead, AgreeingClear
     DEF Next, Program, Loader

\* Between commands, a bucket of read_lat is ahead of that of latencies by at most one
\* request per CPU (main.go:114-115, main.bpf.c:59-65).
THEOREM HistogramsNearlyAgree == Spec => []HistogramsAgree
<1>1. Init => Agreeing
  <2> SUFFICES ASSUME Init, NEW b \in Bucket
               PROVE  Balanced(b)
    BY DEF Agreeing, Init
  <2>1. Adding(b) = {}
    BY DEF Init, Adding
  <2>2. Cardinality({}) = 0 /\ Cardinality(CPUs) \in Nat
    BY FS_EmptySet, AddingFinite
  <2>3. QED
    BY <2>1, <2>2 DEF Init, Balanced, Empty, Maps
<1>2. TypeOK /\ Agreeing => HistogramsAgree
  <2> SUFFICES ASSUME TypeOK, Agreeing, cli \notin Maps, NEW b \in Bucket
               PROVE  hist["read_lat"][b] <= hist["latencies"][b] + Cardinality(CPUs)
    BY DEF HistogramsAgree
  <2>1. Balanced(b)
    BY DEF Agreeing, HalfCleared, Maps
  <2>2. Cardinality(Adding(b)) \in Nat /\ Cardinality(CPUs) \in Nat
    BY AddingFinite DEF Adding
  <2>3. hist["read_lat"][b] \in Nat /\ hist["latencies"][b] \in Nat
    BY DEF TypeOK, Maps
  <2>4. QED
    BY <2>1, <2>2, <2>3 DEF Balanced
<1>3. QED
  BY <1>1, <1>2, AgreeingStep, TypeCorrect, PTL DEF Spec

----------------------------------------------------------------------------
(* The latency histograms: printing.                                       *)

\* The buckets that printHistogram has read, and those it has still to read.
Before(b) == 0 .. b - 1
From(b) == b .. Buckets - 1

LEMMA BeforeFrom ==
  ASSUME NEW b \in 0 .. Buckets
  PROVE  /\ IsFiniteSet(Before(b)) /\ IsFiniteSet(From(b))
         /\ Before(b) \subseteq Bucket /\ From(b) \subseteq Bucket
         /\ b # Buckets => /\ b \in Bucket /\ b + 1 \in 0 .. Buckets
                           /\ b \in From(b) /\ From(b) \ {b} = From(b + 1)
                           /\ b \in Before(b + 1) /\ Before(b + 1) \ {b} = Before(b)
<1>1. Buckets \in Nat /\ b \in Nat /\ b <= Buckets
  BY SizeAssumption
<1>2. Before(b) \subseteq Bucket /\ From(b) \subseteq Bucket
  BY <1>1 DEF Before, From, Bucket
<1>3. IsFiniteSet(Before(b)) /\ IsFiniteSet(From(b))
  BY <1>2, BucketsFinite, FS_Subset
<1>4. QED
  BY <1>1, <1>2, <1>3 DEF Before, From, Bucket

\* Unless a bucket is cleared, what is read and what is still to be read add up to no
\* less than the sum at the call, and what is read to no more than those buckets have.
PrintedSoFar ==
  printing /\ least # NULL =>
    /\ sum <= SumFunctionOnSet(hist["latencies"], Before(i))
    /\ least <= sum + SumFunctionOnSet(hist["latencies"], From(i))

\* The sums over part of a histogram, before and after an addition.
LEMMA PartialSums ==
  ASSUME TypeOK, NEW S, S \subseteq Bucket
  PROVE  /\ SumFunctionOnSet(hist["latencies"], S) \in Nat
         /\ TypeOK' /\ (\A b \in Bucket : hist["latencies"][b] <= hist'["latencies"][b]) =>
              /\ SumFunctionOnSet(hist'["latencies"], S) \in Nat
              /\ SumFunctionOnSet(hist["latencies"], S) <= SumFunctionOnSet(hist'["latencies"], S)
<1>1. IsFiniteSet(S)
  BY BucketsFinite, FS_Subset
<1>2. \A b \in S : hist["latencies"][b] \in Nat
  BY DEF TypeOK, Maps
<1>3. TypeOK' => \A b \in S : hist'["latencies"][b] \in Nat
  <2>1. TypeOK' => hist' \in [Maps -> [Bucket -> Nat]]
    BY DEF TypeOK
  <2>2. "latencies" \in Maps
    BY DEF Maps
  <2>3. QED
    BY <2>1, <2>2
<1>4. SumFunctionOnSet(hist["latencies"], S) \in Nat
  BY <1>1, <1>2, SumRemove
<1>5. TypeOK' => SumFunctionOnSet(hist'["latencies"], S) \in Nat
  BY <1>1, <1>3, SumRemove
<1>6. TypeOK' /\ (\A b \in Bucket : hist["latencies"][b] <= hist'["latencies"][b]) =>
        SumFunctionOnSet(hist["latencies"], S) <= SumFunctionOnSet(hist'["latencies"], S)
  BY <1>1, <1>2, <1>3, SumMonotone
<1>7. QED
  BY <1>4, <1>5, <1>6

\* Additions between two reads of buckets.
LEMMA PrintWhileAdding ==
  ASSUME TypeOK, TypeOK', PrintedSoFar, UNCHANGED print,
         \A b \in Bucket : hist["latencies"][b] <= hist'["latencies"][b]
  PROVE  PrintedSoFar'
<1>1. SUFFICES ASSUME printing, least # NULL
               PROVE  /\ sum <= SumFunctionOnSet(hist'["latencies"], Before(i))
                      /\ least <= sum + SumFunctionOnSet(hist'["latencies"], From(i))
  BY DEF PrintedSoFar, print, Before, From
<1>2. i \in 0 .. Buckets /\ sum \in Nat /\ least \in Nat
  BY <1>1 DEF TypeOK
<1> DEFINE B == Before(i)
           F == From(i)
<1>3. B \subseteq Bucket /\ F \subseteq Bucket
  BY <1>2, BeforeFrom
<1>4. /\ sum <= SumFunctionOnSet(hist["latencies"], B)
      /\ least <= sum + SumFunctionOnSet(hist["latencies"], F)
  BY <1>1 DEF PrintedSoFar
<1> HIDE DEF B, F
<1>5. /\ SumFunctionOnSet(hist["latencies"], B) \in Nat
      /\ SumFunctionOnSet(hist'["latencies"], B) \in Nat
      /\ SumFunctionOnSet(hist["latencies"], B) <= SumFunctionOnSet(hist'["latencies"], B)
  BY <1>3, PartialSums
<1>6. /\ SumFunctionOnSet(hist["latencies"], F) \in Nat
      /\ SumFunctionOnSet(hist'["latencies"], F) \in Nat
      /\ SumFunctionOnSet(hist["latencies"], F) <= SumFunctionOnSet(hist'["latencies"], F)
  BY <1>3, PartialSums
<1>7. sum <= SumFunctionOnSet(hist'["latencies"], B)
  BY <1>2, <1>4, <1>5
<1>8. least <= sum + SumFunctionOnSet(hist'["latencies"], F)
  BY <1>2, <1>4, <1>6
<1>9. QED
  BY <1>7, <1>8 DEF B, F

LEMMA PrintStarts ==
  ASSUME TypeOK, StartPrint, hist' = hist
  PROVE  PrintedSoFar'
<1>1. /\ i' = 0 /\ sum' = 0 /\ least' = SumFunctionOnSet(hist["latencies"], Bucket)
  BY HistSum DEF StartPrint, TypeOK
<1>2. Before(i') = {} /\ From(i') = Bucket
  BY <1>1 DEF Before, From, Bucket
<1>3. SumFunctionOnSet(hist["latencies"], {}) = 0
  BY FS_EmptySet, SumUnfold
<1>4. SumFunctionOnSet(hist["latencies"], Bucket) \in Nat
  BY PartialSums
<1>5. /\ sum' <= SumFunctionOnSet(hist["latencies"], Before(i'))
      /\ least' <= sum' + SumFunctionOnSet(hist["latencies"], From(i'))
  BY <1>1, <1>2, <1>3, <1>4
<1>6. QED
  BY <1>5 DEF PrintedSoFar, Before, From

LEMMA PrintReads ==
  ASSUME TypeOK, PrintedSoFar, ReadBucket
  PROVE  PrintedSoFar'
<1>1. SUFFICES ASSUME printing, least # NULL
               PROVE  /\ sum' <= SumFunctionOnSet(hist["latencies"], Before(i + 1))
                      /\ least <= sum' + SumFunctionOnSet(hist["latencies"], From(i + 1))
  BY DEF PrintedSoFar, ReadBucket, Before, From
<1> DEFINE L == hist["latencies"]
<1>2. i \in 0 .. Buckets /\ i # Buckets /\ sum' = sum + L[i] /\ sum \in Nat /\ least \in Nat
  BY <1>1, SizeAssumption DEF TypeOK, ReadBucket
<1>3. /\ i \in Bucket /\ i + 1 \in 0 .. Buckets
      /\ i \in From(i) /\ From(i) \ {i} = From(i + 1)
      /\ i \in Before(i + 1) /\ Before(i + 1) \ {i} = Before(i)
  BY <1>2, BeforeFrom
<1>4. /\ IsFiniteSet(From(i)) /\ From(i) \subseteq Bucket
      /\ IsFiniteSet(Before(i + 1)) /\ Before(i + 1) \subseteq Bucket
  BY <1>2, <1>3, BeforeFrom
<1>5. \A b \in Bucket : L[b] \in Nat
  BY DEF TypeOK, Maps
<1> HIDE DEF L
<1>6. SumFunctionOnSet(L, From(i)) = L[i] + SumFunctionOnSet(L, From(i + 1))
  BY <1>3, <1>4, <1>5, SumRemove
<1>7. SumFunctionOnSet(L, Before(i + 1)) = L[i] + SumFunctionOnSet(L, Before(i))
  BY <1>3, <1>4, <1>5, SumRemove
<1>8. /\ From(i + 1) \subseteq Bucket /\ Before(i) \subseteq Bucket
      /\ IsFiniteSet(From(i + 1)) /\ IsFiniteSet(Before(i))
  BY <1>2, <1>3, BeforeFrom
<1>9. SumFunctionOnSet(L, From(i + 1)) \in Nat /\ SumFunctionOnSet(L, Before(i)) \in Nat
  BY <1>5, <1>8, SumRemove
<1>10. L[i] \in Nat
  BY <1>3, <1>5
<1>11. /\ sum <= SumFunctionOnSet(L, Before(i))
       /\ least <= sum + SumFunctionOnSet(L, From(i))
  BY <1>1 DEF PrintedSoFar, L
<1>12. sum' <= SumFunctionOnSet(L, Before(i + 1))
  BY <1>2, <1>7, <1>9, <1>10, <1>11
<1>13. least <= sum' + SumFunctionOnSet(L, From(i + 1))
  BY <1>2, <1>6, <1>9, <1>10, <1>11
<1>14. QED
  BY <1>12, <1>13 DEF L

LEMMA PrintedStep == TypeOK /\ TypeOK' /\ PrintedSoFar /\ [Next]_vars => PrintedSoFar'
<1> SUFFICES ASSUME TypeOK, TypeOK', PrintedSoFar, [Next]_vars
             PROVE  PrintedSoFar'
  OBVIOUS
<1>1. ASSUME hist' = hist, UNCHANGED print
      PROVE  PrintedSoFar'
  BY <1>1 DEF PrintedSoFar, print, Before, From
<1>2. CASE IO
  BY <1>1, <1>2 DEF IO, Time, Store, MapFull, StartUnseen, DoneUnseen, Issue
<1>3. ASSUME NEW c \in CPUs, AddLatency(c) \/ AddRead(c)
      PROVE  PrintedSoFar'
  <2>1. \A b \in Bucket : hist["latencies"][b] \in Nat
    BY DEF TypeOK, Maps
  <2>2. \A b \in Bucket : hist["latencies"][b] <= hist'["latencies"][b]
    BY <1>3, <2>1 DEF AddLatency, AddRead, TypeOK, Maps
  <2>3. UNCHANGED print
    BY <1>3 DEF AddLatency, AddRead
  <2>4. QED
    BY <2>2, <2>3, PrintWhileAdding
<1>4. ASSUME NEW c \in CPUs,
             \/ \E r \in Requests : Done(c, r)
             \/ Unknown(c) \/ Measure(c) \/ Delete(c)
      PROVE  PrintedSoFar'
  BY <1>1, <1>4 DEF Done, Unknown, Measure, Delete
<1>5. CASE TickPrint \/ Signal
  BY <1>5, PrintStarts DEF TickPrint, Signal
<1>6. CASE EndPrint
  BY <1>6 DEF EndPrint, PrintedSoFar
<1>7. CASE ClearBucket
  <2>1. UNCHANGED <<printing, i, sum>>
        /\ least' = (IF cli = "latencies" THEN NULL ELSE least)
        /\ (cli # "latencies" => hist'["latencies"] = hist["latencies"])
    BY <1>7 DEF ClearBucket, TypeOK, Maps
  <2>2. QED
    BY <2>1 DEF PrintedSoFar, Before, From
<1>8. CASE AttachStart \/ AttachDone \/ DetachDone \/ DetachStart \/ Clear
  BY <1>1, <1>8 DEF AttachStart, AttachDone, DetachDone, DetachStart, Clear
<1>9. CASE UNCHANGED vars
  BY <1>1, <1>9 DEF vars
<1>10. QED
  BY <1>2, <1>3, <1>4, <1>5, <1>6, <1>7, <1>8, <1>9, PrintReads DEF Next, Program, Loader

\* A histogram that is printed while requests complete (main.go:149-150) has a sum that
\* the buckets had at some moment of the call, unless one was cleared during it.
THEOREM PrintedHistogramExplained == Spec => []PrintExplained
<1>1. Init => PrintedSoFar
  BY DEF Init, PrintedSoFar
<1>2. TypeOK /\ PrintedSoFar => PrintExplained
  <2> SUFFICES ASSUME TypeOK, PrintedSoFar, printing, i = Buckets, least # NULL
               PROVE  sum \in least .. SumFunction(hist["latencies"])
    BY DEF PrintExplained
  <2>1. Before(i) = Bucket /\ From(i) = {}
    BY SizeAssumption DEF Before, From, Bucket
  <2>2. SumFunctionOnSet(hist["latencies"], {}) = 0
    BY FS_EmptySet, SumUnfold
  <2>3. /\ SumFunction(hist["latencies"]) = SumFunctionOnSet(hist["latencies"], Bucket)
        /\ SumFunction(hist["latencies"]) \in Nat
    BY HistSum DEF TypeOK
  <2>4. sum \in Nat /\ least \in Nat
    BY DEF TypeOK
  <2>5. sum <= SumFunction(hist["latencies"]) /\ least <= sum + 0
    BY <2>1, <2>2, <2>3 DEF PrintedSoFar
  <2>6. QED
    BY <2>3, <2>4, <2>5
<1>3. QED
  BY <1>1, <1>2, PrintedStep, TypeCorrect, PTL DEF Spec

----------------------------------------------------------------------------
(* The captured writes: type correctness.                                  *)

\* A probe under way has a CPU.
LEMMA RunningOnCPU ==
  ASSUME CaptureTypeOK, NEW w \in Writes, stage[w] \in Running
  PROVE  cpu[w] \in CPUs
BY DEF CaptureTypeOK

LEMMA LimitedRange == ASSUME NEW n \in Int PROVE Limited(n) \in 0 .. MAX_DATA_SIZE
BY CaptureSizes DEF Limited

LEMMA EnterTyped ==
  ASSUME CaptureTypeOK, NEW w \in Writes, NEW c \in CPUs, NEW n \in Int, Enter(w, c, n)
  PROVE  CaptureTypeOK'
<1> USE DEF CaptureTypeOK
<1> DEFINE new == [event_buf[c] EXCEPT !.pid = w, !.data_len = Limited(n)]
<1>1. Limited(n) \in 0 .. MAX_DATA_SIZE
  BY LimitedRange
<1>2. event_buf[c] \in Buffers
  OBVIOUS
<1>3. new \in Buffers
  BY <1>1, <1>2 DEF Buffers
<1>4. event_buf' = [event_buf EXCEPT ![c] = new]
  BY DEF Enter
<1> HIDE DEF new
<1>5. event_buf' \in [CPUs -> Buffers]
  BY <1>3, <1>4
<1>6. /\ stage' = [stage EXCEPT ![w] = "copy"] /\ cpu' = [cpu EXCEPT ![w] = c]
      /\ num' = [num EXCEPT ![w] = Limited(n)]
      /\ overtaken' \subseteq Writes
      /\ UNCHANGED <<preemptible, register, counters, loader, events, lost>>
  BY DEF Enter, Overtake, On
<1>7. /\ stage' \in [Writes -> {"new"} \cup Running \cup Ended]
      /\ num' \in [Writes -> 0 .. MAX_DATA_SIZE]
  BY <1>1, <1>6 DEF Running, Ended
<1>8. /\ cpu' \in [Writes -> CPUs \cup {NULL}]
      /\ \A v \in Writes : stage'[v] \in Running <=> cpu'[v] # NULL
  BY <1>6, CPUsAssumption DEF Running
<1>9. QED
  BY <1>5, <1>6, <1>7, <1>8 DEF loader

LEMMA CopyTyped ==
  ASSUME CaptureTypeOK, NEW w \in Writes, NEW ret \in {0, -1}, Copy(w, ret)
  PROVE  CaptureTypeOK'
<1> USE DEF CaptureTypeOK
<1> DEFINE c == cpu[w]
           b == IF ret = 0 THEN w ELSE NULL
           d == [k \in Bytes |-> IF k <= num[w] THEN b ELSE event_buf[c].data[k]]
           idx == IF ret = 0 THEN 0 ELSE 1
<1>1. c \in CPUs /\ stage[w] = "copy"
  BY RunningOnCPU DEF Copy, Running
<1>2. event_buf[c] \in Buffers /\ counters[idx][c] \in Nat /\ b \in Writes \cup {NULL}
  BY <1>1
<1>3. d \in [Bytes -> Writes \cup {NULL}]
  BY <1>2 DEF Buffers
<1>4. event_buf' = [event_buf EXCEPT ![c].data = d]
  BY DEF Copy, Written
<1>5. register' = [register EXCEPT ![w] = [idx |-> idx, val |-> counters[idx][c]]]
  BY DEF Copy
<1>6. idx \in {0, 1}
  OBVIOUS
<1> HIDE DEF d, b, idx
<1>7. [event_buf[c] EXCEPT !.data = d] \in Buffers
  BY <1>2, <1>3 DEF Buffers
<1>8. event_buf' \in [CPUs -> Buffers]
  BY <1>1, <1>4, <1>7
<1>9. register' \in [Writes -> [idx : {0, 1}, val : Nat]]
  BY <1>2, <1>5, <1>6
<1>10. /\ stage' = [stage EXCEPT ![w] = "store"]
       /\ overtaken' \subseteq Writes
       /\ UNCHANGED <<preemptible, cpu, num, counters, loader, events, lost>>
  BY DEF Copy, Overtake, On
<1>11. /\ stage' \in [Writes -> {"new"} \cup Running \cup Ended]
       /\ \A v \in Writes : stage'[v] \in Running <=> cpu'[v] # NULL
  BY <1>1, <1>10 DEF Running
<1>12. QED
  BY <1>8, <1>9, <1>10, <1>11 DEF loader

\* A probe that returns gives up its CPU and what it had of it.
LEMMA LeavesTyped ==
  ASSUME CaptureTypeOK, NEW w \in Writes, Leaves(w), NEW e \in Ended,
         stage' = [stage EXCEPT ![w] = e]
  PROVE  /\ stage' \in [Writes -> {"new"} \cup Running \cup Ended]
         /\ cpu' \in [Writes -> CPUs \cup {NULL}]
         /\ num' \in [Writes -> 0 .. MAX_DATA_SIZE]
         /\ register' \in [Writes -> [idx : {0, 1}, val : Nat]]
         /\ overtaken' \subseteq Writes
         /\ \A v \in Writes : stage'[v] \in Running <=> cpu'[v] # NULL
<1> USE DEF CaptureTypeOK
<1>1. 0 \in 0 .. MAX_DATA_SIZE /\ [idx |-> 0, val |-> 0] \in [idx : {0, 1}, val : Nat]
  BY CaptureSizes
<1>2. e \notin Running
  BY DEF Running, Ended
<1>3. /\ cpu' = [cpu EXCEPT ![w] = NULL]
      /\ num' = [num EXCEPT ![w] = 0]
      /\ register' = [register EXCEPT ![w] = [idx |-> 0, val |-> 0]]
      /\ overtaken' \subseteq overtaken
  BY DEF Leaves
<1>4. /\ stage' \in [Writes -> {"new"} \cup Running \cup Ended]
      /\ cpu' \in [Writes -> CPUs \cup {NULL}]
  BY <1>3
<1>5. /\ num' \in [Writes -> 0 .. MAX_DATA_SIZE]
      /\ register' \in [Writes -> [idx : {0, 1}, val : Nat]]
  BY <1>1, <1>3
<1>6. \A v \in Writes : stage'[v] \in Running <=> cpu'[v] # NULL
  BY <1>2, <1>3
<1>7. QED
  BY <1>3, <1>4, <1>5, <1>6

LEMMA StoreTyped ==
  ASSUME CaptureTypeOK, NEW w \in Writes, StoreCount(w)
  PROVE  CaptureTypeOK'
<1> USE DEF CaptureTypeOK
<1>1. cpu[w] \in CPUs /\ stage[w] = "store"
  BY RunningOnCPU DEF StoreCount, Running
<1>2. register[w].idx \in {0, 1} /\ register[w].val + 1 \in Nat
  OBVIOUS
<1>3. counters' \in [{0, 1} -> [CPUs -> Nat]]
  BY <1>1, <1>2 DEF StoreCount
<1>4. UNCHANGED <<preemptible, event_buf, loader, events, lost>>
  BY DEF StoreCount
<1>5. CASE stage' = [stage EXCEPT ![w] = "output"] /\ UNCHANGED <<cpu, num, register, overtaken>>
  <2>1. /\ stage' \in [Writes -> {"new"} \cup Running \cup Ended]
        /\ \A v \in Writes : stage'[v] \in Running <=> cpu'[v] # NULL
    BY <1>1, <1>5 DEF Running
  <2>2. QED
    BY <1>3, <1>4, <1>5, <2>1 DEF loader
<1>6. CASE stage' = [stage EXCEPT ![w] = "fault"] /\ Leaves(w)
  <2>1. "fault" \in Ended
    BY DEF Ended
  <2>2. QED
    BY <1>3, <1>4, <1>6, <2>1, LeavesTyped DEF loader
<1>7. QED
  BY <1>5, <1>6 DEF StoreCount, AfterError

\* What an output does to its CPU's buffer and to the count of lost events.
LEMMA OutputTyped ==
  ASSUME CaptureTypeOK, NEW w \in Writes, Output(w)
  PROVE  CaptureTypeOK'
<1> USE DEF CaptureTypeOK
<1> DEFINE c == cpu[w]
           new == [ev |-> event_buf[c], by |-> w, lost |-> lost[c]]
<1>1. c \in CPUs /\ stage[w] = "output"
  BY RunningOnCPU DEF Output, Running
<1>2. UNCHANGED <<preemptible, event_buf, counters, loader>> /\ Leaves(w)
  BY DEF Output
<1>3. \E e \in Ended : stage' = [stage EXCEPT ![w] = e]
  BY DEF Output, Ended
<1>4. new \in Samples
  BY <1>1 DEF Samples
<1>5. \/ UNCHANGED <<events, lost>>
      \/ lost' = [lost EXCEPT ![c] = @ + 1] /\ events' = events
      \/ /\ Len(events[c]) # Capacity
         /\ events' = [events EXCEPT ![c] = Append(@, new)]
         /\ lost' = [lost EXCEPT ![c] = 0]
  BY DEF Output
<1> HIDE DEF new
<1>6. /\ events' \in [CPUs -> Seq(Samples)] /\ \A d \in CPUs : Len(events'[d]) <= Capacity
      /\ lost' \in [CPUs -> Nat]
  <2>1. lost[c] \in Nat /\ Len(events[c]) \in Nat /\ Len(events[c]) <= Capacity
    BY <1>1
  <2>2. Capacity \in Nat
    BY CaptureSizes
  <2>3. Append(events[c], new) \in Seq(Samples) /\ Len(Append(events[c], new)) = Len(events[c]) + 1
    BY <1>1, <1>4
  <2>4. lost' \in [CPUs -> Nat]
    <3>1. \/ lost' = lost
          \/ lost' = [lost EXCEPT ![c] = lost[c] + 1]
          \/ lost' = [lost EXCEPT ![c] = 0]
      BY <1>5
    <3>2. lost \in [CPUs -> Nat] /\ lost[c] + 1 \in Nat /\ 0 \in Nat
      BY <2>1
    <3> HIDE DEF CaptureTypeOK, c
    <3>3. CASE lost' = lost
      BY <3>2, <3>3
    <3>4. CASE lost' = [lost EXCEPT ![c] = lost[c] + 1]
      BY <3>2, <3>4
    <3>5. CASE lost' = [lost EXCEPT ![c] = 0]
      BY <3>2, <3>5
    <3>6. QED
      BY <3>1, <3>3, <3>4, <3>5
  <2>5. events' \in [CPUs -> Seq(Samples)]
    BY <1>1, <1>5, <2>3
  <2>6. \A d \in CPUs : Len(events'[d]) <= Capacity
    BY <1>1, <1>5, <2>1, <2>2, <2>3
  <2>7. QED
    BY <2>4, <2>5, <2>6
<1>7. QED
  BY <1>2, <1>3, <1>6, LeavesTyped DEF loader

\* The write of an event that is queued has left.
Sent == \A c \in CPUs : \A k \in DOMAIN events[c] : stage[events[c][k].by] \in {"queued", "printed"}

LEMMA HeadSent ==
  ASSUME CaptureTypeOK, Sent, NEW c \in CPUs, events[c] # <<>>
  PROVE  /\ Head(events[c]) \in Samples /\ Head(events[c]).by \in Writes
         /\ stage[Head(events[c]).by] \in {"queued", "printed"}
         /\ Len(Tail(events[c])) = Len(events[c]) - 1
         /\ Tail(events[c]) \in Seq(Samples)
         /\ \A k \in DOMAIN Tail(events[c]) :
              k + 1 \in DOMAIN events[c] /\ Tail(events[c])[k] = events[c][k + 1]
<1>1. events[c] \in Seq(Samples)
  BY DEF CaptureTypeOK
<1>2. /\ Head(events[c]) = events[c][1] /\ 1 \in DOMAIN events[c]
      /\ Head(events[c]) \in Samples
      /\ Len(Tail(events[c])) = Len(events[c]) - 1
      /\ Tail(events[c]) \in Seq(Samples)
  BY <1>1
<1>3. \A k \in DOMAIN Tail(events[c]) :
        k + 1 \in DOMAIN events[c] /\ Tail(events[c])[k] = events[c][k + 1]
  BY <1>1
<1>4. QED
  BY <1>2, <1>3 DEF Sent, Samples

LEMMA ReadTyped ==
  ASSUME CaptureTypeOK, Sent, NEW c \in CPUs, Read(c)
  PROVE  CaptureTypeOK'
<1> USE DEF CaptureTypeOK
<1>1. events[c] \in Seq(Samples) /\ events[c] # <<>>
  BY DEF Read
<1>2. /\ Head(events[c]) \in Samples /\ Head(events[c]).by \in Writes
      /\ stage[Head(events[c]).by] \in {"queued", "printed"}
      /\ Tail(events[c]) \in Seq(Samples) /\ Len(Tail(events[c])) = Len(events[c]) - 1
  BY <1>1, HeadSent
<1>3. Head(events[c]).lost \in Nat
  BY <1>2 DEF Samples
<1>4. /\ events' \in [CPUs -> Seq(Samples)]
      /\ \A d \in CPUs : Len(events'[d]) <= Capacity
  <2>1. Len(events[c]) \in Nat /\ Len(events[c]) <= Capacity /\ Capacity \in Nat
    BY <1>1, CaptureSizes
  <2>2. QED
    BY <1>2, <2>1 DEF Read
<1>5. told' \in Nat /\ shown' \in {NULL} \cup Samples
  BY <1>2, <1>3 DEF Read
<1>6. stage' = [stage EXCEPT ![Head(events[c]).by] = "printed"]
  BY DEF Read
<1>7. UNCHANGED <<preemptible, reader, cpu, num, register, event_buf, counters, overtaken, lost>>
  BY DEF Read
<1>8. /\ stage' \in [Writes -> {"new"} \cup Running \cup Ended]
      /\ \A v \in Writes : stage'[v] \in Running <=> cpu'[v] # NULL
  BY <1>2, <1>6, <1>7 DEF Running, Ended
<1>9. QED
  BY <1>4, <1>5, <1>7, <1>8

LEMMA CaptureTypeStep == CaptureTypeOK /\ Sent /\ [CaptureNext]_captureVars => CaptureTypeOK'
<1> SUFFICES ASSUME CaptureTypeOK, Sent, [CaptureNext]_captureVars
             PROVE  CaptureTypeOK'
  OBVIOUS
<1>1. ASSUME NEW w \in Writes, Probe(w)
      PROVE  CaptureTypeOK'
  <2>1. \A n \in -1 .. (MAX_DATA_SIZE + 1) : n \in Int
    BY CaptureSizes
  <2>2. QED
    BY <1>1, <2>1, EnterTyped, CopyTyped, StoreTyped, OutputTyped DEF Probe
<1>2. CASE \E c \in CPUs : Read(c)
  BY <1>2, ReadTyped
<1>3. CASE OpenReader \/ Interrupt \/ CloseReader \/ Detach
  BY <1>3 DEF OpenReader, Interrupt, CloseReader, Detach, kernel, probe, CaptureTypeOK
<1>4. CASE UNCHANGED captureVars
  BY <1>4 DEF captureVars, kernel, probe, loader, CaptureTypeOK
<1>5. QED
  BY <1>1, <1>2, <1>3, <1>4 DEF CaptureNext, Main

\* A write enters the probe once, and what a CPU's buffer has of it stays there until
\* it is printed.
LEMMA SentStep == CaptureTypeOK /\ Sent /\ [CaptureNext]_captureVars => Sent'
<1> SUFFICES ASSUME CaptureTypeOK, Sent, [CaptureNext]_captureVars
             PROVE  Sent'
  OBVIOUS
<1>0. ASSUME NEW c \in CPUs, NEW k \in DOMAIN events[c]
      PROVE  events[c][k].by \in Writes
  <2>1. events[c] \in Seq(Samples)
    BY DEF CaptureTypeOK
  <2>2. events[c][k] \in Samples
    BY <2>1
  <2>3. QED
    BY <2>2 DEF Samples
<1>1. ASSUME NEW w \in Writes, stage[w] \notin {"queued", "printed"}, events' = events,
             \A v \in Writes : v # w => stage'[v] = stage[v]
      PROVE  Sent'
  BY <1>0, <1>1 DEF Sent
<1>2. ASSUME NEW w \in Writes,
             StoreCount(w) \/ (\E ret \in {0, -1} : Copy(w, ret))
               \/ \E c \in CPUs, n \in Int : Enter(w, c, n)
      PROVE  Sent'
  BY <1>1, <1>2 DEF Enter, Copy, StoreCount, AfterError, CaptureTypeOK
<1>3. ASSUME NEW w \in Writes, Output(w)
      PROVE  Sent'
  <2> DEFINE c == cpu[w]
             new == [ev |-> event_buf[c], by |-> w, lost |-> lost[c]]
  <2>1. /\ stage[w] = "output" /\ c \in CPUs
        /\ \A v \in Writes : v # w => stage'[v] = stage[v]
    BY <1>3, RunningOnCPU DEF Output, Running, CaptureTypeOK
  <2>2. CASE events' = events
    BY <1>1, <2>1, <2>2
  <2>3. CASE events' = [events EXCEPT ![c] = Append(@, new)] /\ stage'[w] = "queued"
    <3>1. new.by = w
      OBVIOUS
    <3> HIDE DEF new
    <3>2. ASSUME NEW d \in CPUs, NEW k \in DOMAIN events'[d]
          PROVE  \/ events'[d][k] = new
                 \/ k \in DOMAIN events[d] /\ events'[d][k] = events[d][k]
      BY <2>1, <2>3 DEF CaptureTypeOK
    <3>3. QED
      BY <1>0, <2>1, <2>3, <3>1, <3>2 DEF Sent
  <2>4. QED
    BY <1>3, <2>2, <2>3 DEF Output, CaptureTypeOK
<1>4. ASSUME NEW c \in CPUs, Read(c)
      PROVE  Sent'
  <2>1. events[c] # <<>> /\ events' = [events EXCEPT ![c] = Tail(@)]
        /\ stage' = [stage EXCEPT ![Head(events[c]).by] = "printed"]
    BY <1>4 DEF Read
  <2>2. \A v \in Writes : stage'[v] = stage[v] \/ stage'[v] = "printed"
    BY <2>1 DEF CaptureTypeOK
  <2>3. ASSUME NEW d \in CPUs, NEW k \in DOMAIN events'[d]
        PROVE  \E j \in DOMAIN events[d] : events'[d][k] = events[d][j]
    BY <2>1, HeadSent DEF CaptureTypeOK
  <2>4. QED
    BY <1>0, <2>2, <2>3 DEF Sent
<1>5. CASE OpenReader \/ Interrupt \/ CloseReader \/ Detach \/ UNCHANGED captureVars
  BY <1>5 DEF OpenReader, Interrupt, CloseReader, Detach, captureVars, kernel, probe, Sent
<1>6. QED
  <2>1. \A n \in -1 .. (MAX_DATA_SIZE + 1) : n \in Int
    BY CaptureSizes
  <2>2. QED
    BY <1>2, <1>3, <1>4, <1>5, <2>1 DEF CaptureNext, Main, Probe

LEMMA CaptureTyped == CaptureSpec => [](CaptureTypeOK /\ Sent)
<1>1. CaptureInit => CaptureTypeOK /\ Sent
  <2> SUFFICES ASSUME CaptureInit
               PROVE  CaptureTypeOK /\ Sent
    OBVIOUS
  <2> USE DEF CaptureInit
  <2>1. 0 \in 0 .. MAX_DATA_SIZE /\ 0 <= Capacity
    BY CaptureSizes
  <2>2. event_buf \in [CPUs -> Buffers]
    BY <2>1 DEF Buffers
  <2>3. events \in [CPUs -> Seq(Samples)] /\ \A c \in CPUs : Len(events[c]) <= Capacity
    BY <2>1
  <2>4. /\ num \in [Writes -> 0 .. MAX_DATA_SIZE]
        /\ register \in [Writes -> [idx : {0, 1}, val : Nat]]
        /\ stage \in [Writes -> {"new"} \cup Running \cup Ended]
        /\ \A w \in Writes : stage[w] \in Running <=> cpu[w] # NULL
    BY <2>1 DEF Running
  <2>5. counters \in [{0, 1} -> [CPUs -> Nat]] /\ lost \in [CPUs -> Nat]
    OBVIOUS
  <2>6. preemptible \in BOOLEAN
    OBVIOUS
  <2>7. Sent
    BY DEF Sent
  <2>8. QED
    BY <2>2, <2>3, <2>4, <2>5, <2>6, <2>7 DEF CaptureTypeOK
<1>2. QED
  BY <1>1, CaptureTypeStep, SentStep, PTL DEF CaptureSpec

\* Every variable keeps its type; a probe has a CPU as long as it runs, and no CPU's
\* perf buffer has more events than fit.
THEOREM CaptureTypeCorrect == CaptureSpec => []CaptureTypeOK
BY CaptureTyped, PTL

----------------------------------------------------------------------------
(* The captured writes: whose bytes a line shows.                          *)

\* A sample has the header and the bytes of the write that sent it.
OwnSample(e) == e.ev.pid = e.by /\ \A k \in 1 .. e.ev.data_len : e.ev.data[k] = e.by

\* A buffer is its probe's until another one writes to it: the header from the entry on,
\* the bytes from a copy that did not fault.
Holds(w) ==
  /\ event_buf[cpu[w]].pid = w /\ event_buf[cpu[w]].data_len = num[w]
  /\ stage[w] \in {"store", "output"} /\ register[w].idx = 0 =>
       \A k \in 1 .. num[w] : event_buf[cpu[w]].data[k] = w

Held ==
  /\ \A w \in Writes : stage[w] = "output" => register[w].idx = 0
  /\ \A w \in Writes \ overtaken : stage[w] \in Running => Holds(w)

Unmixed ==
  /\ \A c \in CPUs : \A k \in DOMAIN events[c] :
       events[c][k].by \notin overtaken => OwnSample(events[c][k])
  /\ shown # NULL => /\ stage[shown.by] = "printed" /\ shown.by \in Writes
                     /\ shown.by \notin overtaken => OwnSample(shown)

\* A write that nothing of changes still has its buffer.
LEMMA HoldsKept ==
  ASSUME CaptureTypeOK, NEW w \in Writes, Holds(w),
         cpu'[w] = cpu[w], num'[w] = num[w], stage'[w] = stage[w], register'[w] = register[w],
         event_buf'[cpu[w]] = event_buf[cpu[w]]
  PROVE  Holds(w)'
BY DEF Holds

LEMMA HeldStep == CaptureTypeOK /\ Sent /\ Held /\ [CaptureNext]_captureVars => Held'
<1> SUFFICES ASSUME CaptureTypeOK, Sent, Held, [CaptureNext]_captureVars
             PROVE  Held'
  OBVIOUS
<1> USE DEF CaptureTypeOK
<1>1. ASSUME NEW w \in Writes, NEW c \in CPUs, NEW n \in Int, Enter(w, c, n)
      PROVE  Held'
  <2>1. /\ stage' = [stage EXCEPT ![w] = "copy"] /\ cpu' = [cpu EXCEPT ![w] = c]
        /\ num' = [num EXCEPT ![w] = Limited(n)] /\ register' = register
        /\ overtaken' = overtaken \cup ({v \in Writes : cpu[v] = c} \ {w})
        /\ \A d \in CPUs : d # c => event_buf'[d] = event_buf[d]
    BY <1>1 DEF Enter, Overtake, On
  <2>2. event_buf'[c].pid = w /\ event_buf'[c].data_len = Limited(n)
    BY <1>1 DEF Enter, Buffers
  <2>3. Holds(w)'
    BY <2>1, <2>2 DEF Holds
  <2>4. ASSUME NEW v \in Writes \ overtaken', v # w, stage'[v] \in Running
        PROVE  Holds(v)'
    <3>1. stage[v] \in Running /\ cpu[v] # c /\ Holds(v)
      BY <2>1, <2>4 DEF Held
    <3>2. QED
      BY <2>1, <2>4, <3>1, HoldsKept, RunningOnCPU
  <2>5. \A v \in Writes : stage'[v] = "output" => register'[v].idx = 0
    BY <2>1 DEF Held
  <2>6. QED
    BY <2>3, <2>4, <2>5 DEF Held
<1>2. ASSUME NEW w \in Writes, NEW ret \in {0, -1}, Copy(w, ret)
      PROVE  Held'
  <2> DEFINE c == cpu[w]
  <2>1. c \in CPUs /\ stage[w] = "copy"
    BY <1>2, RunningOnCPU DEF Copy, Running
  <2>2. /\ stage' = [stage EXCEPT ![w] = "store"] /\ UNCHANGED <<cpu, num>>
        /\ \A v \in Writes : v # w => register'[v] = register[v]
        /\ register'[w].idx = (IF ret = 0 THEN 0 ELSE 1)
        /\ overtaken' = overtaken \cup ({v \in Writes : cpu[v] = c} \ {w})
    BY <1>2 DEF Copy, Overtake, On
  <2>3. /\ \A d \in CPUs : d # c => event_buf'[d] = event_buf[d]
        /\ event_buf'[c].pid = event_buf[c].pid
        /\ event_buf'[c].data_len = event_buf[c].data_len
        /\ event_buf'[c].data = [k \in Bytes |-> IF k <= num[w]
                                   THEN IF ret = 0 THEN w ELSE NULL ELSE event_buf[c].data[k]]
    BY <1>2, <2>1 DEF Copy, Written, Buffers
  <2>4. w \notin overtaken' => Holds(w)'
    <3>1. w \notin overtaken' => Holds(w)
      BY <2>1, <2>2 DEF Held, Running
    <3>2. \A k \in 1 .. num[w] : k \in Bytes /\ k <= num[w]
      BY CaptureSizes DEF Bytes
    <3>3. ret = 0 => \A k \in 1 .. num[w] : event_buf'[c].data[k] = w
      BY <2>3, <3>2
    <3>4. QED
      BY <2>2, <2>3, <3>1, <3>3 DEF Holds
  <2>5. ASSUME NEW v \in Writes \ overtaken', v # w, stage'[v] \in Running
        PROVE  Holds(v)'
    <3>1. stage[v] \in Running /\ cpu[v] # c /\ Holds(v) /\ stage'[v] = stage[v]
      BY <2>2, <2>5 DEF Held
    <3>2. QED
      BY <2>2, <2>3, <2>5, <3>1, HoldsKept, RunningOnCPU
  <2>6. \A v \in Writes : stage'[v] = "output" => register'[v].idx = 0
    BY <2>2 DEF Held
  <2>7. QED
    BY <2>4, <2>5, <2>6 DEF Held
<1>3. ASSUME NEW w \in Writes, stage[w] \in Running, event_buf' = event_buf,
             stage'[w] \notin Running, Leaves(w), \A v \in Writes : v # w => stage'[v] = stage[v]
      PROVE  Held'
  <2>1. /\ \A v \in Writes : v # w => cpu'[v] = cpu[v] /\ num'[v] = num[v]
                                      /\ register'[v] = register[v]
        /\ \A v \in Writes : v # w => (v \in overtaken' <=> v \in overtaken)
    BY <1>3 DEF Leaves
  <2>2. ASSUME NEW v \in Writes \ overtaken', stage'[v] \in Running
        PROVE  Holds(v)'
    <3>1. v # w /\ stage[v] \in Running /\ v \notin overtaken
      BY <1>3, <2>1, <2>2
    <3>2. Holds(v)
      BY <3>1 DEF Held
    <3>3. QED
      BY <1>3, <2>1, <3>1, <3>2, HoldsKept
  <2>3. \A v \in Writes : stage'[v] = "output" => register'[v].idx = 0
    BY <1>3, <2>1 DEF Held, Running
  <2>4. QED
    BY <2>2, <2>3 DEF Held
<1>4. ASSUME NEW w \in Writes, StoreCount(w)
      PROVE  Held'
  <2>1. stage[w] = "store" /\ event_buf' = event_buf
    BY <1>4 DEF StoreCount
  <2>2. CASE /\ register[w].idx = 0 /\ stage' = [stage EXCEPT ![w] = "output"]
             /\ UNCHANGED <<cpu, num, register, overtaken>>
    <3>1. ASSUME NEW v \in Writes \ overtaken', stage'[v] \in Running
          PROVE  Holds(v)'
      <4>1. Holds(v)
        BY <2>1, <2>2, <3>1 DEF Held, Running
      <4>2. QED
        BY <2>1, <2>2, <4>1 DEF Holds
    <3>2. QED
      BY <2>2, <3>1 DEF Held
  <2>3. CASE stage' = [stage EXCEPT ![w] = "fault"] /\ Leaves(w)
    BY <1>3, <2>1, <2>3 DEF Running
  <2>4. QED
    BY <1>4, <2>2, <2>3 DEF StoreCount, AfterError
<1>5. ASSUME NEW w \in Writes, Output(w)
      PROVE  Held'
  <2>1. /\ stage[w] = "output" /\ event_buf' = event_buf /\ Leaves(w)
        /\ stage'[w] \in {"missed", "lost", "queued"}
        /\ \A v \in Writes : v # w => stage'[v] = stage[v]
    BY <1>5 DEF Output
  <2>2. QED
    BY <1>3, <2>1 DEF Running
<1>6. ASSUME NEW c \in CPUs, Read(c)
      PROVE  Held'
  <2>1. /\ stage' = [stage EXCEPT ![Head(events[c]).by] = "printed"]
        /\ UNCHANGED <<cpu, num, register, event_buf, overtaken>>
    BY <1>6 DEF Read
  <2>2. ASSUME NEW v \in Writes, stage'[v] \in Running \/ stage'[v] = "output"
        PROVE  stage'[v] = stage[v]
    BY <2>1, <2>2 DEF Running
  <2>3. QED
    BY <2>1, <2>2, HoldsKept DEF Held
<1>7. CASE OpenReader \/ Interrupt \/ CloseReader \/ Detach \/ UNCHANGED captureVars
  <2>1. UNCHANGED <<stage, cpu, num, register, event_buf, overtaken>>
    BY <1>7 DEF OpenReader, Interrupt, CloseReader, Detach, captureVars, kernel, probe
  <2>2. QED
    BY <2>1 DEF Held, Holds
<1>8. QED
  <2>1. \A n \in -1 .. (MAX_DATA_SIZE + 1) : n \in Int
    BY CaptureSizes
  <2>2. QED
    BY <1>1, <1>2, <1>4, <1>5, <1>6, <1>7, <2>1 DEF CaptureNext, Main, Probe

LEMMA UnmixedStep ==
  CaptureTypeOK /\ Sent /\ Held /\ Unmixed /\ [CaptureNext]_captureVars => Unmixed'
<1> SUFFICES ASSUME CaptureTypeOK, Sent, Held, Unmixed, [CaptureNext]_captureVars
             PROVE  Unmixed'
  OBVIOUS
<1>0. ASSUME NEW c \in CPUs, NEW k \in DOMAIN events[c]
      PROVE  events[c][k] \in Samples /\ events[c][k].by \in Writes
  <2>1. events[c] \in Seq(Samples)
    BY DEF CaptureTypeOK
  <2>2. events[c][k] \in Samples
    BY <2>1
  <2>3. QED
    BY <2>2 DEF Samples
<1>1. ASSUME NEW w \in Writes, stage[w] \notin {"queued", "printed"}, UNCHANGED <<events, shown>>,
             \A v \in Writes : v # w => stage'[v] = stage[v],
             \A v \in overtaken : v = w \/ v \in overtaken'
      PROVE  Unmixed'
  BY <1>0, <1>1 DEF Unmixed, Sent, OwnSample
<1>2. ASSUME NEW w \in Writes,
             StoreCount(w) \/ (\E ret \in {0, -1} : Copy(w, ret))
               \/ \E c \in CPUs, n \in Int : Enter(w, c, n)
      PROVE  Unmixed'
  <2>1. stage[w] \notin {"queued", "printed"} /\ UNCHANGED <<events, shown>>
    BY <1>2 DEF Enter, Copy, StoreCount, loader
  <2>2. \A v \in Writes : v # w => stage'[v] = stage[v]
    BY <1>2 DEF Enter, Copy, StoreCount, AfterError, CaptureTypeOK
  <2>3. \A v \in overtaken : v = w \/ v \in overtaken'
    BY <1>2 DEF Enter, Copy, StoreCount, Overtake, Leaves
  <2>4. QED
    BY <1>1, <2>1, <2>2, <2>3
<1>3. ASSUME NEW w \in Writes, Output(w)
      PROVE  Unmixed'
  <2> DEFINE c == cpu[w]
             new == [ev |-> event_buf[c], by |-> w, lost |-> lost[c]]
  <2>1. /\ stage[w] = "output" /\ c \in CPUs /\ shown' = shown
        /\ \A v \in Writes : v # w => stage'[v] = stage[v]
        /\ \A v \in overtaken : v = w \/ v \in overtaken'
    BY <1>3, RunningOnCPU DEF Output, Leaves, Running, CaptureTypeOK, loader
  <2>2. CASE events' = events
    BY <1>1, <2>1, <2>2
  <2>3. CASE events' = [events EXCEPT ![c] = Append(@, new)] /\ stage'[w] = "queued"
    <3>1. overtaken' = overtaken
      BY <1>3, <2>3 DEF Output, Leaves
    <3>2. w \notin overtaken => OwnSample(new)
      BY <2>1 DEF Held, Holds, OwnSample, Running
    <3>3. new.by = w
      OBVIOUS
    <3> HIDE DEF new
    <3>4. ASSUME NEW d \in CPUs, NEW k \in DOMAIN events'[d]
          PROVE  \/ events'[d][k] = new
                 \/ k \in DOMAIN events[d] /\ events'[d][k] = events[d][k]
      BY <2>1, <2>3 DEF CaptureTypeOK
    <3>5. \A d \in CPUs : \A k \in DOMAIN events'[d] :
            events'[d][k].by \notin overtaken => OwnSample(events'[d][k])
      BY <3>2, <3>3, <3>4 DEF Unmixed
    <3>6. QED
      BY <2>1, <3>1, <3>5 DEF Unmixed, OwnSample
  <2>4. QED
    BY <1>3, <2>2, <2>3 DEF Output, CaptureTypeOK
<1>4. ASSUME NEW c \in CPUs, Read(c)
      PROVE  Unmixed'
  <2> DEFINE e == Head(events[c])
  <2>1. /\ events[c] # <<>> /\ events' = [events EXCEPT ![c] = Tail(@)] /\ shown' = e
        /\ stage' = [stage EXCEPT ![e.by] = "printed"] /\ overtaken' = overtaken
    BY <1>4 DEF Read
  <2>2. e = events[c][1] /\ 1 \in DOMAIN events[c]
    BY <2>1 DEF CaptureTypeOK
  <2>3. e.by \in Writes /\ stage'[e.by] = "printed" /\ (e.by \notin overtaken => OwnSample(e))
    BY <1>0, <2>1, <2>2 DEF Unmixed, CaptureTypeOK
  <2>4. ASSUME NEW d \in CPUs, NEW k \in DOMAIN events'[d]
        PROVE  \E j \in DOMAIN events[d] : events'[d][k] = events[d][j]
    BY <2>1, HeadSent DEF CaptureTypeOK
  <2> HIDE DEF e
  <2>5. QED
    BY <2>1, <2>3, <2>4 DEF Unmixed, OwnSample
<1>5. CASE OpenReader \/ Interrupt \/ CloseReader \/ Detach \/ UNCHANGED captureVars
  <2>1. UNCHANGED <<stage, events, shown, overtaken>>
    BY <1>5 DEF OpenReader, Interrupt, CloseReader, Detach, captureVars, kernel, probe, loader
  <2>2. QED
    BY <2>1 DEF Unmixed, OwnSample
<1>6. QED
  <2>1. \A n \in -1 .. (MAX_DATA_SIZE + 1) : n \in Int
    BY CaptureSizes
  <2>2. QED
    BY <1>2, <1>3, <1>4, <1>5, <2>1 DEF CaptureNext, Main, Probe

\* A line shows the header and the bytes of the write that sent it (main.bpf.c:42-55,
\* main.go:124), whatever earlier writes left in the buffer, unless another probe had
\* the buffer in between.
THEOREM LinesAreOwn == CaptureSpec => []OwnData
<1>1. CaptureInit => Held /\ Unmixed
  BY DEF CaptureInit, Held, Unmixed, Running
<1>2. Unmixed => OwnData
  BY DEF Unmixed, OwnSample, OwnData, Text
<1>3. QED
  BY <1>1, <1>2, HeldStep, UnmixedStep, CaptureTyped, PTL DEF CaptureSpec

----------------------------------------------------------------------------
(* The captured writes: what "Intercepted" counts.                         *)

\* A sum over the successors of some numbers is that of the values one place further on.
LEMMA SumShift ==
  ASSUME NEW n \in Nat, NEW f, NEW h, \A x \in 1 .. n : h[x] \in Nat /\ h[x] = f[x + 1]
  PROVE  SumFunctionOnSet(h, 1 .. n) = SumFunctionOnSet(f, 2 .. n + 1)
<1> DEFINE Up(T) == {x + 1 : x \in T}
           Bad == {T \in SUBSET (1 .. n) : SumFunctionOnSet(h, T) # SumFunctionOnSet(f, Up(T))}
<1>1. Up(1 .. n) = 2 .. n + 1
  <2>1. ASSUME NEW y \in 2 .. n + 1
        PROVE  y - 1 \in 1 .. n /\ y = (y - 1) + 1
    OBVIOUS
  <2>2. QED
    BY <2>1
<1>2. IsFiniteSet(1 .. n) /\ IsFiniteSet(2 .. n + 1)
  BY FS_Interval
<1>3. SUFFICES ASSUME Bad # {} PROVE FALSE
  BY <1>1
<1>4. PICK T \in Bad : \A U \in Bad : U \subseteq T => U = T
  <2> DEFINE S == 1 .. n
  <2>1. Bad \subseteq SUBSET S /\ IsFiniteSet(S) /\ Bad # {}
    BY <1>2, <1>3
  <2> HIDE DEF Bad, S
  <2>2. QED
    BY <2>1, Smallest
<1>5. Up(T) \subseteq 2 .. n + 1
  BY <1>1
<1>6. IsFiniteSet(T) /\ IsFiniteSet(Up(T))
  BY <1>2, <1>5, FS_Subset
<1>7. T # {}
  <2>1. T = {} => Up(T) = {}
    OBVIOUS
  <2>2. T = {} => SumFunctionOnSet(h, T) = 0 /\ SumFunctionOnSet(f, Up(T)) = 0
    BY <1>6, <2>1, SumUnfold
  <2>3. QED
    BY <2>2
<1> DEFINE x == Pick(T)
<1>8. x \in T /\ x \in 1 .. n
  BY <1>7 DEF Pick
<1>9. Up(T \ {x}) = Up(T) \ {x + 1} /\ x + 1 \in Up(T)
  BY <1>8
<1>10. SumFunctionOnSet(h, T \ {x}) = SumFunctionOnSet(f, Up(T \ {x}))
  BY <1>4, <1>8
<1>11. \A y \in Up(T) : f[y] \in Nat
  OBVIOUS
<1> HIDE DEF Up
<1>12. SumFunctionOnSet(f, Up(T)) = f[x + 1] + SumFunctionOnSet(f, Up(T) \ {x + 1})
  BY <1>6, <1>9, <1>11, SumRemove
<1>13. SumFunctionOnSet(h, T) = h[x] + SumFunctionOnSet(h, T \ {x})
  BY <1>6, <1>7, SumUnfold
<1>14. h[x] = f[x + 1]
  BY <1>8
<1>15. SumFunctionOnSet(h, T) = SumFunctionOnSet(f, Up(T))
  BY <1>9, <1>10, <1>12, <1>13, <1>14
<1>16. QED
  BY <1>4, <1>15

\* The lost events that a buffer's notices report, and how an event adds its own.
LEMMA NotesTyped ==
  ASSUME NEW q \in Seq(Samples)
  PROVE  /\ DOMAIN Notes(q) = 1 .. Len(q) /\ IsFiniteSet(1 .. Len(q))
         /\ \A k \in 1 .. Len(q) : Notes(q)[k] = q[k].lost /\ q[k].lost \in Nat
         /\ SumFunction(Notes(q)) = SumFunctionOnSet(Notes(q), 1 .. Len(q))
         /\ SumFunction(Notes(q)) \in Nat
<1>1. DOMAIN q = 1 .. Len(q) /\ Len(q) \in Nat
  OBVIOUS
<1>2. DOMAIN Notes(q) = 1 .. Len(q) /\ IsFiniteSet(1 .. Len(q))
  BY <1>1, FS_Interval DEF Notes
<1>3. ASSUME NEW k \in 1 .. Len(q)
      PROVE  Notes(q)[k] = q[k].lost /\ q[k].lost \in Nat
  <2>1. q[k] \in Samples
    BY <1>1
  <2>2. QED
    BY <1>1, <2>1 DEF Notes, Samples
<1>4. SumFunctionOnSet(Notes(q), 1 .. Len(q)) \in Nat
  BY <1>2, <1>3, SumRemove
<1>5. QED
  BY <1>2, <1>3, <1>4 DEF SumFunction

LEMMA NotesAppend ==
  ASSUME NEW q \in Seq(Samples), NEW e \in Samples
  PROVE  SumFunction(Notes(Append(q, e))) = SumFunction(Notes(q)) + e.lost
<1> DEFINE n == Len(q)
           p == Append(q, e)
<1>1. /\ p \in Seq(Samples) /\ Len(p) = n + 1 /\ n \in Nat /\ p[n + 1] = e
      /\ \A k \in 1 .. n : p[k] = q[k]
  OBVIOUS
<1> HIDE DEF p
<1>2. /\ SumFunction(Notes(p)) = SumFunctionOnSet(Notes(p), 1 .. n + 1)
      /\ IsFiniteSet(1 .. n + 1)
      /\ \A k \in 1 .. n + 1 : Notes(p)[k] = p[k].lost /\ p[k].lost \in Nat
  BY <1>1, NotesTyped
<1>3. n + 1 \in 1 .. n + 1 /\ (1 .. n + 1) \ {n + 1} = 1 .. n
  BY <1>1
<1>4. SumFunctionOnSet(Notes(p), 1 .. n + 1) = Notes(p)[n + 1] + SumFunctionOnSet(Notes(p), 1 .. n)
  <2> DEFINE S == 1 .. n + 1
             f == Notes(p)
  <2>1. IsFiniteSet(S) /\ (\A k \in S : f[k] \in Nat) /\ n + 1 \in S
    BY <1>2, <1>3
  <2>2. SumFunctionOnSet(f, S) = f[n + 1] + SumFunctionOnSet(f, S \ {n + 1})
    <3> HIDE DEF S, f
    <3>1. QED
      BY <2>1, SumRemove
  <2>3. QED
    BY <1>3, <2>2
<1>5. /\ SumFunction(Notes(q)) = SumFunctionOnSet(Notes(q), 1 .. n) /\ IsFiniteSet(1 .. n)
      /\ SumFunction(Notes(q)) \in Nat
      /\ \A k \in 1 .. n : Notes(q)[k] = q[k].lost
  BY NotesTyped
<1>6. \A k \in 1 .. n : Notes(p)[k] = Notes(q)[k]
  BY <1>1, <1>2, <1>5
<1>7. SumFunctionOnSet(Notes(p), 1 .. n) = SumFunctionOnSet(Notes(q), 1 .. n)
  BY <1>5, <1>6, SumAgree
<1>8. Notes(p)[n + 1] = e.lost /\ e.lost \in Nat
  BY <1>1, <1>2, <1>3
<1>9. QED
  BY <1>2, <1>4, <1>5, <1>7, <1>8 DEF p

LEMMA NotesTail ==
  ASSUME NEW q \in Seq(Samples), q # <<>>
  PROVE  SumFunction(Notes(q)) = Head(q).lost + SumFunction(Notes(Tail(q)))
<1> DEFINE n == Len(q) - 1
           p == Tail(q)
<1>1. /\ n \in Nat /\ Len(q) = n + 1 /\ Len(p) = n /\ p \in Seq(Samples) /\ Head(q) = q[1]
      /\ \A k \in 1 .. n : p[k] = q[k + 1]
  OBVIOUS
<1> HIDE DEF p, n
<1>2. /\ SumFunction(Notes(q)) = SumFunctionOnSet(Notes(q), 1 .. n + 1) /\ IsFiniteSet(1 .. n + 1)
      /\ \A k \in 1 .. n + 1 : Notes(q)[k] = q[k].lost /\ q[k].lost \in Nat
  BY <1>1, NotesTyped
<1>3. /\ SumFunction(Notes(p)) = SumFunctionOnSet(Notes(p), 1 .. n)
      /\ \A k \in 1 .. n : Notes(p)[k] = p[k].lost /\ p[k].lost \in Nat
  BY <1>1, NotesTyped
<1>4. 1 \in 1 .. n + 1 /\ (1 .. n + 1) \ {1} = 2 .. n + 1 /\ \A k \in 1 .. n : k + 1 \in 1 .. n + 1
  BY <1>1
<1>5. SumFunctionOnSet(Notes(q), 1 .. n + 1) = Notes(q)[1] + SumFunctionOnSet(Notes(q), 2 .. n + 1)
  <2> DEFINE S == 1 .. n + 1
             f == Notes(q)
  <2>1. IsFiniteSet(S) /\ (\A k \in S : f[k] \in Nat) /\ 1 \in S
    BY <1>2, <1>4
  <2>2. SumFunctionOnSet(f, S) = f[1] + SumFunctionOnSet(f, S \ {1})
    <3> HIDE DEF S, f
    <3>1. QED
      BY <2>1, SumRemove
  <2>3. QED
    BY <1>4, <2>2
<1>6. \A k \in 1 .. n : Notes(p)[k] \in Nat /\ Notes(p)[k] = Notes(q)[k + 1]
  BY <1>1, <1>2, <1>3, <1>4
<1>7. SumFunctionOnSet(Notes(p), 1 .. n) = SumFunctionOnSet(Notes(q), 2 .. n + 1)
  BY <1>1, <1>6, SumShift
<1>8. QED
  BY <1>1, <1>2, <1>3, <1>4, <1>5, <1>7 DEF p

\* The four parts of what "Intercepted" is compared with.
Past == {"output", "printed", "queued", "missed"}
PastWrites == {w \in Writes : stage[w] \in Past}
NotesOf(q) == SumFunction(Notes(q))
Total == Cardinality(PastWrites) + told + Noted + Lost

LEMMA TotalTyped ==
  ASSUME CaptureTypeOK
  PROVE  /\ IsFiniteSet(PastWrites) /\ Cardinality(PastWrites) \in Nat
         /\ told \in Nat /\ Noted \in Nat /\ Lost \in Nat /\ Total \in Nat
         /\ \A c \in CPUs : NotesOf(events[c]) \in Nat
         /\ Lost = SumFunctionOnSet(lost, CPUs)
         /\ Noted = SumFunctionOnSet([c \in CPUs |-> NotesOf(events[c])], CPUs)
<1>1. IsFiniteSet(PastWrites) /\ Cardinality(PastWrites) \in Nat
  BY WritesAssumption, FS_Subset, FS_CardinalityType DEF PastWrites
<1>2. \A c \in CPUs : NotesOf(events[c]) \in Nat
  BY NotesTyped DEF NotesOf, CaptureTypeOK
<1>3. Lost = SumFunctionOnSet(lost, CPUs)
  BY DEF Lost, SumFunction, CaptureTypeOK
<1>4. Lost \in Nat
  BY <1>3, CPUsAssumption, SumRemove DEF CaptureTypeOK
<1>5. Noted = SumFunctionOnSet([c \in CPUs |-> NotesOf(events[c])], CPUs)
  BY DEF Noted, SumFunction, NotesOf
<1>6. SumFunctionOnSet([c \in CPUs |-> NotesOf(events[c])], CPUs) \in Nat
  BY <1>2, CPUsAssumption, SumRemove
<1>7. told \in Nat
  BY DEF CaptureTypeOK
<1>8. QED
  BY <1>1, <1>2, <1>3, <1>4, <1>5, <1>6, <1>7 DEF Total

\* A write that goes from one stage to another.
LEMMA PastChange ==
  ASSUME CaptureTypeOK, NEW w \in Writes, NEW e, stage' = [stage EXCEPT ![w] = e]
  PROVE  Cardinality(PastWrites)' = Cardinality(PastWrites)
           + (IF stage[w] \notin Past /\ e \in Past THEN 1 ELSE 0)
           - (IF stage[w] \in Past /\ e \notin Past THEN 1 ELSE 0)
<1>1. IsFiniteSet(PastWrites) /\ Cardinality(PastWrites) \in Nat
  BY TotalTyped
<1>2. \A v \in Writes : stage'[v] = IF v = w THEN e ELSE stage[v]
  BY DEF CaptureTypeOK
<1>3. CASE stage[w] \in Past <=> e \in Past
  <2>1. PastWrites' = PastWrites
    BY <1>2, <1>3 DEF PastWrites, Past
  <2>2. QED
    BY <1>1, <1>3, <2>1
<1>4. CASE stage[w] \notin Past /\ e \in Past
  <2>1. PastWrites' = PastWrites \cup {w} /\ w \notin PastWrites
    BY <1>2, <1>4 DEF PastWrites, Past
  <2>2. Cardinality(PastWrites') = Cardinality(PastWrites) + 1
    BY <1>1, <2>1, FS_AddElement
  <2>3. Cardinality(PastWrites)' = Cardinality(PastWrites')
    OBVIOUS
  <2>4. QED
    BY <1>1, <1>4, <2>2, <2>3
<1>5. CASE stage[w] \in Past /\ e \notin Past
  <2>1. PastWrites' = PastWrites \ {w} /\ w \in PastWrites
    BY <1>2, <1>5 DEF PastWrites, Past
  <2>2. Cardinality(PastWrites') = Cardinality(PastWrites) - 1
    BY <1>1, <2>1, FS_RemoveElement
  <2>3. Cardinality(PastWrites)' = Cardinality(PastWrites')
    OBVIOUS
  <2>4. QED
    BY <1>1, <1>5, <2>2, <2>3
<1>6. QED
  BY <1>3, <1>4, <1>5

\* A perf buffer or a count of lost events that changes.
LEMMA NotedChange ==
  ASSUME CaptureTypeOK, CaptureTypeOK', NEW c \in CPUs,
         \A d \in CPUs : d # c => events'[d] = events[d]
  PROVE  Noted' = Noted + (NotesOf(events'[c]) - NotesOf(events[c]))
<1> DEFINE f == [d \in CPUs |-> NotesOf(events[d])]
           g == [d \in CPUs |-> NotesOf(events'[d])]
<1>1. Noted = SumFunctionOnSet(f, CPUs) /\ Noted' = SumFunctionOnSet(g, CPUs)
  BY DEF Noted, SumFunction, NotesOf
<1>2. \A d \in CPUs : f[d] \in Nat /\ g[d] \in Nat /\ (d # c => g[d] = f[d])
  <2>1. \A d \in CPUs : events[d] \in Seq(Samples) /\ events'[d] \in Seq(Samples)
    BY DEF CaptureTypeOK, Samples, Buffers, Bytes
  <2>2. \A d \in CPUs : NotesOf(events[d]) \in Nat /\ NotesOf(events'[d]) \in Nat
    BY <2>1, NotesTyped DEF NotesOf
  <2>3. QED
    BY <2>2
<1>3. f[c] = NotesOf(events[c]) /\ g[c] = NotesOf(events'[c])
  OBVIOUS
<1> HIDE DEF f, g
<1>4. SumFunctionOnSet(g, CPUs) = SumFunctionOnSet(f, CPUs) + (IF c \in CPUs THEN g[c] - f[c] ELSE 0)
  BY <1>2, CPUsAssumption, SumChange
<1>5. QED
  BY <1>1, <1>3, <1>4

LEMMA LostChange ==
  ASSUME CaptureTypeOK, CaptureTypeOK', NEW c \in CPUs,
         \A d \in CPUs : d # c => lost'[d] = lost[d]
  PROVE  Lost' = Lost + (lost'[c] - lost[c])
<1>1. Lost = SumFunctionOnSet(lost, CPUs) /\ Lost' = SumFunctionOnSet(lost', CPUs)
  BY DEF Lost, SumFunction, CaptureTypeOK
<1>2. \A d \in CPUs : lost[d] \in Nat /\ lost'[d] \in Nat /\ (d # c => lost'[d] = lost[d])
  BY DEF CaptureTypeOK
<1>3. SumFunctionOnSet(lost', CPUs) = SumFunctionOnSet(lost, CPUs)
        + (IF c \in CPUs THEN lost'[c] - lost[c] ELSE 0)
  BY <1>2, CPUsAssumption, SumChange
<1>4. QED
  BY <1>1, <1>3

\* A write that goes from one stage to another while the buffers stay as they are.
LEMMA MoveTotal ==
  ASSUME CaptureTypeOK, NEW w \in Writes, NEW e, stage' = [stage EXCEPT ![w] = e],
         told' = told, events' = events, lost' = lost
  PROVE  Total' = Total + (IF stage[w] \notin Past /\ e \in Past THEN 1 ELSE 0)
                        - (IF stage[w] \in Past /\ e \notin Past THEN 1 ELSE 0)
<1>1. Noted' = Noted
  BY DEF Noted, Notes
<1>2. Lost' = Lost
  BY DEF Lost
<1>3. Cardinality(PastWrites)' = Cardinality(PastWrites)
        + (IF stage[w] \notin Past /\ e \in Past THEN 1 ELSE 0)
        - (IF stage[w] \in Past /\ e \notin Past THEN 1 ELSE 0)
  BY PastChange
<1>4. Total' = Cardinality(PastWrites)' + told' + Noted' + Lost'
  BY DEF Total
<1>5. /\ Total = Cardinality(PastWrites) + told + Noted + Lost
      /\ Cardinality(PastWrites) \in Nat /\ told \in Nat /\ Noted \in Nat /\ Lost \in Nat
  BY TotalTyped DEF Total
<1>6. QED
  BY <1>1, <1>2, <1>3, <1>4, <1>5

\* An event that is sent stays in the total: as one to be read, or in the count of those
\* lost, which the next one sent takes along.
LEMMA OutputTotal ==
  ASSUME CaptureTypeOK, CaptureTypeOK', NEW w \in Writes, Output(w)
  PROVE  Total' = Total
<1> DEFINE c == cpu[w]
           new == [ev |-> event_buf[c], by |-> w, lost |-> lost[c]]
<1>1. c \in CPUs /\ stage[w] = "output" /\ stage[w] \in Past
  BY RunningOnCPU DEF Output, Running, Past
<1>2. told' = told
  BY DEF Output, loader
<1>3. /\ Total = Cardinality(PastWrites) + told + Noted + Lost
      /\ Cardinality(PastWrites) \in Nat /\ told \in Nat /\ Noted \in Nat /\ Lost \in Nat
      /\ NotesOf(events[c]) \in Nat
  BY <1>1, TotalTyped DEF Total
<1>4. Total' = Cardinality(PastWrites)' + told' + Noted' + Lost'
  BY DEF Total
<1>5. lost[c] \in Nat
  BY <1>1 DEF CaptureTypeOK
<1>6. CASE stage' = [stage EXCEPT ![w] = "missed"] /\ UNCHANGED <<events, lost>>
  <2>1. "missed" \in Past
    BY DEF Past
  <2>2. Total \in Nat
    BY TotalTyped
  <2>3. Total' = Total + 0 - 0
    BY <1>1, <1>2, <1>6, <2>1, MoveTotal
  <2>4. QED
    BY <2>2, <2>3
<1>7. CASE /\ stage' = [stage EXCEPT ![w] = "lost"] /\ lost' = [lost EXCEPT ![c] = @ + 1]
           /\ UNCHANGED events
  <2>1. "lost" \notin Past
    BY DEF Past
  <2>2. Cardinality(PastWrites)' = Cardinality(PastWrites) - 1
    <3>1. Cardinality(PastWrites)' = Cardinality(PastWrites) + 0 - 1
      BY <1>1, <1>7, <2>1, PastChange
    <3>2. QED
      BY <1>3, <3>1
  <2>3. lost'[c] = lost[c] + 1 /\ \A d \in CPUs : d # c => lost'[d] = lost[d]
    BY <1>1, <1>7 DEF CaptureTypeOK
  <2>4. Lost' = Lost + 1
    <3>1. Lost' = Lost + (lost'[c] - lost[c])
      BY <1>1, <2>3, LostChange
    <3>2. QED
      BY <1>5, <2>3, <3>1
  <2>5. Noted' = Noted
    BY <1>7 DEF Noted, Notes
  <2>6. QED
    BY <1>2, <1>3, <1>4, <2>2, <2>4, <2>5
<1>8. CASE /\ stage' = [stage EXCEPT ![w] = "queued"]
           /\ events' = [events EXCEPT ![c] = Append(@, new)]
           /\ lost' = [lost EXCEPT ![c] = 0]
  <2>1. "queued" \in Past
    BY DEF Past
  <2>2. Cardinality(PastWrites)' = Cardinality(PastWrites)
    <3>1. Cardinality(PastWrites)' = Cardinality(PastWrites) + 0 - 0
      BY <1>1, <1>8, <2>1, PastChange
    <3>2. QED
      BY <1>3, <3>1
  <2>3. lost'[c] = 0 /\ \A d \in CPUs : d # c => lost'[d] = lost[d]
    BY <1>1, <1>8 DEF CaptureTypeOK
  <2>4. Lost' = Lost - lost[c]
    <3>1. Lost' = Lost + (lost'[c] - lost[c])
      BY <1>1, <2>3, LostChange
    <3>2. QED
      BY <1>3, <1>5, <2>3, <3>1
  <2>5. events'[c] = Append(events[c], new) /\ \A d \in CPUs : d # c => events'[d] = events[d]
    BY <1>1, <1>8 DEF CaptureTypeOK
  <2>6. NotesOf(events'[c]) = NotesOf(events[c]) + lost[c]
    <3>1. events[c] \in Seq(Samples) /\ new \in Samples /\ new.lost = lost[c]
      BY <1>1 DEF CaptureTypeOK, Samples
    <3> HIDE DEF new
    <3>2. QED
      BY <2>5, <3>1, NotesAppend DEF NotesOf
  <2>7. Noted' = Noted + lost[c]
    <3>1. Noted' = Noted + (NotesOf(events'[c]) - NotesOf(events[c]))
      BY <1>1, <2>5, NotedChange
    <3>2. QED
      BY <1>3, <1>5, <2>6, <3>1
  <2>8. QED
    BY <1>2, <1>3, <1>4, <1>5, <2>2, <2>4, <2>7
<1>9. QED
  BY <1>6, <1>7, <1>8 DEF Output

\* The notice that goes with an event tells what its buffer noted.
LEMMA ReadTotal ==
  ASSUME CaptureTypeOK, CaptureTypeOK', Sent, NEW c \in CPUs, Read(c)
  PROVE  Total' = Total
<1> DEFINE e == Head(events[c])
<1>1. /\ events[c] # <<>> /\ told' = told + e.lost /\ lost' = lost
      /\ stage' = [stage EXCEPT ![e.by] = "printed"]
      /\ events' = [events EXCEPT ![c] = Tail(@)]
  BY DEF Read
<1>2. e \in Samples /\ e.by \in Writes /\ stage[e.by] \in Past /\ "printed" \in Past
  BY <1>1, HeadSent DEF Past
<1>3. /\ Total = Cardinality(PastWrites) + told + Noted + Lost
      /\ Cardinality(PastWrites) \in Nat /\ told \in Nat /\ Noted \in Nat /\ Lost \in Nat
      /\ NotesOf(events[c]) \in Nat
  BY TotalTyped DEF Total
<1>4. Total' = Cardinality(PastWrites)' + told' + Noted' + Lost'
  BY DEF Total
<1>5. e.lost \in Nat
  BY <1>2 DEF Samples
<1>6. events'[c] = Tail(events[c]) /\ \A d \in CPUs : d # c => events'[d] = events[d]
  BY <1>1 DEF CaptureTypeOK
<1>7. NotesOf(events[c]) = e.lost + NotesOf(events'[c])
  <2>1. events[c] \in Seq(Samples)
    BY DEF CaptureTypeOK
  <2>2. QED
    BY <1>1, <1>6, <2>1, NotesTail DEF NotesOf
<1>8. NotesOf(events'[c]) \in Nat
  <2>1. events'[c] \in Seq(Samples)
    BY DEF CaptureTypeOK, Samples, Buffers, Bytes
  <2>2. QED
    BY <2>1, NotesTyped DEF NotesOf
<1>9. Noted' = Noted + (NotesOf(events'[c]) - NotesOf(events[c]))
  BY <1>6, NotedChange
<1>10. Lost' = Lost
  BY <1>1 DEF Lost
<1> HIDE DEF e
<1>11. Cardinality(PastWrites)' = Cardinality(PastWrites)
  <2>1. Cardinality(PastWrites)' = Cardinality(PastWrites) + 0 - 0
    BY <1>1, <1>2, PastChange
  <2>2. QED
    BY <1>3, <2>1
<1>12. Noted' = Noted - e.lost
  BY <1>3, <1>5, <1>7, <1>8, <1>9
<1>13. told' = told + e.lost
  BY <1>1
<1>14. QED
  BY <1>3, <1>4, <1>5, <1>10, <1>11, <1>12, <1>13

\* A probe that is about to store the count of intercepted writes.
Storing(w) == stage[w] = "store" /\ register[w].idx = 0

\* What a step does to the total: only a store of that count adds to it, one.
Quiet ==
  /\ Total' = Total /\ counters'[0] = counters[0]
  /\ \A w \in Writes : Storing(w)' =>
       \/ Storing(w) /\ register'[w] = register[w] /\ cpu'[w] = cpu[w]
       \/ cpu'[w] \in CPUs /\ register'[w].val = counters[0][cpu'[w]]

Stores(w) ==
  /\ Storing(w) /\ cpu[w] \in CPUs
  /\ Total' = Total + 1
  /\ counters'[0] = [counters[0] EXCEPT ![cpu[w]] = register[w].val + 1]
  /\ \A v \in Writes : Storing(v)' =>
       v # w /\ Storing(v) /\ register'[v] = register[v] /\ cpu'[v] = cpu[v]

LEMMA TotalStep ==
  ASSUME CaptureTypeOK, CaptureTypeOK', Sent, [CaptureNext]_captureVars
  PROVE  Quiet \/ \E w \in Writes : Stores(w)
<1>0. Total \in Nat
  BY TotalTyped
<1>1. ASSUME NEW w \in Writes, NEW c \in CPUs, NEW n \in Int, Enter(w, c, n)
      PROVE  Quiet
  <2>1. /\ stage[w] = "new" /\ stage' = [stage EXCEPT ![w] = "copy"]
        /\ \A v \in Writes : v # w => cpu'[v] = cpu[v]
        /\ UNCHANGED <<register, counters, told, events, lost>>
    BY <1>1 DEF Enter, loader, CaptureTypeOK
  <2>2. Total' = Total
    <3>1. "new" \notin Past /\ "copy" \notin Past
      BY DEF Past
    <3>2. Total' = Total + 0 - 0
      BY <2>1, <3>1, MoveTotal
    <3>3. QED
      BY <1>0, <3>2
  <2>3. \A v \in Writes : Storing(v)' => v # w /\ Storing(v)
    BY <2>1 DEF Storing, CaptureTypeOK
  <2>4. QED
    BY <2>1, <2>2, <2>3 DEF Quiet
<1>2. ASSUME NEW w \in Writes, NEW ret \in {0, -1}, Copy(w, ret)
      PROVE  Quiet
  <2>1. /\ stage[w] = "copy" /\ stage' = [stage EXCEPT ![w] = "store"]
        /\ \A v \in Writes : v # w => register'[v] = register[v]
        /\ register'[w].idx = 0 => register'[w].val = counters[0][cpu[w]]
        /\ UNCHANGED <<cpu, counters, told, events, lost>>
    BY <1>2 DEF Copy, loader, CaptureTypeOK
  <2>2. Total' = Total
    <3>1. "copy" \notin Past /\ "store" \notin Past
      BY DEF Past
    <3>2. Total' = Total + 0 - 0
      BY <2>1, <3>1, MoveTotal
    <3>3. QED
      BY <1>0, <3>2
  <2>3. cpu[w] \in CPUs
    BY <2>1, RunningOnCPU DEF Running
  <2>4. \A v \in Writes : v # w /\ Storing(v)' => Storing(v)
    BY <2>1 DEF Storing, CaptureTypeOK
  <2>5. Storing(w)' => register'[w].idx = 0
    BY DEF Storing
  <2>6. QED
    BY <2>1, <2>2, <2>3, <2>4, <2>5 DEF Quiet
<1>3. ASSUME NEW w \in Writes, StoreCount(w)
      PROVE  Quiet \/ Stores(w)
  <2>1. /\ stage[w] = "store" /\ UNCHANGED <<told, events, lost>>
        /\ counters' = [counters EXCEPT ![register[w].idx][cpu[w]] = register[w].val + 1]
        /\ \A v \in Writes : v # w => stage'[v] = stage[v] /\ cpu'[v] = cpu[v]
                                      /\ register'[v] = register[v]
        /\ stage'[w] # "store"
    BY <1>3 DEF StoreCount, AfterError, Leaves, loader, CaptureTypeOK
  <2>2. \A v \in Writes : Storing(v)' => v # w /\ Storing(v)
    BY <2>1 DEF Storing
  <2>3. "store" \notin Past /\ "fault" \notin Past /\ "output" \in Past
    BY DEF Past
  <2>4. cpu[w] \in CPUs /\ register[w].idx \in {0, 1}
    BY <2>1, RunningOnCPU DEF Running, CaptureTypeOK
  <2>5. CASE register[w].idx = 0
    <3>1. stage' = [stage EXCEPT ![w] = "output"]
      BY <1>3, <2>5 DEF StoreCount
    <3>2. Total' = Total + 1 - 0
      BY <2>1, <2>3, <3>1, MoveTotal
    <3>3. counters'[0] = [counters[0] EXCEPT ![cpu[w]] = register[w].val + 1]
      BY <2>1, <2>5 DEF CaptureTypeOK
    <3>4. Total' = Total + 1
      BY <1>0, <3>2
    <3>5. QED
      BY <2>1, <2>2, <2>4, <2>5, <3>3, <3>4 DEF Stores, Storing
  <2>6. CASE register[w].idx = 1
    <3>1. stage' = [stage EXCEPT ![w] = "fault"]
      BY <1>3, <2>6 DEF StoreCount, AfterError
    <3>2. Total' = Total + 0 - 0
      BY <2>1, <2>3, <3>1, MoveTotal
    <3>3. counters'[0] = counters[0]
      BY <2>1, <2>6 DEF CaptureTypeOK
    <3>4. Total' = Total
      BY <1>0, <3>2
    <3>5. QED
      BY <2>1, <2>2, <3>3, <3>4 DEF Quiet
  <2>7. QED
    BY <2>4, <2>5, <2>6
<1>4. ASSUME NEW w \in Writes, Output(w)
      PROVE  Quiet
  <2>1. /\ stage'[w] # "store" /\ counters' = counters
        /\ \A v \in Writes : v # w => stage'[v] = stage[v] /\ cpu'[v] = cpu[v]
                                      /\ register'[v] = register[v]
    BY <1>4 DEF Output, Leaves, CaptureTypeOK
  <2>2. \A v \in Writes : Storing(v)' => v # w /\ Storing(v)
    BY <2>1 DEF Storing
  <2>3. QED
    BY <1>4, <2>1, <2>2, OutputTotal DEF Quiet
<1>5. ASSUME NEW c \in CPUs, Read(c)
      PROVE  Quiet
  <2>1. UNCHANGED <<cpu, register, counters>>
    BY <1>5 DEF Read
  <2>2. \A v \in Writes : stage'[v] = stage[v] \/ stage'[v] = "printed"
    BY <1>5 DEF Read, CaptureTypeOK
  <2>3. \A v \in Writes : Storing(v)' => Storing(v)
    BY <2>1, <2>2 DEF Storing
  <2>4. QED
    BY <1>5, <2>1, <2>3, ReadTotal DEF Quiet
<1>6. CASE OpenReader \/ Interrupt \/ CloseReader \/ Detach \/ UNCHANGED captureVars
  <2>1. UNCHANGED <<stage, cpu, register, counters, told, events, lost>>
    BY <1>6 DEF OpenReader, Interrupt, CloseReader, Detach, captureVars, kernel, probe, loader
  <2>2. Total' = Total
    BY <2>1 DEF Total, PastWrites, Noted, Notes, Lost
  <2>3. QED
    BY <2>1, <2>2 DEF Quiet, Storing
<1>7. QED
  <2>1. \A n \in -1 .. (MAX_DATA_SIZE + 1) : n \in Int
    BY CaptureSizes
  <2>2. QED
    BY <1>1, <1>2, <1>3, <1>4, <1>5, <1>6, <2>1 DEF CaptureNext, Main, Probe

\* How often each CPU's count of intercepted writes has been stored bounds both the
\* count, which two probes may have stored the same value to, and what a probe is about
\* to store.
Bounds(u) ==
  /\ \A c \in CPUs : counters[0][c] <= u[c]
  /\ \A w \in Writes : Storing(w) => register[w].val <= u[cpu[w]]
  /\ SumFunctionOnSet(u, CPUs) <= Total

Below == \E u \in [CPUs -> Nat] : Bounds(u)

\* Without preemption a CPU runs one probe at a time, which nothing overtakes.
OneEach ==
  ~preemptible =>
    \A v, w \in Writes : stage[v] \in Running /\ stage[w] \in Running /\ cpu[v] = cpu[w] => v = w

Exact ==
  ~preemptible =>
    /\ \A w \in Writes : Storing(w) => register[w].val = counters[0][cpu[w]]
    /\ SumFunctionOnSet(counters[0], CPUs) = Total

LEMMA BelowStep ==
  CaptureTypeOK /\ CaptureTypeOK' /\ Sent /\ Below /\ [CaptureNext]_captureVars => Below'
<1> SUFFICES ASSUME CaptureTypeOK, CaptureTypeOK', Sent, Below, [CaptureNext]_captureVars
             PROVE  Below'
  OBVIOUS
<1>0. Total \in Nat
  BY TotalTyped
<1>1. PICK u \in [CPUs -> Nat] : Bounds(u)
  BY DEF Below
<1>2. CASE Quiet
  <2>1. \A c \in CPUs : counters'[0][c] <= u[c]
    BY <1>1, <1>2 DEF Bounds, Quiet
  <2>2. ASSUME NEW w \in Writes, Storing(w)'
        PROVE  register'[w].val <= u[cpu'[w]]
    BY <1>1, <1>2, <2>2 DEF Bounds, Quiet
  <2>3. SumFunctionOnSet(u, CPUs) <= Total'
    BY <1>1, <1>2 DEF Bounds, Quiet
  <2>4. Bounds(u)'
    BY <2>1, <2>2, <2>3 DEF Bounds
  <2>5. QED
    BY <2>4 DEF Below
<1>3. ASSUME NEW w \in Writes, Stores(w)
      PROVE  Below'
  <2> DEFINE c == cpu[w]
  <2>1. c \in CPUs /\ u[c] \in Nat
    BY <1>3 DEF Stores
  <2>2. PICK t \in [CPUs -> Nat] : t[c] = u[c] + 1 /\ \A d \in CPUs : d # c => t[d] = u[d]
    <3>1. [u EXCEPT ![c] = @ + 1] \in [CPUs -> Nat]
      BY <2>1
    <3>2. QED
      BY <2>1, <3>1
  <2>3. \A d \in CPUs : u[d] <= t[d]
    BY <2>1, <2>2
  <2>4. register[w].val <= u[c] /\ register[w].val \in Nat
    BY <1>1, <1>3 DEF Bounds, Stores, CaptureTypeOK
  <2>5. ASSUME NEW d \in CPUs
        PROVE  counters'[0][d] <= t[d]
    <3>1. counters[0] \in [CPUs -> Nat] /\ counters[0][d] <= u[d]
      BY <1>1 DEF Bounds, CaptureTypeOK
    <3>2. CASE d = c
      <4>1. counters'[0][c] = register[w].val + 1
        BY <1>3, <2>1, <3>1 DEF Stores
      <4>2. QED
        BY <2>1, <2>2, <2>4, <3>2, <4>1
    <3>3. CASE d # c
      <4>1. counters'[0][d] = counters[0][d]
        BY <1>3, <3>1, <3>3 DEF Stores
      <4>2. QED
        BY <2>2, <3>1, <3>3, <4>1
    <3>4. QED
      BY <3>2, <3>3
  <2>6. ASSUME NEW v \in Writes, Storing(v)'
        PROVE  register'[v].val <= t[cpu'[v]]
    <3>1. Storing(v) /\ register'[v] = register[v] /\ cpu'[v] = cpu[v]
      BY <1>3, <2>6 DEF Stores
    <3>2. register[v].val <= u[cpu[v]] /\ cpu[v] \in CPUs /\ register[v].val \in Nat
      BY <1>1, <3>1, RunningOnCPU DEF Bounds, Storing, Running, CaptureTypeOK
    <3>3. u[cpu[v]] <= t[cpu[v]] /\ u[cpu[v]] \in Nat /\ t[cpu[v]] \in Nat
      BY <2>2, <2>3, <3>2
    <3>4. register[v].val <= t[cpu[v]]
      BY <3>2, <3>3
    <3>5. QED
      BY <3>1, <3>4
  <2>7. SumFunctionOnSet(t, CPUs) <= Total'
    <3>1. SumFunctionOnSet(t, CPUs)
            = SumFunctionOnSet(u, CPUs) + (IF c \in CPUs THEN t[c] - u[c] ELSE 0)
      BY <2>2, CPUsAssumption, SumChange
    <3>2. SumFunctionOnSet(u, CPUs) \in Nat
      BY CPUsAssumption, SumRemove
    <3>3. SumFunctionOnSet(t, CPUs) = SumFunctionOnSet(u, CPUs) + 1
      BY <2>1, <2>2, <3>1, <3>2
    <3>4. Total' = Total + 1
      BY <1>3 DEF Stores
    <3>5. SumFunctionOnSet(u, CPUs) <= Total
      BY <1>1 DEF Bounds
    <3>6. QED
      BY <1>0, <3>2, <3>3, <3>4, <3>5
  <2>8. Bounds(t)'
    BY <2>5, <2>6, <2>7 DEF Bounds
  <2>9. QED
    BY <2>2, <2>8 DEF Below
<1>4. QED
  BY <1>2, <1>3, TotalStep

LEMMA OneEachStep == CaptureTypeOK /\ Sent /\ OneEach /\ [CaptureNext]_captureVars => OneEach'
<1> SUFFICES ASSUME CaptureTypeOK, Sent, OneEach, [CaptureNext]_captureVars
             PROVE  OneEach'
  OBVIOUS
<1>1. ASSUME preemptible' = preemptible,
             \A v \in Writes : stage'[v] \in Running => stage[v] \in Running /\ cpu'[v] = cpu[v]
      PROVE  OneEach'
  BY <1>1 DEF OneEach
<1>2. ASSUME NEW w \in Writes, NEW c \in CPUs, NEW n \in Int, Enter(w, c, n)
      PROVE  OneEach'
  <2>1. /\ stage' = [stage EXCEPT ![w] = "copy"] /\ cpu' = [cpu EXCEPT ![w] = c]
        /\ preemptible' = preemptible
        /\ preemptible \/ \A v \in Writes : cpu[v] # c
    BY <1>2 DEF Enter, On
  <2>2. QED
    BY <2>1 DEF OneEach, CaptureTypeOK
<1>3. ASSUME NEW w \in Writes, StoreCount(w) \/ Output(w) \/ \E ret \in {0, -1} : Copy(w, ret)
      PROVE  OneEach'
  <2>1. stage[w] \in Running /\ preemptible' = preemptible
    BY <1>3 DEF StoreCount, Output, Copy, Running
  <2>2. /\ \A v \in Writes : v # w => stage'[v] = stage[v] /\ cpu'[v] = cpu[v]
        /\ stage'[w] \in Running => cpu'[w] = cpu[w]
    BY <1>3 DEF StoreCount, Output, Copy, Leaves, AfterError, Running, CaptureTypeOK
  <2>3. QED
    BY <1>1, <2>1, <2>2
<1>4. ASSUME NEW c \in CPUs, Read(c)
      PROVE  OneEach'
  <2>1. UNCHANGED <<preemptible, cpu>> /\ stage' = [stage EXCEPT ![Head(events[c]).by] = "printed"]
    BY <1>4 DEF Read
  <2>2. \A v \in Writes : stage'[v] = stage[v] \/ stage'[v] = "printed"
    BY <2>1 DEF CaptureTypeOK
  <2>3. QED
    BY <1>1, <2>1, <2>2 DEF Running
<1>5. CASE OpenReader \/ Interrupt \/ CloseReader \/ Detach \/ UNCHANGED captureVars
  <2>1. UNCHANGED <<preemptible, stage, cpu>>
    BY <1>5 DEF OpenReader, Interrupt, CloseReader, Detach, captureVars, kernel, probe
  <2>2. QED
    BY <1>1, <2>1
<1>6. QED
  <2>1. \A n \in -1 .. (MAX_DATA_SIZE + 1) : n \in Int
    BY CaptureSizes
  <2>2. QED
    BY <1>2, <1>3, <1>4, <1>5, <2>1 DEF CaptureNext, Main, Probe

LEMMA ExactStep ==
  /\ CaptureTypeOK /\ CaptureTypeOK' /\ Sent /\ OneEach /\ Exact
  /\ [CaptureNext]_captureVars
  => Exact'
<1> SUFFICES ASSUME CaptureTypeOK, CaptureTypeOK', Sent, OneEach, Exact,
                    [CaptureNext]_captureVars, ~preemptible'
             PROVE  Exact'
  BY DEF Exact
<1>1. ~preemptible
  BY DEF CaptureNext, Main, Probe, Enter, Copy, StoreCount, Output, Read, OpenReader, Interrupt,
         CloseReader, Detach, captureVars
<1>2. /\ \A w \in Writes : Storing(w) => register[w].val = counters[0][cpu[w]]
      /\ SumFunctionOnSet(counters[0], CPUs) = Total
  BY <1>1 DEF Exact
<1>3. counters[0] \in [CPUs -> Nat] /\ counters'[0] \in [CPUs -> Nat]
  BY DEF CaptureTypeOK
<1>4. CASE Quiet
  <2>1. ASSUME NEW w \in Writes, Storing(w)'
        PROVE  register'[w].val = counters'[0][cpu'[w]]
    BY <1>2, <1>4, <2>1 DEF Quiet
  <2>2. SumFunctionOnSet(counters'[0], CPUs) = Total'
    BY <1>2, <1>4 DEF Quiet
  <2>3. QED
    BY <2>1, <2>2 DEF Exact
<1>5. ASSUME NEW w \in Writes, Stores(w)
      PROVE  Exact'
  <2> DEFINE c == cpu[w]
             f == counters[0]
             g == counters'[0]
  <2>1. c \in CPUs /\ Storing(w) /\ g = [f EXCEPT ![c] = register[w].val + 1]
    BY <1>5 DEF Stores
  <2>2. g[c] = f[c] + 1 /\ f[c] \in Nat /\ \A d \in CPUs : d # c => g[d] = f[d]
    BY <1>2, <1>3, <2>1
  <2>3. ASSUME NEW v \in Writes, Storing(v)'
        PROVE  register'[v].val = counters'[0][cpu'[v]]
    <3>1. v # w /\ Storing(v) /\ register'[v] = register[v] /\ cpu'[v] = cpu[v]
      BY <1>5, <2>3 DEF Stores
    <3>2. cpu[v] # c /\ cpu[v] \in CPUs
      BY <1>1, <2>1, <3>1, RunningOnCPU DEF OneEach, Storing, Running
    <3>3. QED
      BY <1>2, <2>2, <3>1, <3>2
  <2>4. SumFunctionOnSet(g, CPUs) = SumFunctionOnSet(f, CPUs) + 1
    <3>1. \A d \in CPUs : f[d] \in Nat /\ g[d] \in Nat /\ (d # c => g[d] = f[d])
      BY <1>3, <2>2
    <3> HIDE DEF f, g
    <3>2. SumFunctionOnSet(g, CPUs) = SumFunctionOnSet(f, CPUs) + (IF c \in CPUs THEN g[c] - f[c] ELSE 0)
      BY <3>1, CPUsAssumption, SumChange
    <3>3. SumFunctionOnSet(f, CPUs) \in Nat
      BY <3>1, CPUsAssumption, SumRemove
    <3>4. QED
      BY <2>1, <2>2, <3>2, <3>3
  <2>5. Total' = Total + 1
    BY <1>5 DEF Stores
  <2>6. SumFunctionOnSet(counters'[0], CPUs) = Total'
    BY <1>2, <2>4, <2>5
  <2>7. QED
    BY <2>3, <2>6 DEF Exact
<1>6. QED
  BY <1>4, <1>5, TotalStep

\* "Intercepted" (main.bpf.c:59, main.go:156) is never more than the lines printed, the
\* events queued, those reported or noted as lost, those without a reader and those
\* about to be sent; where probes are not preempted it is exactly as many.
THEOREM InterceptedIsExplained == CaptureSpec => []InterceptedExplained
<1>1. CaptureInit => Below /\ OneEach /\ Exact
  <2> SUFFICES ASSUME CaptureInit
               PROVE  Below /\ OneEach /\ Exact
    OBVIOUS
  <2>1. /\ \A w \in Writes : stage[w] = "new"
        /\ counters[0] = [c \in CPUs |-> 0] /\ lost = [c \in CPUs |-> 0]
        /\ \A c \in CPUs : events[c] = <<>>
        /\ told = 0
    BY DEF CaptureInit
  <2>2. SumFunctionOnSet([c \in CPUs |-> 0], CPUs) = 0
    BY CPUsAssumption, SumZero
  <2>3. Cardinality(PastWrites) = 0
    <3>1. PastWrites = {}
      BY <2>1 DEF PastWrites, Past
    <3>2. QED
      BY <3>1, FS_EmptySet
  <2>4. Lost = 0
    BY <2>1, <2>2 DEF Lost, SumFunction
  <2>5. Noted = 0
    <3>1. \A c \in CPUs : DOMAIN Notes(events[c]) = {}
      BY <2>1 DEF Notes
    <3>2. \A c \in CPUs : SumFunction(Notes(events[c])) = 0
      BY <3>1, FS_EmptySet, SumUnfold DEF SumFunction
    <3> DEFINE f == [c \in CPUs |-> SumFunction(Notes(events[c]))]
    <3>3. DOMAIN f = CPUs /\ \A c \in CPUs : f[c] = 0
      BY <3>2
    <3>4. SumFunctionOnSet(f, CPUs) = 0
      <4> HIDE DEF f
      <4>1. QED
        BY <3>3, CPUsAssumption, SumZero
    <3>5. QED
      BY <3>3, <3>4 DEF Noted, SumFunction
  <2>6. Total = 0
    BY <2>1, <2>3, <2>4, <2>5 DEF Total
  <2>7. \A w \in Writes : ~Storing(w) /\ stage[w] \notin Running
    BY <2>1 DEF Storing, Running
  <2>8. Bounds([c \in CPUs |-> 0])
    BY <2>1, <2>2, <2>6, <2>7 DEF Bounds
  <2>9. QED
    BY <2>1, <2>2, <2>6, <2>7, <2>8 DEF Below, OneEach, Exact
<1>2. CaptureTypeOK /\ Below /\ Exact => InterceptedExplained
  <2> SUFFICES ASSUME CaptureTypeOK, Below, Exact
               PROVE  InterceptedExplained
    OBVIOUS
  <2>1. counters[0] \in [CPUs -> Nat]
    BY DEF CaptureTypeOK
  <2>2. Counted(0) = SumFunctionOnSet(counters[0], CPUs)
    BY <2>1 DEF Counted, SumFunction
  <2>3. AtStage({"output", "printed", "queued", "missed"}) = Cardinality(PastWrites)
    BY DEF AtStage, PastWrites, Past
  <2>4. PICK u \in [CPUs -> Nat] : Bounds(u)
    BY DEF Below
  <2>5. SumFunctionOnSet(counters[0], CPUs) <= SumFunctionOnSet(u, CPUs)
    <3>1. \A c \in CPUs : counters[0][c] \in Nat /\ u[c] \in Nat /\ counters[0][c] <= u[c]
      BY <2>1, <2>4 DEF Bounds
    <3>2. QED
      BY <3>1, CPUsAssumption, SumMonotone
  <2>6. /\ SumFunctionOnSet(counters[0], CPUs) \in Nat /\ SumFunctionOnSet(u, CPUs) \in Nat
        /\ Total \in Nat
    BY <2>1, CPUsAssumption, SumRemove, TotalTyped
  <2>7. SumFunctionOnSet(u, CPUs) <= Total
    BY <2>4 DEF Bounds
  <2>8. Counted(0) <= Total
    BY <2>2, <2>5, <2>6, <2>7
  <2>9. preemptible \/ Counted(0) = Total
    BY <2>2 DEF Exact
  <2>10. QED
    BY <2>3, <2>8, <2>9 DEF InterceptedExplained, Total
<1>3. CaptureTypeOK /\ Sent /\ [CaptureNext]_captureVars => CaptureTypeOK'
  BY CaptureTypeStep
<1>4. QED
  BY <1>1, <1>2, <1>3, BelowStep, OneEachStep, ExactStep, CaptureTyped, PTL DEF CaptureSpec

=============================================================================
