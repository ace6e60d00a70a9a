--------------------------- MODULE RingStreamProof ---------------------------
(***************************************************************************)
(* For any CPUs, goroutines, names and ring: every call is accounted for,  *)
(* the two totals printed together are explained, and the reserved records *)
(* come out as one ordered stream, each under the name it was opened by.   *)
(*                                                                         *)
(* The sums over the per-CPU cells are folds.  What is needed of them is   *)
(* proved here from the well-foundedness of strict inclusion: among the    *)
(* sets that would break a claim one is smallest.                          *)
(***************************************************************************)
EXTENDS RingStream, FiniteSetTheorems, SequenceTheorems, TLAPS

----------------------------------------------------------------------------
(* Sums.                                                                   *)

\* The element a fold takes out of a set first, and the function it iterates.
Pick(T) == CHOOSE x \in T : TRUE
Iterates(g, f, S) ==
  g = [T \in SUBSET S |-> IF T = {} THEN 0 ELSE f[Pick(T)] + g[T \ {Pick(T)}]]

\* Among sets of a finite set's elements there is one none of the others is part of.
LEMMA Smallest ==
  ASSUME NEW S, IsFiniteSet(S), NEW Bad, Bad \subseteq SUBSET S, Bad # {}
  PROVE  \E T \in Bad : \A U \in Bad : U \subseteq T => U = T
<1>1. Bad \subseteq FiniteSubsetsOf(S)
  BY FS_Subset DEF FiniteSubsetsOf
<1>2. PICK T \in Bad : \A U \in Bad : <<U, T>> \notin StrictSubsetOrdering(S)
  BY <1>1, FS_StrictSubsetOrderingWellFounded, WFMin
<1>3. QED
  BY <1>1, <1>2 DEF StrictSubsetOrdering

\* The iteration is the same function from whichever set it starts.
LEMMA IterateUnique ==
  ASSUME NEW f, NEW S, NEW T, IsFiniteSet(S), NEW g, NEW h,
         Iterates(g, f, S), Iterates(h, f, T)
  PROVE  \A U \in SUBSET S : U \subseteq T => g[U] = h[U]
<1> DEFINE Bad == {U \in SUBSET S : U \subseteq T /\ g[U] # h[U]}
<1>1. SUFFICES ASSUME Bad # {} PROVE FALSE
  OBVIOUS
<1>2. PICK U \in Bad : \A V \in Bad : V \subseteq U => V = U
  <2>1. Bad \subseteq SUBSET S
    OBVIOUS
  <2> HIDE DEF Bad
  <2>2. QED
    BY <1>1, <2>1, Smallest
<1>3. U # {}
  BY DEF Iterates
<1>4. Pick(U) \in U
  BY <1>3 DEF Pick
<1>5. g[U \ {Pick(U)}] = h[U \ {Pick(U)}]
  BY <1>2, <1>4
<1>6. g[U] = f[Pick(U)] + g[U \ {Pick(U)}] /\ h[U] = f[Pick(U)] + h[U \ {Pick(U)}]
  BY <1>3 DEF Iterates
<1>7. QED
  BY <1>5, <1>6

\* The iteration is a function.
LEMMA IterateExists ==
  ASSUME NEW f, NEW S, IsFiniteSet(S)
  PROVE  \E g : Iterates(g, f, S)
<1> DEFINE Bad == {U \in SUBSET S : ~\E g : Iterates(g, f, U)}
<1>1. SUFFICES ASSUME Bad # {} PROVE FALSE
  OBVIOUS
<1>2. PICK U \in Bad : \A V \in Bad : V \subseteq U => V = U
  <2>1. Bad \subseteq SUBSET S
    OBVIOUS
  <2> HIDE DEF Bad
  <2>2. QED
    BY <1>1, <2>1, Smallest
<1> DEFINE G(V) == CHOOSE g : Iterates(g, f, V)
           h == [V \in SUBSET U |-> IF V = {} THEN 0
                                    ELSE f[Pick(V)] + G(V \ {Pick(V)})[V \ {Pick(V)}]]
<1>3. ASSUME NEW V \in SUBSET U, V # U
      PROVE  Iterates(G(V), f, V)
  BY <1>2, <1>3
<1>4. ASSUME NEW V \in SUBSET U, V # U
      PROVE  h[V] = G(V)[V]
  <2>1. CASE V = {}
    <3>1. Iterates(G(V), f, V) /\ h[V] = 0
      BY <1>3, <1>4, <2>1
    <3> HIDE DEF G, h
    <3>2. G(V)[V] = 0
      BY <2>1, <3>1 DEF Iterates
    <3>3. QED
      BY <3>1, <3>2
  <2>2. CASE V # {}
    <3>1. Pick(V) \in V
      BY <2>2 DEF Pick
    <3>2. V \ {Pick(V)} \in SUBSET U /\ V \ {Pick(V)} # U /\ IsFiniteSet(V)
      BY <3>1, <1>4, FS_Subset
    <3>3. Iterates(G(V), f, V) /\ Iterates(G(V \ {Pick(V)}), f, V \ {Pick(V)})
      BY <3>2, <1>3, <1>4
    <3>4. G(V)[V \ {Pick(V)}] = G(V \ {Pick(V)})[V \ {Pick(V)}]
      BY <3>2, <3>3, IterateUnique
    <3>5. G(V)[V] = f[Pick(V)] + G(V)[V \ {Pick(V)}]
      BY <2>2, <3>3 DEF Iterates
    <3>6. QED
      BY <2>2, <3>4, <3>5
  <2>3. QED
    BY <2>1, <2>2
<1>5. ASSUME NEW V \in SUBSET U, V # {}
      PROVE  h[V] = f[Pick(V)] + h[V \ {Pick(V)}]
  <2>1. Pick(V) \in V
    BY <1>5 DEF Pick
  <2>2. h[V \ {Pick(V)}] = G(V \ {Pick(V)})[V \ {Pick(V)}]
    BY <2>1, <1>4
  <2>3. QED
    BY <2>2, <1>5
<1>6. h = [V \in SUBSET U |-> h[V]] /\ h[{}] = 0
  OBVIOUS
<1> HIDE DEF h
<1>7. Iterates(h, f, U)
  BY <1>5, <1>6 DEF Iterates
<1>8. QED
  BY <1>7

\* A sum is one of its values and the sum of the others.
LEMMA SumUnfold ==
  ASSUME NEW f, NEW S, IsFiniteSet(S)
  PROVE  SumFunctionOnSet(f, S) =
           IF S = {} THEN 0 ELSE f[Pick(S)] + SumFunctionOnSet(f, S \ {Pick(S)})
<1> DEFINE G(V) == CHOOSE g : Iterates(g, f, V)
<1>1. \A V : SumFunctionOnSet(f, V) = G(V)[V]
  BY DEF SumFunctionOnSet, FoldFunctionOnSet, MapThenFoldSet, Iterates, Pick
<1>2. IsFiniteSet(S \ {Pick(S)})
  BY FS_Subset
<1>3. Iterates(G(S), f, S) /\ Iterates(G(S \ {Pick(S)}), f, S \ {Pick(S)})
  BY <1>2, IterateExists
<1> HIDE DEF G
<1>4. CASE S = {}
  <2>1. G(S)[S] = 0
    BY <1>3, <1>4 DEF Iterates
  <2>2. QED
    BY <1>1, <1>4, <2>1
<1>5. CASE S # {}
  <2>1. G(S)[S] = f[Pick(S)] + G(S)[S \ {Pick(S)}]
    BY <1>3, <1>5 DEF Iterates
  <2>2. G(S)[S \ {Pick(S)}] = G(S \ {Pick(S)})[S \ {Pick(S)}]
    BY <1>3, IterateUnique
  <2>3. QED
    BY <1>1, <1>5, <2>1, <2>2
<1>6. QED
  BY <1>4, <1>5

\* A sum of naturals is one, and any of them can be taken out of it first.
LEMMA SumRemove ==
  ASSUME NEW S, IsFiniteSet(S), NEW f, \A x \in S : f[x] \in Nat
  PROVE  /\ SumFunctionOnSet(f, S) \in Nat
         /\ \A y \in S : SumFunctionOnSet(f, S) = f[y] + SumFunctionOnSet(f, S \ {y})
<1> DEFINE Sum(T) == SumFunctionOnSet(f, T)
           Good(T) == Sum(T) \in Nat /\ \A y \in T : Sum(T) = f[y] + Sum(T \ {y})
           Bad == {T \in SUBSET S : ~Good(T)}
<1>1. SUFFICES ASSUME Bad # {} PROVE FALSE
  OBVIOUS
<1>2. PICK T \in Bad : \A U \in Bad : U \subseteq T => U = T
  <2>1. Bad \subseteq SUBSET S
    OBVIOUS
  <2> HIDE DEF Bad
  <2>2. QED
    BY <1>1, <2>1, Smallest
<1> DEFINE p == Pick(T)
<1>3. \A U \in SUBSET S : Sum(U) = IF U = {} THEN 0 ELSE f[Pick(U)] + Sum(U \ {Pick(U)})
  BY SumUnfold, FS_Subset
<1>4. \A U \in SUBSET T : U # T => Good(U)
  BY <1>2
<1> HIDE DEF Sum
<1>5. CASE T = {}
  <2>1. Sum(T) = 0
    BY <1>3, <1>5
  <2>2. QED
    BY <1>5, <2>1
<1>6. CASE T # {}
  <2>1. p \in T
    BY <1>6 DEF Pick
  <2>2. Sum(T) = f[p] + Sum(T \ {p}) /\ Good(T \ {p})
    BY <1>3, <1>4, <1>6, <2>1
  <2>3. Sum(T) \in Nat
    BY <2>1, <2>2
  <2>4. ASSUME NEW y \in T, y # p
        PROVE  Sum(T) = f[y] + Sum(T \ {y})
    <3>1. Sum(T \ {p}) = f[y] + Sum((T \ {p}) \ {y})
      BY <2>2, <2>4
    <3>2. Good(T \ {y}) /\ p \in T \ {y}
      BY <1>4, <2>1, <2>4
    <3>3. Sum(T \ {y}) = f[p] + Sum((T \ {y}) \ {p})
      BY <3>2
    <3>4. (T \ {p}) \ {y} = (T \ {y}) \ {p}
      OBVIOUS
    <3>5. Good((T \ {y}) \ {p})
      BY <1>4, <2>1
    <3>6. f[p] \in Nat /\ f[y] \in Nat
      BY <2>1
    <3>7. QED
      BY <2>2, <3>1, <3>3, <3>4, <3>5, <3>6
  <2>5. QED
    BY <1>2, <2>2, <2>3, <2>4
<1>7. QED
  BY <1>5, <1>6

\* A sum depends on the summed values only.
LEMMA SumAgree ==
  ASSUME NEW S, IsFiniteSet(S), NEW f, NEW g, \A x \in S : f[x] = g[x]
  PROVE  SumFunctionOnSet(f, S) = SumFunctionOnSet(g, S)
<1> DEFINE Bad == {T \in SUBSET S : SumFunctionOnSet(f, T) # SumFunctionOnSet(g, T)}
<1>1. SUFFICES ASSUME Bad # {} PROVE FALSE
  OBVIOUS
<1>2. PICK T \in Bad : \A U \in Bad : U \subseteq T => U = T
  <2>1. Bad \subseteq SUBSET S
    OBVIOUS
  <2> HIDE DEF Bad
  <2>2. QED
    BY <1>1, <2>1, Smallest
<1>3. IsFiniteSet(T)
  BY FS_Subset
<1>4. T # {}
  BY <1>3, SumUnfold
<1>5. Pick(T) \in T
  BY <1>4 DEF Pick
<1>6. SumFunctionOnSet(f, T \ {Pick(T)}) = SumFunctionOnSet(g, T \ {Pick(T)})
  BY <1>2, <1>5
<1>7. QED
  BY <1>3, <1>4, <1>5, <1>6, SumUnfold

\* Changing one of the summed values changes the sum as much.
LEMMA SumChange ==
  ASSUME NEW S, IsFiniteSet(S), NEW f, NEW g, NEW y,
         \A x \in S : f[x] \in Nat /\ g[x] \in Nat /\ (x # y => g[x] = f[x])
  PROVE  SumFunctionOnSet(g, S) = SumFunctionOnSet(f, S) + (IF y \in S THEN g[y] - f[y] ELSE 0)
<1>1. CASE y \in S
  <2>1. IsFiniteSet(S \ {y})
    BY FS_Subset
  <2>2. SumFunctionOnSet(f, S) = f[y] + SumFunctionOnSet(f, S \ {y})
    BY <1>1, SumRemove
  <2>3. SumFunctionOnSet(g, S) = g[y] + SumFunctionOnSet(g, S \ {y})
    BY <1>1, SumRemove
  <2>4. SumFunctionOnSet(g, S \ {y}) = SumFunctionOnSet(f, S \ {y})
    BY <2>1, SumAgree
  <2>5. SumFunctionOnSet(f, S \ {y}) \in Nat /\ f[y] \in Nat /\ g[y] \in Nat
    BY <1>1, <2>1, SumRemove
  <2>6. QED
    BY <1>1, <2>2, <2>3, <2>4, <2>5
<1>2. CASE y \notin S
  <2>1. SumFunctionOnSet(g, S) = SumFunctionOnSet(f, S)
    BY <1>2, SumAgree
  <2>2. SumFunctionOnSet(f, S) \in Nat
    BY SumRemove
  <2>3. QED
    BY <1>2, <2>1, <2>2
<1>3. QED
  BY <1>1, <1>2

\* A sum of zeros is zero.
LEMMA SumZero ==
  ASSUME NEW S, IsFiniteSet(S), NEW f, \A x \in S : f[x] = 0
  PROVE  SumFunctionOnSet(f, S) = 0
<1> DEFINE Bad == {T \in SUBSET S : SumFunctionOnSet(f, T) # 0}
<1>1. SUFFICES ASSUME Bad # {} PROVE FALSE
  OBVIOUS
<1>2. PICK T \in Bad : \A U \in Bad : U \subseteq T => U = T
  <2>1. Bad \subseteq SUBSET S
    OBVIOUS
  <2> HIDE DEF Bad
  <2>2. QED
    BY <1>1, <2>1, Smallest
<1>3. IsFiniteSet(T)
  BY FS_Subset
<1>4. T # {}
  BY <1>3, SumUnfold
<1>5. Pick(T) \in T
  BY <1>4 DEF Pick
<1>6. SumFunctionOnSet(f, T \ {Pick(T)}) = 0
  BY <1>2, <1>5
<1>7. QED
  BY <1>3, <1>4, <1>5, <1>6, SumUnfold

----------------------------------------------------------------------------
(* Numbers and slots.                                                      *)

\* A set of naturals has a least element.
LEMMA Least ==
  ASSUME NEW S \in SUBSET Nat, S # {}
  PROVE  Min(S) \in S /\ \A x \in S : Min(S) <= x
<1> DEFINE Less == {ss \in Nat \X Nat : ss[1] < ss[2]}
<1>1. IsWellFoundedOn(Less, Nat)
  BY NatLessThanWellFounded DEF OpToRel
<1> HIDE DEF Less
<1>2. PICK m \in S : \A x \in S : <<x, m>> \notin Less
  BY <1>1, WFMin
<1>4. \A x \in S : m <= x
  <2>1. SUFFICES ASSUME NEW x \in S, ~(m <= x) PROVE FALSE
    OBVIOUS
  <2>2. x \in Nat /\ m \in Nat /\ x < m
    BY <2>1
  <2>3. <<x, m>> \in Less
    BY <2>2 DEF Less
  <2>4. QED
    BY <1>2, <2>3
<1>3. QED
  BY <1>4 DEF Min

\* A bounded set of naturals has a greatest element.
LEMMA Greatest ==
  ASSUME NEW n \in Nat, NEW S \in SUBSET (0 .. n), S # {}
  PROVE  Max(S) \in S /\ \A x \in S : x <= Max(S)
<1> DEFINE R == {n - x : x \in S}
<1>1. R \in SUBSET Nat /\ R # {}
  <2>1. \A x \in S : x \in 0 .. n /\ n - x \in Nat
    OBVIOUS
  <2>2. QED
    BY <2>1
<1>2. Min(R) \in R /\ \A y \in R : Min(R) <= y
  <2> HIDE DEF R
  <2>1. QED
    BY <1>1, Least
<1>3. PICK m \in S : Min(R) = n - m
  BY <1>2
<1>4. \A x \in S : n - m <= n - x
  BY <1>2, <1>3
<1>5. \A x \in S : x <= m
  BY <1>4
<1>6. QED
  BY <1>5 DEF Max

\* Two positions of the ring's window lie in different slots.
LEMMA DistinctSlots ==
  ASSUME NEW a \in Nat, NEW b \in Nat, a < b, b < a + Slots
  PROVE  a % Slots # b % Slots
<1>1. Slots \in Nat \ {0}
  BY SizeAssumption
<1> DEFINE p == a \div Slots
           q == b \div Slots
<1>2. p \in Nat /\ q \in Nat /\ a = Slots * p + (a % Slots) /\ b = Slots * q + (b % Slots)
  BY <1>1
<1>3. SUFFICES ASSUME a % Slots = b % Slots PROVE FALSE
  OBVIOUS
<1> HIDE DEF p, q
<1>4. b - a = Slots * (q - p)
  BY <1>1, <1>2, <1>3
<1>5. q - p \in Int /\ (q - p >= 1 \/ q - p <= 0)
  BY <1>2
<1>6. q - p >= 1 => Slots * (q - p) >= Slots
  BY <1>1, <1>5
<1>7. q - p <= 0 => Slots * (q - p) <= 0
  BY <1>1, <1>5
<1>8. QED
  BY <1>1, <1>4, <1>5, <1>6, <1>7

\* A position's slot is one of the ring's.
LEMMA SlotRange ==
  ASSUME NEW a \in Nat
  PROVE  a % Slots \in 0 .. Slots - 1
BY SizeAssumption

----------------------------------------------------------------------------
(* Paths.                                                                  *)

\* The text of bytes whose first NUL is known.
LEMMA TextUpTo ==
  ASSUME NEW s \in Seq(Chars \cup {NUL}), NEW k \in 1 .. Len(s) + 1,
         \A i \in 1 .. k - 1 : s[i] # NUL, k <= Len(s) => s[k] = NUL
  PROVE  CString(s) = SubSeq(s, 1, k - 1)
<1> DEFINE N == {i \in DOMAIN s : s[i] = NUL} \cup {Len(s) + 1}
<1>1. Len(s) \in Nat /\ DOMAIN s = 1 .. Len(s)
  BY LenProperties
<1>2. N \in SUBSET Nat /\ k \in N /\ \A i \in N : k <= i
  BY <1>1
<1> HIDE DEF N
<1>3. Min(N) = k
  <2>1. Min(N) \in N /\ \A x \in N : Min(N) <= x
    BY <1>2, Least
  <2>2. Min(N) <= k /\ k <= Min(N)
    BY <1>2, <2>1
  <2>3. Min(N) \in Nat /\ k \in Nat
    BY <1>1, <1>2, <2>1
  <2>4. QED
    BY <2>2, <2>3
<1>4. QED
  BY <1>3 DEF CString, N

\* Every string of bytes has such a position.
LEMMA FirstNul ==
  ASSUME NEW s \in Seq(Chars \cup {NUL})
  PROVE  \E k \in 1 .. Len(s) + 1 :
           (\A i \in 1 .. k - 1 : s[i] # NUL) /\ (k <= Len(s) => s[k] = NUL)
<1> DEFINE N == {i \in DOMAIN s : s[i] = NUL} \cup {Len(s) + 1}
<1>1. Len(s) \in Nat /\ DOMAIN s = 1 .. Len(s)
  BY LenProperties
<1>2. N \in SUBSET Nat /\ N # {} /\ N \subseteq 1 .. Len(s) + 1
  BY <1>1
<1>3. Min(N) \in N /\ \A x \in N : Min(N) <= x
  <2> HIDE DEF N
  <2>1. QED
    BY <1>2, Least
<1> DEFINE k == Min(N)
<1>4. k \in 1 .. Len(s) + 1
  BY <1>2, <1>3
<1>5. \A i \in 1 .. k - 1 : s[i] # NUL
  <2>1. SUFFICES ASSUME NEW i \in 1 .. k - 1, s[i] = NUL PROVE FALSE
    OBVIOUS
  <2>2. i \in N
    BY <1>1, <1>4, <2>1
  <2> HIDE DEF N
  <2>3. QED
    BY <1>3, <1>4, <2>2
<1>6. k <= Len(s) => s[k] = NUL
  <2>1. \A x \in N : x <= Len(s) => s[x] = NUL
    BY <1>1
  <2> HIDE DEF N
  <2>2. QED
    BY <1>3, <2>1
<1>7. QED
  BY <1>4, <1>5, <1>6

\* The bytes of a path are a sequence of the field's size.
LEMMA PathLength ==
  ASSUME NEW s \in Paths
  PROVE  s \in Seq(Chars \cup {NUL}) /\ Len(s) = PathSize /\ DOMAIN s = 1 .. PathSize
<1>1. PathSize \in Nat
  BY SizeAssumption
<1>2. s \in [1 .. PathSize -> Chars \cup {NUL}]
  BY DEF Paths
<1>3. s \in Seq(Chars \cup {NUL})
  BY <1>1, <1>2, SeqDef
<1>4. QED
  BY <1>1, <1>2, <1>3, LenProperties

\* Dropping the NULs at the end does not change the text before the first.
LEMMA TrimmedText ==
  ASSUME NEW s \in Paths
  PROVE  /\ TrimRight(s) \in Seq(Chars \cup {NUL})
         /\ CString(TrimRight(s)) = CString(s)
<1> DEFINE X == {i \in DOMAIN s : s[i] # NUL} \cup {0}
           m == Max(X)
           t == TrimRight(s)
<1>1. /\ s \in Seq(Chars \cup {NUL}) /\ Len(s) = PathSize
      /\ DOMAIN s = 1 .. PathSize /\ PathSize \in Nat
  BY PathLength, SizeAssumption
<1>2. m \in X /\ \A x \in X : x <= m
  <2>1. X \in SUBSET (0 .. PathSize) /\ X # {}
    BY <1>1
  <2> HIDE DEF X
  <2>2. QED
    BY <1>1, <2>1, Greatest
<1>3. m \in 0 .. PathSize
  BY <1>1, <1>2
<1>4. \A i \in m + 1 .. PathSize : s[i] = NUL
  <2>1. SUFFICES ASSUME NEW i \in m + 1 .. PathSize, s[i] # NUL PROVE FALSE
    OBVIOUS
  <2>2. i \in X
    BY <1>1, <1>3, <2>1
  <2> HIDE DEF X
  <2>3. QED
    BY <1>2, <1>3, <2>2
<1>5. m >= 1 => s[m] # NUL
  <2>1. \A x \in X : x >= 1 => s[x] # NUL
    OBVIOUS
  <2> HIDE DEF X
  <2>2. QED
    BY <1>2, <2>1
<1>6. t = SubSeq(s, 1, m)
  BY DEF TrimRight
<1> HIDE DEF m, t
<1>7. t \in Seq(Chars \cup {NUL}) /\ Len(t) = m /\ \A i \in 1 .. m : t[i] = s[i]
  BY <1>1, <1>3, <1>6, SubSeqProperties, ElementOfSeq
<1>8. PICK k \in 1 .. Len(s) + 1 :
        (\A i \in 1 .. k - 1 : s[i] # NUL) /\ (k <= Len(s) => s[k] = NUL)
  BY <1>1, FirstNul
<1>9. k - 1 <= m
  BY <1>1, <1>3, <1>4, <1>8
<1>10. CString(t) = SubSeq(t, 1, k - 1)
  <2>1. k \in 1 .. Len(t) + 1
    BY <1>3, <1>7, <1>9
  <2>2. \A i \in 1 .. k - 1 : t[i] # NUL
    BY <1>3, <1>7, <1>8, <1>9
  <2>3. k <= Len(t) => t[k] = NUL
    BY <1>1, <1>3, <1>7, <1>8
  <2>4. QED
    BY <1>7, <2>1, <2>2, <2>3, TextUpTo
<1>11. CString(s) = SubSeq(s, 1, k - 1)
  BY <1>1, <1>8, TextUpTo
<1>12. SubSeq(t, 1, k - 1) = SubSeq(s, 1, k - 1)
  <2> DEFINE u == SubSeq(t, 1, k - 1)
             v == SubSeq(s, 1, k - 1)
  <2>1. /\ u \in Seq(Chars \cup {NUL}) /\ Len(u) = k - 1
        /\ \A i \in 1 .. k - 1 : u[i] = t[i]
    BY <1>1, <1>3, <1>7, <1>9, SubSeqProperties, ElementOfSeq
  <2>2. /\ v \in Seq(Chars \cup {NUL}) /\ Len(v) = k - 1
        /\ \A i \in 1 .. k - 1 : v[i] = s[i]
    BY <1>1, SubSeqProperties, ElementOfSeq
  <2>3. \A i \in 1 .. k - 1 : u[i] = v[i]
    BY <1>3, <1>7, <1>9, <2>1, <2>2
  <2> HIDE DEF u, v
  <2>4. u = v
    BY <1>1, <2>1, <2>2, <2>3, SeqEqual
  <2>5. QED
    BY <2>4 DEF u, v
<1>13. QED
  BY <1>7, <1>10, <1>11, <1>12 DEF t

\* What of a name fits is a text of the paths' characters that leaves room for a NUL.
LEMMA FittingText ==
  ASSUME NEW n \in Names \cup {NULL}
  PROVE  /\ Fitting(n) \in Seq(Chars)
         /\ Len(Fitting(n)) <= PathSize - 1
         /\ \A i \in 1 .. Len(Fitting(n)) : Fitting(n)[i] \in Chars /\ Fitting(n)[i] # NUL
<1>1. PathSize \in Nat \ {0}
  BY SizeAssumption
<1>2. CASE n = NULL
  <2>1. Fitting(n) = <<>>
    BY <1>2 DEF Fitting
  <2>2. <<>> \in Seq(Chars) /\ Len(<<>>) = 0
    BY EmptySeq
  <2>3. QED
    BY <1>1, <2>1, <2>2
<1>3. CASE n # NULL
  <2>1. n \in Names /\ n \in Seq(Range(n)) /\ NUL \notin Range(n)
    BY <1>3, NameAssumption
  <2>2. Len(n) \in Nat /\ \A i \in 1 .. Len(n) : n[i] \in Range(n) /\ n[i] # NUL /\ n[i] \in Chars
    BY <2>1, LenProperties, ElementOfSeq DEF Chars
  <2> DEFINE M == {Len(n), PathSize - 1}
             k == Min(M)
  <2>3. M \in SUBSET Nat /\ M # {}
    BY <1>1, <2>2
  <2>4. k \in M /\ \A x \in M : k <= x
    <3> HIDE DEF M
    <3>1. QED
      BY <2>3, Least
  <2>5. k \in Nat /\ k <= Len(n) /\ k <= PathSize - 1
    BY <2>3, <2>4
  <2>6. Fitting(n) = SubSeq(n, 1, k)
    BY <1>3 DEF Fitting
  <2> HIDE DEF k
  <2>7. \A i \in 1 .. k : n[i] \in Chars /\ n[i] # NUL
    BY <2>2, <2>5
  <2>8. /\ SubSeq(n, 1, k) \in Seq(Chars) /\ Len(SubSeq(n, 1, k)) = k
        /\ \A i \in 1 .. k : SubSeq(n, 1, k)[i] = n[i]
    BY <2>5, <2>7, SubSeqProperties
  <2>9. QED
    BY <2>5, <2>6, <2>7, <2>8
<1>4. QED
  BY <1>2, <1>3

\* The copy of a name into a slot that held anything reads back as the name.
LEMMA CopiedText ==
  ASSUME NEW old \in Paths, NEW n \in Names \cup {NULL}
  PROVE  Copied(old, n) \in Paths /\ CString(Copied(old, n)) = Fitting(n)
<1> DEFINE s == Copied(old, n)
           name == Fitting(n)
<1>1. PathSize \in Nat \ {0}
  BY SizeAssumption
<1>2. CASE n = NULL
  <2>1. s = [i \in 1 .. PathSize |-> NUL]
    BY <1>2 DEF Copied, Blank
  <2>2. s \in Paths
    BY <2>1 DEF Paths
  <2> HIDE DEF s
  <2>3. s \in Seq(Chars \cup {NUL}) /\ Len(s) = PathSize
    BY <2>2, PathLength
  <2>4. CString(s) = SubSeq(s, 1, 1 - 1)
    <3>1. 1 \in 1 .. Len(s) + 1 /\ s[1] = NUL /\ \A i \in 1 .. 1 - 1 : s[i] # NUL
      BY <1>1, <2>1, <2>3
    <3>2. QED
      BY <2>3, <3>1, TextUpTo
  <2>5. SubSeq(s, 1, 1 - 1) = <<>>
    BY SubSeqEmpty
  <2>6. QED
    BY <1>2, <2>2, <2>4, <2>5 DEF Fitting, s
<1>3. CASE n # NULL
  <2>1. s = [i \in 1 .. PathSize |-> IF i <= Len(name) THEN name[i]
                                     ELSE IF i = Len(name) + 1 THEN NUL ELSE old[i]]
    BY <1>3 DEF Copied
  <2>2. /\ name \in Seq(Chars) /\ Len(name) \in Nat /\ Len(name) <= PathSize - 1
        /\ \A i \in 1 .. Len(name) : name[i] \in Chars /\ name[i] # NUL
    BY FittingText, LenProperties
  <2> DEFINE k == Len(name) + 1
  <2> HIDE DEF s, name
  <2>3. \A i \in 1 .. PathSize : old[i] \in Chars \cup {NUL}
    BY DEF Paths
  <2>4. s \in Paths
    <3>1. \A i \in 1 .. PathSize : s[i] \in Chars \cup {NUL}
      BY <1>1, <2>1, <2>2, <2>3
    <3>2. QED
      BY <2>1, <3>1 DEF Paths
  <2>5. s \in Seq(Chars \cup {NUL}) /\ Len(s) = PathSize
    BY <2>4, PathLength
  <2>6. k \in 1 .. Len(s) /\ s[k] = NUL /\ \A i \in 1 .. k - 1 : s[i] = name[i]
    BY <1>1, <2>1, <2>2, <2>5
  <2>7. CString(s) = SubSeq(s, 1, k - 1)
    <3>1. \A i \in 1 .. k - 1 : s[i] # NUL
      BY <2>2, <2>6
    <3>2. k \in 1 .. Len(s) + 1
      BY <1>1, <2>5, <2>6
    <3> HIDE DEF k
    <3>3. QED
      BY <2>5, <2>6, <3>1, <3>2, TextUpTo
  <2>8. SubSeq(s, 1, k - 1) = name
    <3> DEFINE u == SubSeq(s, 1, k - 1)
    <3>1. \A i \in 1 .. k - 1 : s[i] \in Chars
      BY <2>2, <2>6
    <3>2. k - 1 = Len(name) /\ k - 1 \in Nat
      BY <2>2
    <3>3. u \in Seq(Chars) /\ Len(u) = k - 1 /\ \A i \in 1 .. k - 1 : u[i] = s[i]
      <4> HIDE DEF k
      <4>1. QED
        BY <3>1, <3>2, SubSeqProperties
    <3> HIDE DEF u, k
    <3>4. u = name
      BY <2>2, <2>6, <3>2, <3>3, SeqEqual
    <3>5. QED
      BY <3>4 DEF u
  <2>9. QED
    BY <2>4, <2>7, <2>8 DEF s, name
<1>4. QED
  BY <1>2, <1>3

----------------------------------------------------------------------------
(* What is left of a sequence.                                             *)

\* The rest of a sequence after its first ones, appended to and taken from.
LEMMA LeftAppended ==
  ASSUME NEW S, NEW s \in Seq(S), NEW e \in S, NEW m \in Nat, m <= Len(s)
  PROVE  /\ SubSeq(Append(s, e), m + 1, Len(Append(s, e))) = Append(SubSeq(s, m + 1, Len(s)), e)
         /\ Len(SubSeq(s, m + 1, Len(s))) = Len(s) - m
<1> DEFINE t == Append(s, e)
           u == SubSeq(s, m + 1, Len(s))
           v == SubSeq(t, m + 1, Len(t))
<1>1. Len(s) \in Nat /\ \A i \in 1 .. Len(s) : s[i] \in S
  BY LenProperties, ElementOfSeq
<1>2. /\ t \in Seq(S) /\ Len(t) = Len(s) + 1 /\ t[Len(s) + 1] = e
      /\ \A i \in 1 .. Len(s) : t[i] = s[i]
  BY AppendProperties
<1> HIDE DEF t
<1>3. /\ u \in Seq(S) /\ Len(u) = Len(s) - m
      /\ \A i \in 1 .. Len(s) - m : u[i] = s[m + i]
  <2>1. \A i \in m + 1 .. Len(s) : s[i] \in S
    BY <1>1
  <2>2. /\ u \in Seq(S) /\ Len(u) = IF m + 1 <= Len(s) THEN Len(s) - (m + 1) + 1 ELSE 0
        /\ \A i \in 1 .. Len(s) - (m + 1) + 1 : u[i] = s[(m + 1) + i - 1]
    BY <1>1, <2>1, SubSeqProperties
  <2> HIDE DEF u
  <2>3. QED
    BY <1>1, <2>2
<1>4. /\ v \in Seq(S) /\ Len(v) = Len(s) + 1 - m
      /\ \A i \in 1 .. Len(s) + 1 - m : v[i] = t[m + i]
  <2>1. \A i \in m + 1 .. Len(t) : t[i] \in S
    BY <1>1, <1>2
  <2>2. /\ v \in Seq(S) /\ Len(v) = IF m + 1 <= Len(t) THEN Len(t) - (m + 1) + 1 ELSE 0
        /\ \A i \in 1 .. Len(t) - (m + 1) + 1 : v[i] = t[(m + 1) + i - 1]
    BY <1>1, <1>2, <2>1, SubSeqProperties
  <2> HIDE DEF v
  <2>3. QED
    BY <1>1, <1>2, <2>2
<1> HIDE DEF u, v
<1>5. /\ Append(u, e) \in Seq(S) /\ Len(Append(u, e)) = Len(u) + 1 /\ Append(u, e)[Len(u) + 1] = e
      /\ \A i \in 1 .. Len(u) : Append(u, e)[i] = u[i]
  BY <1>3, AppendProperties
<1>6. \A i \in 1 .. Len(s) + 1 - m : v[i] = Append(u, e)[i]
  <2>1. SUFFICES ASSUME NEW i \in 1 .. Len(s) + 1 - m PROVE v[i] = Append(u, e)[i]
    OBVIOUS
  <2>2. CASE i = Len(s) + 1 - m
    <3>1. v[i] = t[Len(s) + 1] /\ i = Len(u) + 1
      BY <1>1, <1>3, <1>4, <2>2
    <3>2. QED
      BY <1>2, <1>5, <3>1
  <2>3. CASE i # Len(s) + 1 - m
    <3>1. i \in 1 .. Len(u) /\ m + i \in 1 .. Len(s)
      <4>1. i \in Nat /\ 1 <= i /\ i <= Len(s) - m
        BY <1>1, <2>3
      <4>2. QED
        BY <1>1, <1>3, <4>1
    <3>2. v[i] = t[m + i] /\ t[m + i] = s[m + i] /\ u[i] = s[m + i]
      BY <1>2, <1>3, <1>4, <3>1
    <3>3. QED
      BY <1>5, <3>1, <3>2
  <2>4. QED
    BY <2>2, <2>3
<1>7. v = Append(u, e)
  <2>1. Len(v) = Len(Append(u, e)) /\ \A i \in 1 .. Len(v) : v[i] = Append(u, e)[i]
    BY <1>1, <1>3, <1>4, <1>5, <1>6
  <2>2. QED
    BY <1>4, <1>5, <2>1, SeqEqual
<1>8. QED
  BY <1>3, <1>7 DEF t, u, v

\* The rest of a sequence begins with the next element.
LEMMA LeftHead ==
  ASSUME NEW S, NEW s \in Seq(S), NEW m \in Nat, m + 1 <= Len(s)
  PROVE  /\ SubSeq(s, m + 1, Len(s)) # <<>>
         /\ Head(SubSeq(s, m + 1, Len(s))) = s[m + 1]
         /\ Tail(SubSeq(s, m + 1, Len(s))) = SubSeq(s, m + 2, Len(s))
<1>1. Len(s) \in Nat /\ m + 1 \in 1 .. Len(s) /\ Len(s) \in m + 1 .. Len(s) /\ (m + 1) + 1 = m + 2
  BY LenProperties
<1>2. Len(SubSeq(s, m + 1, Len(s))) # 0
  <2>1. \A i \in m + 1 .. Len(s) : s[i] \in S
    BY <1>1, ElementOfSeq
  <2>2. QED
    BY <1>1, <2>1, SubSeqProperties
<1>3. QED
  BY <1>1, <1>2, HeadTailOfSubSeq, EmptySeq

----------------------------------------------------------------------------
(* Types.                                                                  *)

\* The sums over the cells are naturals.
LEMMA TotalType ==
  ASSUME drop_count \in [CPUs -> Nat]
  PROVE  /\ Total \in Nat
         /\ \A S \in SUBSET CPUs : SumFunctionOnSet(drop_count, S) \in Nat
<1>1. DOMAIN drop_count = CPUs /\ \A c \in CPUs : drop_count[c] \in Nat
  OBVIOUS
<1>2. \A S \in SUBSET CPUs : SumFunctionOnSet(drop_count, S) \in Nat
  BY <1>1, CPUAssumption, FS_Subset, SumRemove
<1>3. QED
  BY <1>1, <1>2 DEF Total, SumFunction

\* Types at the start (main.go:36-60).
LEMMA TypeInit == Init => TypeOK
<1> SUFFICES ASSUME Init PROVE TypeOK
  OBVIOUS
<1> USE DEF Init
<1>1. Blank \in Paths
  BY DEF Blank, Paths
<1>2. busy \in [0 .. Slots - 1 -> BOOLEAN] /\ path \in [0 .. Slots - 1 -> Paths] /\ rec \in Paths
  BY <1>1
<1>3. Waiting \in 0 .. Slots
  BY SizeAssumption DEF Waiting
<1>4. opened \in Seq(Seq(Chars)) /\ lastShown \in Seq(Chars \cup {NUL})
  BY EmptySeq
<1>5. QED
  BY <1>2, <1>3, <1>4 DEF TypeOK

\* Types after every step.
LEMMA TypeStep == TypeOK /\ [Next]_vars => TypeOK'
<1> SUFFICES ASSUME TypeOK, [Next]_vars PROVE TypeOK'
  OBVIOUS
<1> USE DEF TypeOK, program, ring, reading, stats, Waiting
<1>1. Slots \in Nat \ {0} /\ Total \in Nat
  BY SizeAssumption, TotalType
<1>2. ASSUME NEW c \in CPUs, NEW n \in Names \cup {NULL}, Enter(c, n)
      PROVE  TypeOK'
  BY <1>2 DEF Enter
<1>3. ASSUME NEW c \in CPUs, Reserve(c)
      PROVE  TypeOK'
  <2> USE <1>3 DEF Reserve
  <2>1. opened' \in Seq(Seq(Chars))
    BY FittingText, AppendProperties
  <2>2. busy' \in [0 .. Slots - 1 -> BOOLEAN] /\ mine' \in [CPUs -> Nat \cup {NULL}]
    OBVIOUS
  <2>3. produced' \in Nat /\ Waiting' \in 0 .. Slots
    BY <1>1
  <2>4. QED
    BY <2>1, <2>2, <2>3
<1>4. ASSUME NEW c \in CPUs, ReserveFails(c)
      PROVE  TypeOK'
  BY <1>4 DEF ReserveFails
<1>5. ASSUME NEW c \in CPUs, Drop(c)
      PROVE  TypeOK'
  BY <1>5 DEF Drop, Return
<1>6. ASSUME NEW c \in CPUs, Fill(c)
      PROVE  TypeOK'
  <2> USE <1>6 DEF Fill
  <2>1. path' \in [0 .. Slots - 1 -> Paths]
    <3>1. \A s \in 0 .. Slots - 1 : Copied(path[s], fname[c]) \in Paths
      BY CopiedText
    <3>2. \A s \in 0 .. Slots - 1 : path'[s] \in Paths
      BY <3>1
    <3>3. QED
      BY <3>2
  <2>2. QED
    BY <2>1
<1>7. ASSUME NEW c \in CPUs, Submit(c)
      PROVE  TypeOK'
  <2> USE <1>7 DEF Submit, Return
  <2>1. busy' \in [0 .. Slots - 1 -> BOOLEAN] /\ fname' \in [CPUs -> Names \cup {NULL}]
    OBVIOUS
  <2>2. /\ mine' \in [CPUs -> Nat \cup {NULL}]
        /\ pc' \in [CPUs -> {"idle", "reserve", "drop", "fill", "submit"}]
    OBVIOUS
  <2>3. QED
    BY <2>1, <2>2
<1>8. ASSUME Wait \/ Drained \/ Count
      PROVE  TypeOK'
  BY <1>8 DEF Wait, Drained, Count
<1>9. ASSUME Take
      PROVE  TypeOK'
  <2>1. consumed % Slots \in 0 .. Slots - 1
    BY SlotRange
  <2>2. QED
    BY <1>1, <1>9, <2>1 DEF Take
<1>10. ASSUME PrintEvent
       PROVE  TypeOK'
  <2>1. lastShown' \in Seq(Chars \cup {NUL})
    BY <1>10, TrimmedText DEF PrintEvent
  <2>2. QED
    BY <1>10, <2>1 DEF PrintEvent
<1>11. ASSUME NEW p \in Printers, Call(p)
       PROVE  /\ printer' \in [Printers -> {"idle", "drops"}]
              /\ rx' \in [Printers -> Nat]
              /\ unread' \in [Printers -> SUBSET CPUs]
              /\ drops' \in [Printers -> Nat]
              /\ since' \in [Printers -> Nat]
  BY <1>1, <1>11 DEF Call
<1>12. ASSUME NEW p \in Printers, Stats(p)
       PROVE  TypeOK'
  BY <1>11, <1>12 DEF Stats
<1>13. ASSUME NEW p \in Printers, PrintStats(p)
       PROVE  TypeOK'
  BY <1>13 DEF PrintStats
<1>14. ASSUME NEW p \in Printers, NEW c \in CPUs, AddDrops(p, c)
       PROVE  TypeOK'
  BY <1>14 DEF AddDrops
<1>15. ASSUME Signal
       PROVE  TypeOK'
  BY <1>11, <1>15, PrinterAssumption DEF Signal
<1>16. ASSUME CloseReader \/ Detach \/ Exit
       PROVE  TypeOK'
  BY <1>16 DEF CloseReader, Detach, Exit
<1>17. CASE UNCHANGED vars
  BY <1>17 DEF vars
<1>18. QED
  BY <1>2, <1>3, <1>4, <1>5, <1>6, <1>7, <1>8, <1>9, <1>10, <1>12, <1>13, <1>14,
     <1>15, <1>16, <1>17 DEF Next, Program, Reader

\* Every counter, cell, position and path keeps its type (main.bpf.c, main.go).
THEOREM TypeCorrect == Spec => []TypeOK
BY TypeInit, TypeStep, PTL DEF Spec

----------------------------------------------------------------------------
(* What holds between the steps.                                           *)

Holding(c) == pc[c] \in {"fill", "submit"}

\* Every call that has a record has one of the ring's window, busy, and its own.
RecordsHeld ==
  /\ \A c \in CPUs :
       Holding(c) => mine[c] \in consumed .. produced - 1 /\ busy[mine[c] % Slots]
  /\ \A c, d \in CPUs : c # d /\ Holding(c) /\ Holding(d) => mine[c] # mine[d]

\* A record that is ready to be read, or whose call has copied its name, holds the
\* name opened by the reservation of its position.
NamesKept ==
  /\ Len(opened) = produced
  /\ \A c \in CPUs : pc[c] = "fill" => opened[mine[c] + 1] = Fitting(fname[c])
  /\ \A c \in CPUs :
       pc[c] = "submit" => CString(path[mine[c] % Slots]) = opened[mine[c] + 1]
  /\ \A q \in consumed .. produced - 1 :
       ~busy[q % Slots] => CString(path[q % Slots]) = opened[q + 1]

\* The reader has counted what it has consumed, but for the record it is about to
\* count, and what it is about to print is the last it consumed.
ReaderKept ==
  /\ consumed = received + (IF reader = "count" THEN 1 ELSE 0)
  /\ reader = "print" => received >= 1
  /\ reader \in {"count", "print"} => CString(rec) = opened[consumed]

\* What printStats has added and what it still has to add lie between the drops of
\* its call and those of now.
StatsBounded ==
  \A p \in Printers : printer[p] = "drops" =>
    /\ rx[p] <= received
    /\ since[p] <= rx[p] + drops[p] + SumFunctionOnSet(drop_count, unread[p])
    /\ drops[p] + SumFunctionOnSet(drop_count, unread[p]) <= Total

\* Two positions of the window have slots of their own, and while the ring is not
\* full so has the next one.
LEMMA Apart ==
  ASSUME TypeOK, NEW a \in consumed .. produced - 1
  PROVE  /\ a \in Nat /\ a % Slots \in 0 .. Slots - 1
         /\ \A b \in consumed .. produced - 1 : a # b => a % Slots # b % Slots
         /\ Waiting < Slots => a % Slots # produced % Slots
<1>1. consumed \in Nat /\ produced \in Nat /\ Slots \in Nat /\ produced - consumed <= Slots
  BY SizeAssumption DEF TypeOK, Waiting
<1>2. a \in Nat /\ a % Slots \in 0 .. Slots - 1
  BY <1>1, SlotRange
<1>3. ASSUME NEW b \in consumed .. produced - 1, a # b
      PROVE  a % Slots # b % Slots
  <2>1. b \in Nat /\ (a < b \/ b < a) /\ a < b + Slots /\ b < a + Slots
    BY <1>1, <1>3
  <2>2. QED
    BY <1>2, <2>1, DistinctSlots
<1>4. ASSUME Waiting < Slots
      PROVE  a % Slots # produced % Slots
  <2>1. a < produced /\ produced < a + Slots
    BY <1>1, <1>4 DEF Waiting
  <2>2. QED
    BY <1>1, <1>2, <2>1, DistinctSlots
<1>5. QED
  BY <1>2, <1>3, <1>4

\* A reservation, a submission and a read keep the records apart (main.bpf.c:37,
\* :52, main.go:73).
LEMMA RecordsStep == TypeOK /\ RecordsHeld /\ [Next]_vars => RecordsHeld'
<1> SUFFICES ASSUME TypeOK, RecordsHeld, [Next]_vars PROVE RecordsHeld'
  OBVIOUS
<1> USE DEF RecordsHeld, Holding, program, ring, reading, stats
<1>1. /\ pc \in [CPUs -> {"idle", "reserve", "drop", "fill", "submit"}]
      /\ mine \in [CPUs -> Nat \cup {NULL}] /\ busy \in [0 .. Slots - 1 -> BOOLEAN]
      /\ produced \in Nat /\ consumed \in Nat /\ Slots \in Nat \ {0}
  BY SizeAssumption DEF TypeOK
<1>2. ASSUME NEW c \in CPUs, NEW n \in Names \cup {NULL}, Enter(c, n)
      PROVE  RecordsHeld'
  BY <1>1, <1>2 DEF Enter
<1>3. ASSUME NEW c \in CPUs, Reserve(c)
      PROVE  RecordsHeld'
  <2> USE <1>3 DEF Reserve
  <2>1. produced % Slots \in 0 .. Slots - 1 /\ consumed <= produced
    BY <1>1, SlotRange DEF TypeOK, Waiting
  <2>2. mine'[c] = produced /\ busy'[produced % Slots]
    BY <1>1, <2>1
  <2>3. ASSUME NEW d \in CPUs, d # c, Holding(d)
        PROVE  mine'[d] = mine[d] /\ mine[d] \in consumed .. produced - 1 /\ busy'[mine[d] % Slots]
    BY <1>1, <2>3, Apart
  <2>4. \A d \in CPUs : Holding(d)' => d = c \/ Holding(d)
    BY <1>1
  <2> HIDE DEF Holding
  <2>5. \A d \in CPUs :
          Holding(d)' => mine'[d] \in consumed' .. produced' - 1 /\ busy'[mine'[d] % Slots]
    BY <1>1, <2>1, <2>2, <2>3, <2>4
  <2>6. \A d, e \in CPUs : d # e /\ Holding(d)' /\ Holding(e)' => mine'[d] # mine'[e]
    BY <1>1, <2>2, <2>3, <2>4
  <2>7. QED
    BY <2>5, <2>6
<1>4. ASSUME NEW c \in CPUs, ReserveFails(c)
      PROVE  RecordsHeld'
  BY <1>1, <1>4 DEF ReserveFails
<1>5. ASSUME NEW c \in CPUs, Drop(c)
      PROVE  RecordsHeld'
  BY <1>1, <1>5 DEF Drop, Return
<1>6. ASSUME NEW c \in CPUs, Fill(c)
      PROVE  RecordsHeld'
  BY <1>1, <1>6 DEF Fill
<1>7. ASSUME NEW c \in CPUs, Submit(c)
      PROVE  RecordsHeld'
  <2> USE <1>7 DEF Submit, Return
  <2>1. \A d \in CPUs : Holding(d)' => d # c /\ Holding(d) /\ mine'[d] = mine[d]
    BY <1>1
  <2>2. ASSUME NEW d \in CPUs, d # c, Holding(d)
        PROVE  busy'[mine[d] % Slots]
    <3>1. mine[c] % Slots # mine[d] % Slots /\ mine[d] % Slots \in 0 .. Slots - 1
      BY <2>2, Apart
    <3>2. QED
      BY <1>1, <2>2, <3>1
  <2>3. QED
    BY <2>1, <2>2
<1>8. ASSUME Take
      PROVE  RecordsHeld'
  <2>1. \A d \in CPUs : Holding(d) => mine[d] # consumed
    BY <1>8 DEF Take
  <2>2. pc' = pc /\ mine' = mine /\ busy' = busy /\ produced' = produced /\ consumed' = consumed + 1
    BY <1>8 DEF Take
  <2>3. \A d \in CPUs :
          Holding(d)' => mine'[d] \in consumed' .. produced' - 1 /\ busy'[mine'[d] % Slots]
    BY <1>1, <2>1, <2>2
  <2>4. QED
    BY <2>2, <2>3
<1>9. ASSUME UNCHANGED <<pc, mine, busy, produced, consumed>>
      PROVE  RecordsHeld'
  BY <1>9
<1>10. ASSUME Wait \/ Drained \/ Count \/ PrintEvent
       PROVE  RecordsHeld'
  BY <1>9, <1>10 DEF Wait, Drained, Count, PrintEvent
<1>11. ASSUME NEW p \in Printers, Stats(p) \/ PrintStats(p) \/ \E c \in CPUs : AddDrops(p, c)
       PROVE  RecordsHeld'
  BY <1>9, <1>11 DEF Stats, PrintStats, AddDrops
<1>12. ASSUME Signal \/ CloseReader \/ Detach \/ Exit
       PROVE  RecordsHeld'
  BY <1>9, <1>12 DEF Signal, CloseReader, Detach, Exit
<1>13. CASE UNCHANGED vars
  BY <1>9, <1>13 DEF vars
<1>14. QED
  BY <1>2, <1>3, <1>4, <1>5, <1>6, <1>7, <1>8, <1>10, <1>11, <1>12, <1>13
     DEF Next, Program, Reader

\* A copy goes to the record of its own call only, which nobody reads before it is
\* submitted (main.bpf.c:37-52).
LEMMA NamesStep == TypeOK /\ RecordsHeld /\ NamesKept /\ [Next]_vars => NamesKept'
<1> SUFFICES ASSUME TypeOK, RecordsHeld, NamesKept, [Next]_vars PROVE NamesKept'
  OBVIOUS
<1> USE DEF NamesKept, program, ring, reading, stats
<1>1. /\ pc \in [CPUs -> {"idle", "reserve", "drop", "fill", "submit"}]
      /\ mine \in [CPUs -> Nat \cup {NULL}] /\ busy \in [0 .. Slots - 1 -> BOOLEAN]
      /\ path \in [0 .. Slots - 1 -> Paths] /\ opened \in Seq(Seq(Chars))
      /\ fname \in [CPUs -> Names \cup {NULL}]
      /\ produced \in Nat /\ consumed \in Nat /\ Slots \in Nat \ {0}
  BY SizeAssumption DEF TypeOK
<1>2. \A c \in CPUs : pc[c] \in {"fill", "submit"} =>
        /\ mine[c] \in consumed .. produced - 1 /\ busy[mine[c] % Slots]
        /\ mine[c] % Slots \in 0 .. Slots - 1
  BY Apart DEF RecordsHeld, Holding
<1>3. ASSUME NEW c \in CPUs, NEW n \in Names \cup {NULL}, Enter(c, n)
      PROVE  NamesKept'
  BY <1>1, <1>3 DEF Enter
<1>4. ASSUME NEW c \in CPUs, Reserve(c)
      PROVE  NamesKept'
  <2> USE <1>4 DEF Reserve
  <2>1. /\ Len(opened') = produced' /\ opened'[produced + 1] = Fitting(fname[c])
        /\ \A i \in 1 .. produced : opened'[i] = opened[i]
    BY <1>1, FittingText, AppendProperties
  <2>2. produced % Slots \in 0 .. Slots - 1 /\ consumed <= produced
    BY <1>1, SlotRange DEF TypeOK, Waiting
  <2>3. \A d \in CPUs : pc'[d] = "fill" => opened'[mine'[d] + 1] = Fitting(fname'[d])
    BY <1>1, <1>2, <2>1
  <2>4. ASSUME NEW d \in CPUs, pc'[d] = "submit"
        PROVE  CString(path'[mine'[d] % Slots]) = opened'[mine'[d] + 1]
    BY <1>1, <1>2, <2>1, <2>4
  <2>5. ASSUME NEW q \in consumed' .. produced' - 1, ~busy'[q % Slots]
        PROVE  CString(path'[q % Slots]) = opened'[q + 1]
    <3>1. q # produced
      BY <1>1, <2>2, <2>5
    <3>2. q \in consumed .. produced - 1
      BY <1>1, <3>1
    <3>3. ~busy[q % Slots]
      BY <1>1, <2>5, <3>2, Apart
    <3>4. CString(path[q % Slots]) = opened[q + 1]
      BY <3>2, <3>3
    <3>5. opened'[q + 1] = opened[q + 1]
      BY <1>1, <2>1, <3>2
    <3>6. QED
      BY <3>4, <3>5
  <2>6. QED
    BY <2>1, <2>3, <2>4, <2>5
<1>5. ASSUME NEW c \in CPUs, ReserveFails(c)
      PROVE  NamesKept'
  BY <1>1, <1>5 DEF ReserveFails
<1>6. ASSUME NEW c \in CPUs, Drop(c)
      PROVE  NamesKept'
  BY <1>1, <1>6 DEF Drop, Return
<1>7. ASSUME NEW c \in CPUs, Fill(c)
      PROVE  NamesKept'
  <2> USE <1>7 DEF Fill
  <2> DEFINE s == mine[c] % Slots
  <2>1. s \in 0 .. Slots - 1 /\ busy[s] /\ mine[c] \in consumed .. produced - 1
    BY <1>2
  <2>2. CString(path'[s]) = Fitting(fname[c])
    <3>1. path'[s] = Copied(path[s], fname[c]) /\ path[s] \in Paths
      BY <1>1, <2>1
    <3>2. QED
      BY <1>1, <3>1, CopiedText
  <2>3. \A t \in 0 .. Slots - 1 : t # s => path'[t] = path[t]
    BY <1>1
  <2>4. ASSUME NEW d \in CPUs, pc'[d] = "submit"
        PROVE  CString(path'[mine'[d] % Slots]) = opened'[mine'[d] + 1]
    <3>1. CASE d = c
      BY <1>1, <2>2, <3>1
    <3>2. CASE d # c
      <4>1. pc[d] = "submit" /\ mine[d] # mine[c]
        BY <1>1, <2>4, <3>2 DEF RecordsHeld, Holding
      <4>2. mine[d] % Slots # s /\ mine[d] % Slots \in 0 .. Slots - 1
        BY <1>2, <2>1, <4>1, Apart
      <4>3. QED
        BY <2>3, <4>1, <4>2
    <3>3. QED
      BY <3>1, <3>2
  <2>5. ASSUME NEW q \in consumed' .. produced' - 1, ~busy'[q % Slots]
        PROVE  CString(path'[q % Slots]) = opened'[q + 1]
    <3>1. q % Slots # s /\ q % Slots \in 0 .. Slots - 1
      BY <2>1, <2>5, Apart
    <3>2. QED
      BY <2>3, <2>5, <3>1
  <2>6. \A d \in CPUs : pc'[d] = "fill" => opened'[mine'[d] + 1] = Fitting(fname'[d])
    BY <1>1
  <2>7. QED
    BY <2>4, <2>5, <2>6
<1>8. ASSUME NEW c \in CPUs, Submit(c)
      PROVE  NamesKept'
  <2> USE <1>8 DEF Submit, Return
  <2>1. \A d \in CPUs : pc'[d] # "idle" =>
          d # c /\ pc'[d] = pc[d] /\ mine'[d] = mine[d] /\ fname'[d] = fname[d]
    BY <1>1
  <2>2. ASSUME NEW q \in consumed' .. produced' - 1, ~busy'[q % Slots]
        PROVE  CString(path'[q % Slots]) = opened'[q + 1]
    <3>1. CASE q = mine[c]
      BY <3>1
    <3>2. CASE q # mine[c]
      <4>1. q % Slots # mine[c] % Slots /\ q % Slots \in 0 .. Slots - 1
        BY <1>2, <3>2, Apart
      <4>2. ~busy[q % Slots]
        BY <1>1, <2>2, <4>1
      <4>3. QED
        BY <4>2
    <3>3. QED
      BY <3>1, <3>2
  <2>3. QED
    BY <2>1, <2>2
<1>9. ASSUME Take
      PROVE  NamesKept'
  <2>1. /\ pc' = pc /\ mine' = mine /\ fname' = fname /\ opened' = opened
        /\ busy' = busy /\ path' = path /\ produced' = produced /\ consumed' = consumed + 1
    BY <1>9 DEF Take
  <2>2. consumed' .. produced' - 1 \subseteq consumed .. produced - 1
    BY <1>1, <2>1
  <2>3. \A q \in consumed' .. produced' - 1 :
          ~busy'[q % Slots] => CString(path'[q % Slots]) = opened'[q + 1]
    BY <2>1, <2>2
  <2>4. QED
    BY <2>1, <2>3
<1>10. ASSUME UNCHANGED <<pc, mine, fname, opened, busy, path, produced, consumed>>
       PROVE  NamesKept'
  BY <1>10
<1>11. ASSUME Wait \/ Drained \/ Count \/ PrintEvent
       PROVE  NamesKept'
  BY <1>10, <1>11 DEF Wait, Drained, Count, PrintEvent
<1>12. ASSUME NEW p \in Printers, Stats(p) \/ PrintStats(p) \/ \E c \in CPUs : AddDrops(p, c)
       PROVE  NamesKept'
  BY <1>10, <1>12 DEF Stats, PrintStats, AddDrops
<1>13. ASSUME Signal \/ CloseReader \/ Detach \/ Exit
       PROVE  NamesKept'
  BY <1>10, <1>13 DEF Signal, CloseReader, Detach, Exit
<1>14. CASE UNCHANGED vars
  BY <1>10, <1>14 DEF vars
<1>15. QED
  BY <1>3, <1>4, <1>5, <1>6, <1>7, <1>8, <1>9, <1>11, <1>12, <1>13, <1>14
     DEF Next, Program, Reader

\* The reader counts and prints what it copied out, whatever is reserved meanwhile
\* (main.go:73-90).
LEMMA ReaderStep == TypeOK /\ NamesKept /\ ReaderKept /\ [Next]_vars => ReaderKept'
<1> SUFFICES ASSUME TypeOK, NamesKept, ReaderKept, [Next]_vars PROVE ReaderKept'
  OBVIOUS
<1> USE DEF ReaderKept, program, ring, reading, stats
<1>1. /\ produced \in Nat /\ consumed \in Nat /\ received \in Nat /\ consumed <= produced
      /\ Len(opened) = produced /\ opened \in Seq(Seq(Chars))
      /\ fname \in [CPUs -> Names \cup {NULL}]
  BY SizeAssumption DEF TypeOK, Waiting, NamesKept
<1>2. ASSUME NEW c \in CPUs, Reserve(c)
      PROVE  ReaderKept'
  <2>1. \A i \in 1 .. produced : opened'[i] = opened[i]
    BY <1>1, <1>2, FittingText, AppendProperties DEF Reserve
  <2>2. reader \in {"count", "print"} => consumed \in 1 .. produced
    BY <1>1
  <2>3. QED
    BY <1>2, <2>1, <2>2 DEF Reserve
<1>3. ASSUME NEW c \in CPUs, Submit(c)
      PROVE  ReaderKept'
  BY <1>3 DEF Submit
<1>4. ASSUME Take
      PROVE  ReaderKept'
  <2> USE <1>4 DEF Take
  <2>1. consumed \in consumed .. produced - 1
    BY <1>1 DEF Waiting
  <2>2. CString(rec') = opened[consumed + 1]
    BY <2>1 DEF NamesKept
  <2>3. QED
    BY <1>1, <2>2
<1>5. ASSUME Wait \/ Drained
      PROVE  ReaderKept'
  BY <1>5 DEF Wait, Drained
<1>6. ASSUME Count
      PROVE  ReaderKept'
  BY <1>1, <1>6 DEF Count
<1>7. ASSUME PrintEvent
      PROVE  ReaderKept'
  BY <1>1, <1>7 DEF PrintEvent
<1>8. ASSUME UNCHANGED <<consumed, reader, rec, received, opened>>
      PROVE  ReaderKept'
  BY <1>8
<1>9. ASSUME NEW c \in CPUs, ReserveFails(c) \/ Drop(c) \/ Fill(c)
      PROVE  ReaderKept'
  BY <1>8, <1>9 DEF ReserveFails, Drop, Fill
<1>10. ASSUME NEW c \in CPUs, NEW n \in Names \cup {NULL}, Enter(c, n)
       PROVE  ReaderKept'
  BY <1>8, <1>10 DEF Enter
<1>11. ASSUME NEW p \in Printers, Stats(p) \/ PrintStats(p) \/ \E c \in CPUs : AddDrops(p, c)
       PROVE  ReaderKept'
  BY <1>8, <1>11 DEF Stats, PrintStats, AddDrops
<1>12. ASSUME Signal \/ CloseReader \/ Detach \/ Exit
       PROVE  ReaderKept'
  BY <1>8, <1>12 DEF Signal, CloseReader, Detach, Exit
<1>13. CASE UNCHANGED vars
  BY <1>8, <1>13 DEF vars
<1>14. QED
  BY <1>2, <1>3, <1>4, <1>5, <1>6, <1>7, <1>9, <1>10, <1>11, <1>12, <1>13
     DEF Next, Program, Reader

----------------------------------------------------------------------------
(* Counts.                                                                 *)

\* A drop counts once in every sum over CPUs that has the dropping one.
LEMMA DropCounts ==
  ASSUME drop_count \in [CPUs -> Nat], NEW c \in CPUs, Drop(c)
  PROVE  /\ Total' = Total + 1
         /\ \A S \in SUBSET CPUs :
              SumFunctionOnSet(drop_count', S) =
                SumFunctionOnSet(drop_count, S) + (IF c \in S THEN 1 ELSE 0)
<1>1. drop_count' = [drop_count EXCEPT ![c] = drop_count[c] + 1]
  BY DEF Drop
<1>2. \A d \in CPUs :
        /\ drop_count[d] \in Nat /\ drop_count'[d] \in Nat
        /\ drop_count'[d] = IF d = c THEN drop_count[d] + 1 ELSE drop_count[d]
  BY <1>1
<1>3. ASSUME NEW S \in SUBSET CPUs
      PROVE  SumFunctionOnSet(drop_count', S) =
               SumFunctionOnSet(drop_count, S) + (IF c \in S THEN 1 ELSE 0)
  <2>1. IsFiniteSet(S) /\ SumFunctionOnSet(drop_count, S) \in Nat
    BY CPUAssumption, FS_Subset, TotalType
  <2>2. \A d \in S : /\ drop_count[d] \in Nat /\ drop_count'[d] \in Nat
                     /\ d # c => drop_count'[d] = drop_count[d]
    BY <1>2
  <2>3. SumFunctionOnSet(drop_count', S) =
          SumFunctionOnSet(drop_count, S) + (IF c \in S THEN drop_count'[c] - drop_count[c] ELSE 0)
    BY <2>1, <2>2, SumChange
  <2>4. drop_count'[c] - drop_count[c] = 1
    BY <1>2
  <2>5. QED
    BY <2>3, <2>4
<1>4. DOMAIN drop_count = CPUs /\ DOMAIN drop_count' = CPUs
  BY <1>1
<1>5. QED
  BY <1>3, <1>4 DEF Total, SumFunction

\* Drops and receptions between the reads of the cells keep the bounds (main.go:94,
\* :118).
LEMMA StatsStep == TypeOK /\ StatsBounded /\ [Next]_vars => StatsBounded'
<1> SUFFICES ASSUME TypeOK, StatsBounded, [Next]_vars PROVE StatsBounded'
  OBVIOUS
<1> DEFINE Left(p) == SumFunctionOnSet(drop_count, unread[p])
<1> USE DEF program, ring, reading, stats
<1>1. /\ drop_count \in [CPUs -> Nat] /\ received \in Nat
      /\ printer \in [Printers -> {"idle", "drops"}] /\ rx \in [Printers -> Nat]
      /\ unread \in [Printers -> SUBSET CPUs] /\ drops \in [Printers -> Nat]
      /\ since \in [Printers -> Nat]
  BY DEF TypeOK
<1>2. /\ Total \in Nat /\ Total = SumFunctionOnSet(drop_count, CPUs)
      /\ \A p \in Printers : Left(p) \in Nat
  BY <1>1, TotalType DEF Total, SumFunction
<1>3. ASSUME NEW c \in CPUs, Drop(c)
      PROVE  StatsBounded'
  <2>1. UNCHANGED <<printer, rx, unread, drops, since, received>>
    BY <1>3 DEF Drop
  <2>2. Total' = Total + 1 /\ \A p \in Printers : Left(p)' \in Left(p) .. Left(p) + 1
    BY <1>1, <1>2, <1>3, <2>1, DropCounts
  <2>3. QED
    BY <1>1, <1>2, <2>1, <2>2 DEF StatsBounded
<1>4. ASSUME NEW p \in Printers, Call(p), UNCHANGED <<drop_count, received>>
      PROVE  StatsBounded'
  <2>1. /\ printer'[p] = "drops" /\ rx'[p] = received /\ unread'[p] = CPUs
        /\ drops'[p] = 0 /\ since'[p] = received + Total
    BY <1>1, <1>4 DEF Call
  <2>2. \A q \in Printers \ {p} :
          /\ printer'[q] = printer[q] /\ rx'[q] = rx[q] /\ unread'[q] = unread[q]
          /\ drops'[q] = drops[q] /\ since'[q] = since[q]
    BY <1>1, <1>4 DEF Call
  <2>3. Total' = Total
    BY <1>4 DEF Total
  <2>4. ASSUME NEW q \in Printers, printer'[q] = "drops"
        PROVE  /\ rx'[q] <= received'
               /\ since'[q] <= rx'[q] + drops'[q] + SumFunctionOnSet(drop_count', unread'[q])
               /\ drops'[q] + SumFunctionOnSet(drop_count', unread'[q]) <= Total'
    <3>1. CASE q = p
      BY <1>1, <1>2, <1>4, <2>1, <2>3, <3>1
    <3>2. CASE q # p
      BY <1>4, <2>2, <2>3, <2>4, <3>2 DEF StatsBounded
    <3>3. QED
      BY <3>1, <3>2
  <2>5. QED
    BY <2>4 DEF StatsBounded
<1>5. ASSUME NEW p \in Printers, NEW c \in CPUs, AddDrops(p, c)
      PROVE  StatsBounded'
  <2> USE <1>5 DEF AddDrops
  <2>1. Left(p) = drop_count[c] + SumFunctionOnSet(drop_count, unread[p] \ {c})
    <3>1. IsFiniteSet(unread[p]) /\ \A d \in unread[p] : drop_count[d] \in Nat
      BY <1>1, CPUAssumption, FS_Subset
    <3>2. QED
      BY <3>1, SumRemove
  <2>2. /\ drops'[p] = drops[p] + drop_count[c] /\ unread'[p] = unread[p] \ {c}
        /\ \A q \in Printers \ {p} : drops'[q] = drops[q] /\ unread'[q] = unread[q]
    BY <1>1
  <2>3. SumFunctionOnSet(drop_count, unread[p] \ {c}) \in Nat
    BY <1>1, TotalType
  <2>4. Total' = Total /\ UNCHANGED <<printer, rx, since, received, drop_count>>
    BY DEF Total
  <2>5. \A q \in Printers :
          drops'[q] + SumFunctionOnSet(drop_count', unread'[q]) = drops[q] + Left(q)
    <3>1. drops[p] \in Nat /\ drop_count[c] \in Nat
      BY <1>1
    <3>2. SumFunctionOnSet(drop_count', unread'[p]) = SumFunctionOnSet(drop_count, unread[p] \ {c})
      BY <2>2, <2>4
    <3>3. drops'[p] + SumFunctionOnSet(drop_count', unread'[p]) = drops[p] + Left(p)
      BY <2>1, <2>2, <2>3, <3>1, <3>2
    <3>4. QED
      BY <2>2, <2>4, <3>3
  <2>6. \A q \in Printers : SumFunctionOnSet(drop_count', unread'[q]) \in Nat /\ drops'[q] \in Nat
    BY <1>1, <1>2, <2>2, <2>3, <2>4
  <2>7. ASSUME NEW q \in Printers, printer'[q] = "drops"
        PROVE  /\ rx'[q] <= received'
               /\ since'[q] <= rx'[q] + drops'[q] + SumFunctionOnSet(drop_count', unread'[q])
               /\ drops'[q] + SumFunctionOnSet(drop_count', unread'[q]) <= Total'
    <3>1. rx[q] <= received /\ since[q] <= rx[q] + drops[q] + Left(q) /\ drops[q] + Left(q) <= Total
      BY <2>4, <2>7 DEF StatsBounded
    <3>2. rx[q] \in Nat /\ drops[q] \in Nat /\ Left(q) \in Nat /\ since[q] \in Nat
      BY <1>1, <1>2
    <3> DEFINE left == SumFunctionOnSet(drop_count', unread'[q])
    <3>3. drops'[q] + left = drops[q] + Left(q) /\ left \in Nat /\ drops'[q] \in Nat
      BY <2>5, <2>6
    <3>4. rx'[q] = rx[q] /\ since'[q] = since[q] /\ received' = received /\ Total' = Total
      BY <2>4
    <3> HIDE DEF Left, left
    <3>5. since'[q] <= rx'[q] + drops'[q] + left /\ drops'[q] + left <= Total'
      BY <3>1, <3>2, <3>3, <3>4
    <3>6. QED
      BY <3>1, <3>4, <3>5 DEF left
  <2>8. QED
    BY <2>7 DEF StatsBounded
<1>6. ASSUME NEW p \in Printers, PrintStats(p)
      PROVE  StatsBounded'
  <2>1. printer'[p] = "idle" /\ \A q \in Printers \ {p} :
          printer'[q] = printer[q] /\ rx'[q] = rx[q] /\ drops'[q] = drops[q] /\ since'[q] = since[q]
    BY <1>1, <1>6 DEF PrintStats
  <2>2. Total' = Total /\ UNCHANGED <<unread, received, drop_count>>
    BY <1>6 DEF PrintStats, Total
  <2>3. QED
    BY <2>1, <2>2 DEF StatsBounded
<1>7. ASSUME UNCHANGED <<printer, rx, unread, drops, since, drop_count>>,
             received' \in Nat, received <= received'
      PROVE  StatsBounded'
  BY <1>1, <1>7 DEF StatsBounded, Total
<1>8. ASSUME NEW c \in CPUs, NEW n \in Names \cup {NULL}, Enter(c, n)
      PROVE  StatsBounded'
  BY <1>1, <1>7, <1>8 DEF Enter
<1>9. ASSUME NEW c \in CPUs, Reserve(c) \/ ReserveFails(c) \/ Fill(c) \/ Submit(c)
      PROVE  StatsBounded'
  BY <1>1, <1>7, <1>9 DEF Reserve, ReserveFails, Fill, Submit
<1>10. ASSUME Wait \/ Take \/ Drained \/ Count \/ PrintEvent
       PROVE  StatsBounded'
  BY <1>1, <1>7, <1>10 DEF Wait, Take, Drained, Count, PrintEvent
<1>11. ASSUME NEW p \in Printers, Stats(p)
       PROVE  StatsBounded'
  BY <1>4, <1>11 DEF Stats
<1>12. ASSUME Signal
       PROVE  StatsBounded'
  BY <1>4, <1>12, PrinterAssumption DEF Signal
<1>13. ASSUME CloseReader \/ Detach \/ Exit
       PROVE  StatsBounded'
  BY <1>1, <1>7, <1>13 DEF CloseReader, Detach, Exit
<1>14. CASE UNCHANGED vars
  BY <1>1, <1>7, <1>14 DEF vars
<1>15. QED
  BY <1>3, <1>5, <1>6, <1>8, <1>9, <1>10, <1>11, <1>12, <1>13, <1>14
     DEF Next, Program, Reader

\* No step loses a call or counts one twice (main.bpf.c:37-43, main.go:80).
LEMMA AccountedStep == TypeOK /\ CallsAccounted /\ [Next]_vars => CallsAccounted'
<1> SUFFICES ASSUME TypeOK, CallsAccounted, [Next]_vars PROVE CallsAccounted'
  OBVIOUS
<1> DEFINE Open == {c \in CPUs : pc[c] \in {"reserve", "drop"}}
           Read == IF reader = "count" THEN 1 ELSE 0
<1> USE DEF program, ring, reading, stats
<1>1. /\ pc \in [CPUs -> {"idle", "reserve", "drop", "fill", "submit"}]
      /\ produced \in Nat /\ consumed \in Nat /\ received \in Nat /\ calls \in Nat
      /\ drop_count \in [CPUs -> Nat] /\ Total \in Nat
  BY TotalType DEF TypeOK
<1>2. calls = received + Total + (produced - consumed) + Read + Cardinality(Open)
  BY DEF CallsAccounted, Waiting
<1>3. SUFFICES calls' = received' + Total' + (produced' - consumed') + Read' + Cardinality(Open')
  BY DEF CallsAccounted, Waiting
<1>4. IsFiniteSet(Open) /\ Cardinality(Open) \in Nat /\ Read \in {0, 1}
  BY CPUAssumption, FS_Subset, FS_CardinalityType
<1>5. ASSUME UNCHANGED drop_count
      PROVE  Total' = Total
  BY <1>5 DEF Total
<1>6. ASSUME NEW c \in CPUs, NEW n \in Names \cup {NULL}, Enter(c, n)
      PROVE  calls' = received' + Total' + (produced' - consumed') + Read' + Cardinality(Open')
  <2> USE <1>6 DEF Enter
  <2>1. Open' = Open \cup {c} /\ c \notin Open
    BY <1>1
  <2>2. Cardinality(Open') = Cardinality(Open) + 1
    BY <1>4, <2>1, FS_AddElement
  <2>3. calls' = calls + 1 /\ Total' = Total /\ Read' = Read
        /\ UNCHANGED <<received, produced, consumed>>
    BY <1>5
  <2>4. QED
    BY <1>1, <1>2, <1>4, <2>2, <2>3
<1>7. ASSUME NEW c \in Open, Open' = Open \ {c}
      PROVE  Cardinality(Open') = Cardinality(Open) - 1
  BY <1>4, <1>7, FS_RemoveElement
<1>8. ASSUME NEW c \in CPUs, Reserve(c)
      PROVE  calls' = received' + Total' + (produced' - consumed') + Read' + Cardinality(Open')
  <2> USE <1>8 DEF Reserve
  <2>1. Open' = Open \ {c} /\ c \in Open
    BY <1>1
  <2>2. produced' = produced + 1 /\ Total' = Total /\ Read' = Read
        /\ UNCHANGED <<calls, received, consumed>>
    BY <1>5
  <2>3. Cardinality(Open') = Cardinality(Open) - 1
    BY <1>7, <2>1
  <2> HIDE DEF Open, Read, Reserve
  <2>4. QED
    BY <1>1, <1>2, <1>4, <2>2, <2>3
<1>9. ASSUME NEW c \in CPUs, Drop(c)
      PROVE  calls' = received' + Total' + (produced' - consumed') + Read' + Cardinality(Open')
  <2> USE <1>9 DEF Drop, Return
  <2>1. Open' = Open \ {c} /\ c \in Open
    BY <1>1
  <2>2. Total' = Total + 1
    BY <1>1, DropCounts
  <2>3. Read' = Read /\ UNCHANGED <<calls, received, produced, consumed>>
    OBVIOUS
  <2> HIDE DEF Open, Read, Drop
  <2>4. QED
    BY <1>1, <1>2, <1>4, <1>7, <2>1, <2>2, <2>3
<1>10. ASSUME Open' = Open, Total' = Total, calls' = calls, produced' = produced,
              received' \in Nat, consumed' \in Nat, Read' \in {0, 1},
              received' - consumed' + Read' = received - consumed + Read
       PROVE  calls' = received' + Total' + (produced' - consumed') + Read' + Cardinality(Open')
  <2> HIDE DEF Open, Read
  <2>1. Cardinality(Open') = Cardinality(Open) /\ Read \in Int /\ Read' \in Int
    BY <1>4, <1>10
  <2>2. /\ Total' = Total /\ calls' = calls /\ produced' = produced
        /\ received' \in Nat /\ consumed' \in Nat
        /\ received' - consumed' + Read' = received - consumed + Read
    BY <1>10
  <2>3. calls = (received - consumed + Read) + Total + produced + Cardinality(Open)
    BY <1>1, <1>2, <1>4, <2>1
  <2>4. calls' = (received' - consumed' + Read') + Total' + produced' + Cardinality(Open')
    BY <2>1, <2>2, <2>3
  <2>5. QED
    BY <1>1, <1>4, <2>1, <2>2, <2>4
<1>11. ASSUME NEW c \in CPUs, ReserveFails(c) \/ Fill(c) \/ Submit(c)
       PROVE  calls' = received' + Total' + (produced' - consumed') + Read' + Cardinality(Open')
  <2>1. Open' = Open
    BY <1>1, <1>11 DEF ReserveFails, Fill, Submit, Return
  <2>2. UNCHANGED <<calls, produced, received, consumed, drop_count>> /\ Read' = Read
    BY <1>11 DEF ReserveFails, Fill, Submit
  <2>3. QED
    BY <1>1, <1>4, <1>5, <1>10, <2>1, <2>2
<1>12. ASSUME Take \/ Count
       PROVE  calls' = received' + Total' + (produced' - consumed') + Read' + Cardinality(Open')
  <2>1. Open' = Open /\ UNCHANGED <<calls, produced, drop_count>>
    BY <1>12 DEF Take, Count
  <2>2. /\ received' \in Nat /\ consumed' \in Nat /\ Read' \in {0, 1}
        /\ received' - consumed' + Read' = received - consumed + Read
    BY <1>1, <1>12 DEF Take, Count
  <2>3. QED
    BY <1>5, <1>10, <2>1, <2>2
<1>13. ASSUME UNCHANGED <<pc, calls, produced, received, consumed, drop_count>>, Read' = Read
       PROVE  calls' = received' + Total' + (produced' - consumed') + Read' + Cardinality(Open')
  BY <1>1, <1>4, <1>5, <1>10, <1>13
<1>14. ASSUME Wait \/ Drained \/ PrintEvent
       PROVE  calls' = received' + Total' + (produced' - consumed') + Read' + Cardinality(Open')
  BY <1>13, <1>14 DEF Wait, Drained, PrintEvent
<1>15. ASSUME NEW p \in Printers, Stats(p) \/ PrintStats(p) \/ \E c \in CPUs : AddDrops(p, c)
       PROVE  calls' = received' + Total' + (produced' - consumed') + Read' + Cardinality(Open')
  BY <1>13, <1>15 DEF Stats, PrintStats, AddDrops
<1>16. ASSUME Signal \/ CloseReader \/ Detach \/ Exit
       PROVE  calls' = received' + Total' + (produced' - consumed') + Read' + Cardinality(Open')
  BY <1>13, <1>16 DEF Signal, CloseReader, Detach, Exit
<1>17. CASE UNCHANGED vars
  BY <1>13, <1>17 DEF vars
<1>18. QED
  BY <1>6, <1>8, <1>9, <1>11, <1>12, <1>14, <1>15, <1>16, <1>17 DEF Next, Program, Reader

----------------------------------------------------------------------------
(* The theorems.                                                           *)

\* Before the first call no record is reserved and nothing has been counted.
LEMMA AtStart ==
  ASSUME Init
  PROVE  Total = 0 /\ RecordsHeld /\ NamesKept /\ ReaderKept /\ StatsBounded /\ CallsAccounted
<1> USE DEF Init
<1>1. Total = 0
  <2>1. \A S \in SUBSET CPUs : SumFunctionOnSet(drop_count, S) = 0
    BY CPUAssumption, FS_Subset, SumZero
  <2>2. QED
    BY <2>1 DEF Total, SumFunction
<1>2. RecordsHeld
  BY DEF RecordsHeld, Holding
<1>3. NamesKept
  BY EmptySeq DEF NamesKept
<1>4. ReaderKept /\ StatsBounded
  BY DEF ReaderKept, StatsBounded
<1>5. CallsAccounted
  <2>1. {c \in CPUs : pc[c] \in {"reserve", "drop"}} = {}
    OBVIOUS
  <2>2. Cardinality({c \in CPUs : pc[c] \in {"reserve", "drop"}}) = 0
    BY <2>1, FS_EmptySet
  <2>3. calls = 0 /\ received = 0 /\ Waiting = 0 /\ reader # "count"
    BY DEF Waiting
  <2>4. QED
    BY <1>1, <2>2, <2>3 DEF CallsAccounted
<1>6. QED
  BY <1>1, <1>2, <1>3, <1>4, <1>5

\* What holds between the steps holds from the start on (main.bpf.c:37-52,
\* main.go:72-118).
THEOREM Invariance == Spec => [](TypeOK /\ RecordsHeld /\ NamesKept /\ ReaderKept /\ StatsBounded)
BY TypeInit, AtStart, TypeStep, RecordsStep, NamesStep, ReaderStep, StatsStep, PTL DEF Spec

\* Every call is received, dropped, in the ring or on its way (main.bpf.c:37-43,
\* main.go:80), on any number of CPUs and with a ring of any size.
THEOREM AllCallsAccounted == Spec => []CallsAccounted
BY AtStart, AccountedStep, TypeCorrect, PTL DEF Spec

\* The sum of the two totals printed together lies between the opens at the call of
\* printStats and those at the print (main.go:94, :118), whatever is dropped or
\* received between the reads of the cells.
THEOREM PrintedSumExplained == Spec => []StatsExplained
<1>1. TypeOK /\ StatsBounded => StatsExplained
  <2> SUFFICES ASSUME TypeOK, StatsBounded, NEW p \in Printers, printer[p] = "drops", unread[p] = {}
               PROVE  rx[p] + drops[p] \in since[p] .. received + Total
    BY DEF StatsExplained
  <2>1. SumFunctionOnSet(drop_count, unread[p]) = 0
    BY FS_EmptySet, SumUnfold
  <2>2. rx[p] \in Nat /\ drops[p] \in Nat /\ since[p] \in Nat /\ received \in Nat /\ Total \in Nat
    BY TotalType DEF TypeOK
  <2>3. rx[p] <= received /\ since[p] <= rx[p] + drops[p] + 0 /\ drops[p] + 0 <= Total
    BY <2>1 DEF StatsBounded
  <2>4. QED
    BY <2>2, <2>3
<1>2. QED
  BY <1>1, Invariance, PTL

\* The ring with its CPUs and its reader implements one ordered stream of opens
\* (main.bpf.c:37-52, main.go:72-90; "globally ordered", README.md).
THEOREM OrderKept == Spec => StreamInOrder
<1> DEFINE Left == SubSeq(opened, Shown + 1, Len(opened))
<1>1. Init => Stream!Init
  <2> SUFFICES ASSUME Init PROVE Stream!Init
    OBVIOUS
  <2>1. Shown = 0 /\ Total = 0
    BY AtStart DEF Init, Shown
  <2>2. opened = <<>> /\ Len(opened) = 0 /\ SubSeq(opened, 1, 0) = <<>>
    BY EmptySeq, SubSeqEmpty DEF Init
  <2>3. CString(lastShown) = <<>>
    <3>1. lastShown = <<>> /\ <<>> \in Seq(Chars \cup {NUL}) /\ Len(<<>>) = 0
      BY EmptySeq DEF Init
    <3>2. CString(<<>>) = SubSeq(<<>>, 1, 1 - 1)
      <4> DEFINE s == <<>>
      <4>1. s \in Seq(Chars \cup {NUL}) /\ Len(s) = 0
        BY <3>1
      <4> HIDE DEF s
      <4>2. CString(s) = SubSeq(s, 1, 1 - 1)
        <5>1. 1 \in 1 .. Len(s) + 1 /\ ~(1 <= Len(s)) /\ 1 .. 1 - 1 = {}
          BY <4>1
        <5>2. QED
          BY <4>1, <5>1, TextUpTo
      <4>3. QED
        BY <4>2 DEF s
    <3>3. QED
      BY <3>1, <3>2, SubSeqEmpty
  <2>4. QED
    BY <2>1, <2>2, <2>3 DEF Stream!Init
<1>2. TypeOK /\ NamesKept /\ ReaderKept /\ [Next]_vars => [Stream!Next]_(Stream!vars)
  <2> SUFFICES ASSUME TypeOK, NamesKept, ReaderKept, [Next]_vars
               PROVE  Stream!Next \/ UNCHANGED <<Left, CString(lastShown), Shown, Total>>
    BY DEF Stream!vars
  <2> USE DEF program, ring, reading, stats
  <2>1. /\ produced \in Nat /\ consumed \in Nat /\ received \in Nat /\ Slots \in Nat \ {0}
        /\ produced - consumed <= Slots /\ consumed <= produced
        /\ opened \in Seq(Seq(Chars)) /\ Len(opened) = produced
        /\ fname \in [CPUs -> Names \cup {NULL}]
    BY SizeAssumption DEF TypeOK, Waiting, NamesKept
  <2>2. /\ Shown \in Nat /\ Shown <= consumed /\ consumed <= Shown + 1
        /\ reader = "print" => consumed = Shown + 1
    BY <2>1 DEF Shown, ReaderKept
  <2>3. ASSUME UNCHANGED <<opened, lastShown, drop_count>>, Shown' = Shown
        PROVE  UNCHANGED <<Left, CString(lastShown), Shown, Total>>
    BY <2>3 DEF Total
  <2>4. ASSUME NEW c \in CPUs, Reserve(c)
        PROVE  Stream!Accept
    <3> USE <2>4 DEF Reserve
    <3> DEFINE name == Fitting(fname[c])
    <3>1. opened' = Append(opened, name) /\ name \in Seq(Chars)
      BY <2>1, FittingText
    <3>2. Shown' = Shown /\ Total' = Total /\ lastShown' = lastShown
      BY DEF Shown, Total
    <3>3. Left' = Append(Left, name) /\ Len(Left) = produced - Shown
      <4> HIDE DEF name
      <4>1. QED
        BY <2>1, <2>2, <3>1, <3>2, LeftAppended
    <3>4. Len(Left) < Slots + 1
      BY <2>1, <2>2, <3>3 DEF Waiting
    <3>5. name \in {Fitting(n) : n \in Names \cup {NULL}}
      BY <2>1
    <3> HIDE DEF name, Left
    <3>6. QED
      BY <3>2, <3>3, <3>4, <3>5 DEF Stream!Accept, Left
  <2>5. ASSUME NEW c \in CPUs, Drop(c)
        PROVE  Stream!Lose
    <3>1. Total' = Total + 1
      BY <2>5, DropCounts DEF TypeOK
    <3>2. Shown' = Shown /\ UNCHANGED <<opened, lastShown>>
      BY <2>5 DEF Drop, Shown
    <3>3. QED
      BY <3>1, <3>2 DEF Stream!Lose
  <2>6. ASSUME PrintEvent
        PROVE  Stream!Show
    <3>1. Shown' = Shown + 1 /\ opened' = opened /\ Total' = Total
      BY <2>1, <2>6 DEF PrintEvent, Shown, Total
    <3>2. CString(lastShown') = opened[Shown + 1] /\ Shown + 1 <= Len(opened)
      BY <2>1, <2>2, <2>6, TrimmedText DEF PrintEvent, ReaderKept, TypeOK
    <3>3. /\ Left # <<>> /\ Head(Left) = opened[Shown + 1]
          /\ Tail(Left) = SubSeq(opened, Shown + 2, Len(opened))
      BY <2>1, <2>2, <3>2, LeftHead
    <3>4. Left' = Tail(Left)
      <4>1. Shown' + 1 = Shown + 2
        BY <2>2, <3>1
      <4>2. QED
        BY <3>1, <3>3, <4>1
    <3> HIDE DEF Left
    <3>5. QED
      BY <3>1, <3>2, <3>3, <3>4 DEF Stream!Show, Left
  <2>7. ASSUME NEW c \in CPUs, NEW n \in Names \cup {NULL}, Enter(c, n)
        PROVE  UNCHANGED <<Left, CString(lastShown), Shown, Total>>
    BY <2>3, <2>7 DEF Enter, Shown
  <2>8. ASSUME NEW c \in CPUs, ReserveFails(c) \/ Fill(c) \/ Submit(c)
        PROVE  UNCHANGED <<Left, CString(lastShown), Shown, Total>>
    BY <2>3, <2>8 DEF ReserveFails, Fill, Submit, Shown
  <2>9. ASSUME Wait \/ Take \/ Drained \/ Count
        PROVE  UNCHANGED <<Left, CString(lastShown), Shown, Total>>
    <3>1. Shown' = Shown
      <4>1. reader # "print" /\ (reader' = "print" => received' - 1 = received)
        BY <2>1, <2>9 DEF Wait, Take, Drained, Count
      <4>2. reader' # "print" => received' = received
        BY <2>9 DEF Wait, Take, Drained, Count
      <4>3. QED
        BY <4>1, <4>2 DEF Shown
    <3>2. UNCHANGED <<opened, lastShown, drop_count>>
      BY <2>9 DEF Wait, Take, Drained, Count
    <3>3. QED
      BY <2>3, <3>1, <3>2
  <2>10. ASSUME NEW p \in Printers, Stats(p) \/ PrintStats(p) \/ \E c \in CPUs : AddDrops(p, c)
         PROVE  UNCHANGED <<Left, CString(lastShown), Shown, Total>>
    BY <2>3, <2>10 DEF Stats, PrintStats, AddDrops, Shown
  <2>11. ASSUME Signal \/ CloseReader \/ Detach \/ Exit
         PROVE  UNCHANGED <<Left, CString(lastShown), Shown, Total>>
    BY <2>3, <2>11 DEF Signal, CloseReader, Detach, Exit, Shown
  <2>12. CASE UNCHANGED vars
    BY <2>3, <2>12 DEF vars, Shown
  <2>13. QED
    BY <2>4, <2>5, <2>6, <2>7, <2>8, <2>9, <2>10, <2>11, <2>12
       DEF Next, Program, Reader, Stream!Next
<1>3. QED
  BY <1>1, <1>2, Invariance, PTL DEF Spec, StreamInOrder, Stream!Spec

=============================================================================
