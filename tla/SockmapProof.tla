---------------------------- MODULE SockmapProof ----------------------------
(***************************************************************************)
(* For any ports, connections and CPUs, and bytes of any size: on a        *)
(* little-endian machine no socket is ever registered, on none does a      *)
(* message reach its sender's peer through the redirection, and the two    *)
(* totals that are shown are what redirect_msg has finished counting.      *)
(*                                                                         *)
(* The totals are folds over the CPUs.  What is needed of them is proved   *)
(* from the well-foundedness of strict inclusion: among the sets that      *)
(* would break a claim one is smallest.                                    *)
(***************************************************************************)
EXTENDS Sockmap, FiniteSetTheorems, TLAPS

----------------------------------------------------------------------------
(* Byte order.                                                             *)

LEMMA Products ==
  ASSUME NEW x \in Nat, NEW y \in Nat
  PROVE  x * y \in Nat /\ (x >= 1 => x * y >= y)
OBVIOUS

\* A word one of whose upper two bytes is not 0 is large.
LEMMA UpperBytes ==
  ASSUME NEW B \in Nat \ {0}, NEW a \in Nat, NEW b \in Nat, NEW c \in Nat, NEW d \in Nat,
         a >= 1 \/ b >= 1
  PROVE  a * B * B * B + b * B * B + c * B + d >= B * B
<1>1. a * B * B * B \in Nat /\ b * B * B \in Nat /\ c * B \in Nat /\ B * B \in Nat
  BY Products
<1>2. b >= 1 => b * B * B >= B * B
  <2>1. b >= 1 => b * B >= B /\ b * B \in Nat
    BY Products
  <2>2. b >= 1 => (b * B) * B >= B * B
    BY <2>1
  <2>3. QED
    BY <2>2
<1>3. a >= 1 => a * B * B * B >= B * B
  <2>1. a >= 1 => a * B >= 1 /\ a * B \in Nat
    BY Products
  <2>2. a >= 1 => (a * B) * B >= B /\ (a * B) * B \in Nat
    BY <2>1, Products
  <2>3. a >= 1 => ((a * B) * B) * B >= B * B
    BY <2>2
  <2>4. QED
    BY <2>3
<1>4. QED
  BY <1>1, <1>2, <1>3

\* A port has a byte that is not 0.
LEMMA PortBytes ==
  ASSUME NEW B \in Nat \ {0}, NEW n \in 1..(B * B - 1)
  PROVE  n % B >= 1 \/ (n \div B) % B >= 1
<1>1. n \div B \in Nat /\ n \div B < B /\ n % B \in Nat
  OBVIOUS
<1>2. (n \div B) % B = n \div B
  BY <1>1
<1>3. n \div B = 0 => n % B = n
  <2>1. n \div B = 0 => n < B
    OBVIOUS
  <2>2. n < B => n % B = n
    OBVIOUS
  <2>3. QED
    BY <2>1, <2>2
<1>4. QED
  BY <1>1, <1>2, <1>3

\* A port whose bytes are swapped as a word's is beyond every key of the map.
LEMMA SwappedPort ==
  ASSUME NEW n \in 1..(Base * Base - 1)
  PROVE  Swapped(n) >= Base * Base
<1> DEFINE byte(i) == (n \div i) % Base
<1>1. Base \in Nat \ {0}
  BY BaseAssumption
<1>2. byte(1) \in Nat /\ byte(Base) \in Nat
  BY <1>1
<1>3. byte(Base * Base) \in Nat /\ byte(Base * Base * Base) \in Nat
  BY <1>1
<1>4. byte(1) >= 1 \/ byte(Base) >= 1
  <2>1. n \div 1 = n
    OBVIOUS
  <2>2. QED
    BY <1>1, <2>1, PortBytes
<1>5. Swapped(n) = byte(1) * Base * Base * Base + byte(Base) * Base * Base
                     + byte(Base * Base) * Base + byte(Base * Base * Base)
  BY DEF Swapped
<1> HIDE DEF byte
<1>6. QED
  BY <1>1, <1>2, <1>3, <1>4, <1>5, UpperBytes

LEMMA KeyOutOfRange ==
  ASSUME littleEndian, NEW t \in Sockets
  PROVE  Key(t) \notin Keys
<1>1. Local[t] \in 1..(Base * Base - 1)
  BY PortAssumption
<1>2. Key(t) = Swapped(Local[t])
  BY DEF Key, bpf_ntohl
<1>3. Key(t) >= Base * Base
  BY <1>1, <1>2, SwappedPort
<1>4. Base * Base \in Nat
  BY BaseAssumption, Products
<1>5. QED
  BY <1>3, <1>4 DEF Keys, MaxEntries

----------------------------------------------------------------------------
(* Type correctness.                                                       *)

\* Every variable keeps its type; a send has its CPU until it has redirected, and then
\* a socket to send through (main.bpf.c:39-44).
THEOREM TypeCorrect == Spec => []TypeOK
<1>1. Init => TypeOK
  <2>1. Init => littleEndian \in BOOLEAN /\ preemptible \in BOOLEAN
    BY DEF Init
  <2>2. Init => /\ sock_ops_map \in [Keys -> Sockets \cup {NULL}]
                /\ metrics \in [CPUs -> Metrics] /\ received \in Metrics
                /\ size \in [Sockets -> Nat] /\ register \in [Sockets -> Nat]
                /\ arrived \in [Sockets -> SUBSET Sockets]
                /\ state \in [Sockets -> {"new", "established", "closed"}]
                /\ pc \in [Sockets -> {"idle", "messages", "bytes", "redirect", "send"}]
    BY DEF Init, Metrics, Zero
  <2>3. QED
    BY <2>1, <2>2 DEF Init, TypeOK
<1>2. TypeOK /\ [Next]_vars => TypeOK'
  <2> SUFFICES ASSUME TypeOK, [Next]_vars
               PROVE  TypeOK'
    OBVIOUS
  <2> USE DEF TypeOK
  <2>1. ASSUME NEW s \in Sockets, Establish(s)
        PROVE  TypeOK'
    <3>1. /\ sock_ops_map' \in [Keys -> Sockets \cup {NULL}]
          /\ verdict' \subseteq Sockets
      BY <2>1 DEF Establish, Register
    <3>2. state' \in [Sockets -> {"new", "established", "closed"}]
      BY <2>1 DEF Establish
    <3>3. QED
      BY <2>1, <3>1, <3>2 DEF Establish, machine, program
  <2>2. ASSUME NEW s \in Sockets, CloseSocket(s)
        PROVE  TypeOK'
    <3>1. /\ sock_ops_map' \in [Keys -> Sockets \cup {NULL}]
          /\ verdict' \subseteq Sockets
          /\ state' \in [Sockets -> {"new", "established", "closed"}]
      BY <2>2 DEF CloseSocket
    <3>2. QED
      BY <2>2, <3>1 DEF CloseSocket, machine, program
  <2>3. ASSUME NEW s \in Sockets, NEW c \in CPUs, NEW n \in Sizes, Send(s, c, n)
        PROVE  TypeOK'
    <3>1. n \in Nat /\ metrics[c].messages \in Nat
      BY SizeAssumption DEF Metrics
    <3>2. received' \in Metrics
      BY <2>3, <3>1 DEF Send, Metrics
    <3>3. size' \in [Sockets -> Nat] /\ register' \in [Sockets -> Nat]
      BY <2>3, <3>1 DEF Send
    <3>4. QED
      BY <2>3, <3>2, <3>3 DEF Send, machine, sockets
  <2>4. ASSUME NEW s \in Sockets, Store(s) \/ StoreBytes(s)
        PROVE  TypeOK'
    <3>1. cpu[s] \in CPUs /\ metrics[cpu[s]] \in Metrics
      BY <2>4 DEF Store, StoreBytes
    <3>2. metrics' \in [CPUs -> Metrics]
      BY <2>4, <3>1 DEF Store, StoreBytes, Metrics
    <3>3. size' \in [Sockets -> Nat] /\ register' \in [Sockets -> Nat]
      BY <2>4, <3>1 DEF Store, StoreBytes, Metrics
    <3>4. QED
      BY <2>4, <3>2, <3>3 DEF Store, StoreBytes, machine, sockets
  <2>5. ASSUME NEW s \in Sockets, Redirect(s)
        PROVE  TypeOK'
    <3>1. Found(s) \in Sockets \cup {NULL}
      BY DEF Found
    <3>2. /\ target' \in [Sockets -> Sockets \cup {NULL}]
          /\ pc' \in [Sockets -> {"idle", "messages", "bytes", "redirect", "send"}]
          /\ cpu' \in [Sockets -> CPUs \cup {NULL}]
          /\ register' \in [Sockets -> Nat]
      BY <2>5, <3>1 DEF Redirect
    <3>3. /\ \A t \in Sockets : pc'[t] \in {"messages", "bytes", "redirect"} => cpu'[t] \in CPUs
          /\ \A t \in Sockets : pc'[t] = "send" => target'[t] \in Sockets
      BY <2>5, <3>1 DEF Redirect
    <3>4. QED
      BY <2>5, <3>2, <3>3 DEF Redirect, machine, sockets
  <2>6. ASSUME NEW s \in Sockets, Deliver(s)
        PROVE  TypeOK'
    <3>1. arrived' \in [Sockets -> SUBSET Sockets]
      BY <2>6 DEF Deliver, Egress
    <3>2. QED
      BY <2>6, <3>1 DEF Deliver, machine, sockets
  <2>7. CASE AttachCgroup \/ AttachVerdict \/ Exit
    BY <2>7 DEF AttachCgroup, AttachVerdict, Exit, Main, machine, program
  <2>8. CASE UNCHANGED vars
    BY <2>8 DEF vars, machine, sockets, program
  <2>9. QED
    BY <2>1, <2>2, <2>3, <2>4, <2>5, <2>6, <2>7, <2>8 DEF Next
<1>3. QED
  BY <1>1, <1>2, PTL DEF Spec

----------------------------------------------------------------------------
(* Nothing happens on a little-endian machine.                             *)

\* No socket is registered, so that redirect_msg runs for none.
Inert ==
  littleEndian => /\ \A k \in Keys : sock_ops_map[k] = NULL
                  /\ verdict = {}
                  /\ \A s \in Sockets : pc[s] = "idle"
                  /\ \A c \in CPUs : metrics[c] = Zero

LEMMA InertStep == TypeOK /\ Inert /\ [Next]_vars => Inert'
<1> SUFFICES ASSUME TypeOK, Inert, [Next]_vars, littleEndian'
             PROVE  /\ \A k \in Keys : sock_ops_map'[k] = NULL
                    /\ verdict' = {}
                    /\ \A s \in Sockets : pc'[s] = "idle"
                    /\ \A c \in CPUs : metrics'[c] = Zero
  BY DEF Inert
<1>1. littleEndian
  BY DEF Next, AttachCgroup, AttachVerdict, Exit, Main, Establish, CloseSocket, Send, Store,
         StoreBytes, Redirect, Deliver, machine, vars
<1>2. /\ \A k \in Keys : sock_ops_map[k] = NULL
      /\ verdict = {}
      /\ \A s \in Sockets : pc[s] = "idle"
      /\ \A c \in CPUs : metrics[c] = Zero
  BY <1>1 DEF Inert
<1>3. ASSUME NEW s \in Sockets, Establish(s)
      PROVE  UNCHANGED <<sock_ops_map, verdict, program, metrics>>
  BY <1>1, <1>3, KeyOutOfRange DEF Establish, Register, program
<1>4. ASSUME NEW s \in Sockets, CloseSocket(s)
      PROVE  /\ \A k \in Keys : sock_ops_map'[k] = NULL
             /\ verdict' = {}
             /\ UNCHANGED <<program, metrics>>
  BY <1>2, <1>4 DEF CloseSocket
<1>5. ASSUME NEW s \in Sockets
      PROVE  /\ ~Store(s) /\ ~StoreBytes(s) /\ ~Redirect(s) /\ ~Deliver(s)
             /\ \A c \in CPUs, n \in Sizes : ~Send(s, c, n)
  BY <1>2 DEF Store, StoreBytes, Redirect, Deliver, Send
<1>6. ASSUME UNCHANGED <<sock_ops_map, verdict, program, metrics>>
      PROVE  /\ \A k \in Keys : sock_ops_map'[k] = NULL
             /\ verdict' = {}
             /\ \A s \in Sockets : pc'[s] = "idle"
             /\ \A c \in CPUs : metrics'[c] = Zero
  BY <1>2, <1>6 DEF program
<1>7. AttachCgroup \/ AttachVerdict \/ Exit => UNCHANGED <<sock_ops_map, verdict, program, metrics>>
  BY DEF AttachCgroup, AttachVerdict, Exit, Main
<1>8. UNCHANGED vars => UNCHANGED <<sock_ops_map, verdict, program, metrics>>
  BY DEF vars, sockets
<1>9. ASSUME NEW s \in Sockets, CloseSocket(s)
      PROVE  /\ \A t \in Sockets : pc'[t] = "idle"
             /\ \A c \in CPUs : metrics'[c] = Zero
  BY <1>2, <1>4, <1>9 DEF program
<1>10. QED
  BY <1>3, <1>4, <1>5, <1>6, <1>7, <1>8, <1>9 DEF Next

LEMMA InertAlways == Spec => []Inert
<1>1. Init => Inert
  BY DEF Init, Inert
<1>2. QED
  BY <1>1, InertStep, TypeCorrect, PTL DEF Spec

\* On a little-endian machine bpf_ntohl takes the port, which is in host order already,
\* out of the map (main.bpf.c:27): no socket is registered, no message counted.
THEOREM LittleEndianIsInert == Spec => []LittleEndianInert
<1>1. Inert => LittleEndianInert
  BY DEF Inert, LittleEndianInert
<1>2. QED
  BY <1>1, InertAlways, PTL

----------------------------------------------------------------------------
(* Where messages go.                                                      *)

\* A socket is registered under its port, and found under its sender's remote port.
Registered ==
  /\ \A k \in Keys : sock_ops_map[k] # NULL => Key(sock_ops_map[k]) = k
  /\ \A s \in Sockets : pc[s] = "send" => Local[target[s]] = Local[Peer[s]]
  /\ NotForwarded

LEMMA RegisteredStep == TypeOK /\ Inert /\ Registered /\ [Next]_vars => Registered'
<1> SUFFICES ASSUME TypeOK, Inert, Registered, [Next]_vars
             PROVE  Registered'
  OBVIOUS
<1> USE DEF TypeOK
<1>1. littleEndian' = littleEndian /\ \A s : Key(s)' = Key(s)
  <2>1. littleEndian' = littleEndian
    BY DEF Next, AttachCgroup, AttachVerdict, Exit, Main, Establish, CloseSocket, Send, Store,
           StoreBytes, Redirect, Deliver, machine, vars
  <2>2. QED
    BY <2>1 DEF Key, bpf_ntohl
<1>2. ASSUME NEW s \in Sockets, Establish(s)
      PROVE  Registered'
  <2>1. \A k \in Keys : sock_ops_map'[k] # NULL =>
          sock_ops_map'[k] = sock_ops_map[k] \/ (k = Key(s) /\ sock_ops_map'[k] = s)
    BY <1>2 DEF Establish, Register
  <2>2. \A k \in Keys : sock_ops_map'[k] # NULL => Key(sock_ops_map'[k]) = k
    BY <2>1 DEF Registered
  <2>3. UNCHANGED <<pc, target, arrived>>
    BY <1>2 DEF Establish, program
  <2>4. QED
    BY <1>1, <2>2, <2>3 DEF Registered, NotForwarded, Key, bpf_ntohl
<1>3. ASSUME NEW s \in Sockets, CloseSocket(s)
      PROVE  Registered'
  BY <1>1, <1>3 DEF CloseSocket, program, Registered, NotForwarded, Key, bpf_ntohl
<1>4. ASSUME NEW s \in Sockets,
             Store(s) \/ StoreBytes(s) \/ \E c \in CPUs, n \in Sizes : Send(s, c, n)
      PROVE  Registered'
  BY <1>1, <1>4 DEF Store, StoreBytes, Send, sockets, Registered, NotForwarded, Key, bpf_ntohl
<1>5. ASSUME NEW s \in Sockets, Redirect(s)
      PROVE  Registered'
  <2>1. ~littleEndian
    BY <1>5 DEF Redirect, Inert
  <2>2. Found(s) # NULL => Local[Found(s)] = Local[Peer[s]]
    BY <2>1, PeerAssumption DEF Found, dest_key, remote_port, bpf_ntohl, Registered, Key
  <2>3. \A t \in Sockets : pc'[t] = "send" => Local[target'[t]] = Local[Peer[t]]
    BY <1>5, <2>2 DEF Redirect, Registered
  <2>4. UNCHANGED <<sock_ops_map, arrived>>
    BY <1>5 DEF Redirect, sockets
  <2>5. QED
    BY <1>1, <2>3, <2>4 DEF Registered, NotForwarded, Key, bpf_ntohl
<1>6. ASSUME NEW s \in Sockets, Deliver(s)
      PROVE  Registered'
  <2>1. Local[target[s]] = Local[Peer[s]] /\ target[s] \in Sockets
    BY <1>6 DEF Deliver, Registered
  <2>2. Peer[target[s]] = Peer[s] => target[s] = s
    BY <2>1, PeerAssumption
  <2>3. NotForwarded'
    BY <1>6, <2>1, <2>2, PeerAssumption DEF Deliver, Egress, Registered, NotForwarded
  <2>4. \A t \in Sockets : pc'[t] = "send" => Local[target'[t]] = Local[Peer[t]]
    BY <1>6 DEF Deliver, Registered
  <2>5. sock_ops_map' = sock_ops_map
    BY <1>6 DEF Deliver, sockets
  <2>6. QED
    BY <1>1, <2>3, <2>4, <2>5 DEF Registered, Key, bpf_ntohl
<1>7. CASE AttachCgroup \/ AttachVerdict \/ Exit
  <2>1. UNCHANGED <<sock_ops_map, pc, target, arrived>>
    BY <1>7 DEF AttachCgroup, AttachVerdict, Exit, Main, program
  <2>2. QED
    BY <1>1, <2>1 DEF Registered, NotForwarded, Key, bpf_ntohl
<1>8. CASE UNCHANGED vars
  <2>1. UNCHANGED <<sock_ops_map, pc, target, arrived>>
    BY <1>8 DEF vars, program, sockets
  <2>2. QED
    BY <1>1, <2>1 DEF Registered, NotForwarded, Key, bpf_ntohl
<1>9. QED
  BY <1>2, <1>3, <1>4, <1>5, <1>6, <1>7, <1>8 DEF Next

\* The socket that is found has the sender's remote port as its own, and the message goes
\* out through it (main.bpf.c:44), so that it would reach the sender's peer only if the
\* sender itself had been found.
THEOREM NeverForwarded == Spec => []NotForwarded
<1>1. Init => Registered
  BY PeerAssumption DEF Init, Registered, NotForwarded
<1>2. Registered => NotForwarded
  BY DEF Registered
<1>3. QED
  BY <1>1, <1>2, RegisteredStep, InertAlways, TypeCorrect, PTL DEF Spec

----------------------------------------------------------------------------
(* Sums.                                                                   *)

\* The element a fold takes out of a set first, and the function it iterates.
Pick(T) == CHOOSE x \in T : TRUE
Iterates(g, f, S) ==
  g = [T \in SUBSET S |-> IF T = {} THEN 0 ELSE f[Pick(T)] + g[T \ {Pick(T)}]]

\* Among sets of a finite set's elements there is one none of the others is part of.
LEMMA Smallest ==
  ASSUME NEW S, IsFiniteSet(S), NEW Bad, Bad \subseteq SUBSET S, Bad # {}
  PROVE  \E T \in Bad : \A U \in Bad : U \subseteq T => U = T
<1>1. Bad \subseteq FiniteSubsetsOf(S)
  BY FS_Subset DEF FiniteSubsetsOf
<1>2. PICK T \in Bad : \A U \in Bad : <<U, T>> \notin StrictSubsetOrdering(S)
  BY <1>1, FS_StrictSubsetOrderingWellFounded, WFMin
<1>3. QED
  BY <1>1, <1>2 DEF StrictSubsetOrdering

\* The iteration is the same function from whichever set it starts.
LEMMA IterateUnique ==
  ASSUME NEW f, NEW S, NEW T, IsFiniteSet(S), NEW g, NEW h,
         Iterates(g, f, S), Iterates(h, f, T)
  PROVE  \A U \in SUBSET S : U \subseteq T => g[U] = h[U]
<1> DEFINE Bad == {U \in SUBSET S : U \subseteq T /\ g[U] # h[U]}
<1>1. SUFFICES ASSUME Bad # {} PROVE FALSE
  OBVIOUS
<1>2. PICK U \in Bad : \A V \in Bad : V \subseteq U => V = U
  <2>1. Bad \subseteq SUBSET S
    OBVIOUS
  <2> HIDE DEF Bad
  <2>2. QED
    BY <1>1, <2>1, Smallest
<1>3. U # {}
  BY DEF Iterates
<1>4. Pick(U) \in U
  BY <1>3 DEF Pick
<1>5. g[U \ {Pick(U)}] = h[U \ {Pick(U)}]
  BY <1>2, <1>4
<1>6. g[U] = f[Pick(U)] + g[U \ {Pick(U)}] /\ h[U] = f[Pick(U)] + h[U \ {Pick(U)}]
  BY <1>3 DEF Iterates
<1>7. QED
  BY <1>5, <1>6

\* The iteration is a function.
LEMMA IterateExists ==
  ASSUME NEW f, NEW S, IsFiniteSet(S)
  PROVE  \E g : Iterates(g, f, S)
<1> DEFINE Bad == {U \in SUBSET S : ~\E g : Iterates(g, f, U)}
<1>1. SUFFICES ASSUME Bad # {} PROVE FALSE
  OBVIOUS
<1>2. PICK U \in Bad : \A V \in Bad : V \subseteq U => V = U
  <2>1. Bad \subseteq SUBSET S
    OBVIOUS
  <2> HIDE DEF Bad
  <2>2. QED
    BY <1>1, <2>1, Smallest
<1> DEFINE G(V) == CHOOSE g : Iterates(g, f, V)
           h == [V \in SUBSET U |-> IF V = {} THEN 0
                                    ELSE f[Pick(V)] + G(V \ {Pick(V)})[V \ {Pick(V)}]]
<1>3. ASSUME NEW V \in SUBSET U, V # U
      PROVE  Iterates(G(V), f, V)
  BY <1>2, <1>3
<1>4. ASSUME NEW V \in SUBSET U, V # U
      PROVE  h[V] = G(V)[V]
  <2>1. CASE V = {}
    <3>1. Iterates(G(V), f, V) /\ h[V] = 0
      BY <1>3, <1>4, <2>1
    <3> HIDE DEF G, h
    <3>2. G(V)[V] = 0
      BY <2>1, <3>1 DEF Iterates
    <3>3. QED
      BY <3>1, <3>2
  <2>2. CASE V # {}
    <3>1. Pick(V) \in V
      BY <2>2 DEF Pick
    <3>2. V \ {Pick(V)} \in SUBSET U /\ V \ {Pick(V)} # U /\ IsFiniteSet(V)
      BY <3>1, <1>4, FS_Subset
    <3>3. Iterates(G(V), f, V) /\ Iterates(G(V \ {Pick(V)}), f, V \ {Pick(V)})
      BY <3>2, <1>3, <1>4
    <3>4. G(V)[V \ {Pick(V)}] = G(V \ {Pick(V)})[V \ {Pick(V)}]
      BY <3>2, <3>3, IterateUnique
    <3>5. G(V)[V] = f[Pick(V)] + G(V)[V \ {Pick(V)}]
      BY <2>2, <3>3 DEF Iterates
    <3>6. QED
      BY <2>2, <3>4, <3>5
  <2>3. QED
    BY <2>1, <2>2
<1>5. ASSUME NEW V \in SUBSET U, V # {}
      PROVE  h[V] = f[Pick(V)] + h[V \ {Pick(V)}]
  <2>1. Pick(V) \in V
    BY <1>5 DEF Pick
  <2>2. h[V \ {Pick(V)}] = G(V \ {Pick(V)})[V \ {Pick(V)}]
    BY <2>1, <1>4
  <2>3. QED
    BY <2>2, <1>5
<1>6. h = [V \in SUBSET U |-> h[V]] /\ h[{}] = 0
  OBVIOUS
<1> HIDE DEF h
<1>7. Iterates(h, f, U)
  BY <1>5, <1>6 DEF Iterates
<1>8. QED
  BY <1>7

\* A sum is one of its values and the sum of the others.
LEMMA SumUnfold ==
  ASSUME NEW f, NEW S, IsFiniteSet(S)
  PROVE  SumFunctionOnSet(f, S) =
           IF S = {} THEN 0 ELSE f[Pick(S)] + SumFunctionOnSet(f, S \ {Pick(S)})
<1> DEFINE G(V) == CHOOSE g : Iterates(g, f, V)
<1>1. \A V : SumFunctionOnSet(f, V) = G(V)[V]
  BY DEF SumFunctionOnSet, FoldFunctionOnSet, MapThenFoldSet, Iterates, Pick
<1>2. IsFiniteSet(S \ {Pick(S)})
  BY FS_Subset
<1>3. Iterates(G(S), f, S) /\ Iterates(G(S \ {Pick(S)}), f, S \ {Pick(S)})
  BY <1>2, IterateExists
<1> HIDE DEF G
<1>4. CASE S = {}
  <2>1. G(S)[S] = 0
    BY <1>3, <1>4 DEF Iterates
  <2>2. QED
    BY <1>1, <1>4, <2>1
<1>5. CASE S # {}
  <2>1. G(S)[S] = f[Pick(S)] + G(S)[S \ {Pick(S)}]
    BY <1>3, <1>5 DEF Iterates
  <2>2. G(S)[S \ {Pick(S)}] = G(S \ {Pick(S)})[S \ {Pick(S)}]
    BY <1>3, IterateUnique
  <2>3. QED
    BY <1>1, <1>5, <2>1, <2>2
<1>6. QED
  BY <1>4, <1>5

\* A sum of naturals is one, and any of them can be taken out of it first.
LEMMA SumRemove ==
  ASSUME NEW S, IsFiniteSet(S), NEW f, \A x \in S : f[x] \in Nat
  PROVE  /\ SumFunctionOnSet(f, S) \in Nat
         /\ \A y \in S : SumFunctionOnSet(f, S) = f[y] + SumFunctionOnSet(f, S \ {y})
<1> DEFINE Sum(T) == SumFunctionOnSet(f, T)
           Good(T) == Sum(T) \in Nat /\ \A y \in T : Sum(T) = f[y] + Sum(T \ {y})
           Bad == {T \in SUBSET S : ~Good(T)}
<1>1. SUFFICES ASSUME Bad # {} PROVE FALSE
  OBVIOUS
<1>2. PICK T \in Bad : \A U \in Bad : U \subseteq T => U = T
  <2>1. Bad \subseteq SUBSET S
    OBVIOUS
  <2> HIDE DEF Bad
  <2>2. QED
    BY <1>1, <2>1, Smallest
<1> DEFINE p == Pick(T)
<1>3. \A U \in SUBSET S : Sum(U) = IF U = {} THEN 0 ELSE f[Pick(U)] + Sum(U \ {Pick(U)})
  BY SumUnfold, FS_Subset
<1>4. \A U \in SUBSET T : U # T => Good(U)
  BY <1>2
<1> HIDE DEF Sum
<1>5. CASE T = {}
  <2>1. Sum(T) = 0
    BY <1>3, <1>5
  <2>2. QED
    BY <1>5, <2>1
<1>6. CASE T # {}
  <2>1. p \in T
    BY <1>6 DEF Pick
  <2>2. Sum(T) = f[p] + Sum(T \ {p}) /\ Good(T \ {p})
    BY <1>3, <1>4, <1>6, <2>1
  <2>3. Sum(T) \in Nat
    BY <2>1, <2>2
  <2>4. ASSUME NEW y \in T, y # p
        PROVE  Sum(T) = f[y] + Sum(T \ {y})
    <3>1. Sum(T \ {p}) = f[y] + Sum((T \ {p}) \ {y})
      BY <2>2, <2>4
    <3>2. Good(T \ {y}) /\ p \in T \ {y}
      BY <1>4, <2>1, <2>4
    <3>3. Sum(T \ {y}) = f[p] + Sum((T \ {y}) \ {p})
      BY <3>2
    <3>4. (T \ {p}) \ {y} = (T \ {y}) \ {p}
      OBVIOUS
    <3>5. Good((T \ {y}) \ {p})
      BY <1>4, <2>1
    <3>6. f[p] \in Nat /\ f[y] \in Nat
      BY <2>1
    <3>7. QED
      BY <2>2, <3>1, <3>3, <3>4, <3>5, <3>6
  <2>5. QED
    BY <1>2, <2>2, <2>3, <2>4
<1>7. QED
  BY <1>5, <1>6

\* A sum depends on the summed values only.
LEMMA SumAgree ==
  ASSUME NEW S, IsFiniteSet(S), NEW f, NEW g, \A x \in S : f[x] = g[x]
  PROVE  SumFunctionOnSet(f, S) = SumFunctionOnSet(g, S)
<1> DEFINE Bad == {T \in SUBSET S : SumFunctionOnSet(f, T) # SumFunctionOnSet(g, T)}
<1>1. SUFFICES ASSUME Bad # {} PROVE FALSE
  OBVIOUS
<1>2. PICK T \in Bad : \A U \in Bad : U \subseteq T => U = T
  <2>1. Bad \subseteq SUBSET S
    OBVIOUS
  <2> HIDE DEF Bad
  <2>2. QED
    BY <1>1, <2>1, Smallest
<1>3. IsFiniteSet(T)
  BY FS_Subset
<1>4. T # {}
  BY <1>3, SumUnfold
<1>5. Pick(T) \in T
  BY <1>4 DEF Pick
<1>6. SumFunctionOnSet(f, T \ {Pick(T)}) = SumFunctionOnSet(g, T \ {Pick(T)})
  BY <1>2, <1>5
<1>7. QED
  BY <1>3, <1>4, <1>5, <1>6, SumUnfold

\* Changing one of the summed values changes the sum as much.
LEMMA SumChange ==
  ASSUME NEW S, IsFiniteSet(S), NEW f, NEW g, NEW y,
         \A x \in S : f[x] \in Nat /\ g[x] \in Nat /\ (x # y => g[x] = f[x])
  PROVE  SumFunctionOnSet(g, S) = SumFunctionOnSet(f, S) + (IF y \in S THEN g[y] - f[y] ELSE 0)
<1>1. CASE y \in S
  <2>1. IsFiniteSet(S \ {y})
    BY FS_Subset
  <2>2. SumFunctionOnSet(f, S) = f[y] + SumFunctionOnSet(f, S \ {y})
    BY <1>1, SumRemove
  <2>3. SumFunctionOnSet(g, S) = g[y] + SumFunctionOnSet(g, S \ {y})
    BY <1>1, SumRemove
  <2>4. SumFunctionOnSet(g, S \ {y}) = SumFunctionOnSet(f, S \ {y})
    BY <2>1, SumAgree
  <2>5. SumFunctionOnSet(f, S \ {y}) \in Nat /\ f[y] \in Nat /\ g[y] \in Nat
    BY <1>1, <2>1, SumRemove
  <2>6. QED
    BY <1>1, <2>2, <2>3, <2>4, <2>5
<1>2. CASE y \notin S
  <2>1. SumFunctionOnSet(g, S) = SumFunctionOnSet(f, S)
    BY <1>2, SumAgree
  <2>2. SumFunctionOnSet(f, S) \in Nat
    BY SumRemove
  <2>3. QED
    BY <1>2, <2>1, <2>2
<1>3. QED
  BY <1>1, <1>2

\* A sum of zeros is zero.
LEMMA SumZero ==
  ASSUME NEW S, IsFiniteSet(S), NEW f, \A x \in S : f[x] = 0
  PROVE  SumFunctionOnSet(f, S) = 0
<1> DEFINE Bad == {T \in SUBSET S : SumFunctionOnSet(f, T) # 0}
<1>1. SUFFICES ASSUME Bad # {} PROVE FALSE
  OBVIOUS
<1>2. PICK T \in Bad : \A U \in Bad : U \subseteq T => U = T
  <2>1. Bad \subseteq SUBSET S
    OBVIOUS
  <2> HIDE DEF Bad
  <2>2. QED
    BY <1>1, <2>1, Smallest
<1>3. IsFiniteSet(T)
  BY FS_Subset
<1>4. T # {}
  BY <1>3, SumUnfold
<1>5. Pick(T) \in T
  BY <1>4 DEF Pick
<1>6. SumFunctionOnSet(f, T \ {Pick(T)}) = 0
  BY <1>2, <1>5
<1>7. QED
  BY <1>3, <1>4, <1>5, <1>6, SumUnfold

\* A sum of smaller values is smaller.
LEMMA SumMonotone ==
  ASSUME NEW S, IsFiniteSet(S), NEW f, NEW g,
         \A x \in S : f[x] \in Nat /\ g[x] \in Nat /\ f[x] <= g[x]
  PROVE  SumFunctionOnSet(f, S) <= SumFunctionOnSet(g, S)
<1> DEFINE Bad == {T \in SUBSET S : ~(SumFunctionOnSet(f, T) <= SumFunctionOnSet(g, T))}
<1>1. SUFFICES ASSUME Bad # {} PROVE FALSE
  OBVIOUS
<1>2. PICK T \in Bad : \A U \in Bad : U \subseteq T => U = T
  <2>1. Bad \subseteq SUBSET S
    OBVIOUS
  <2> HIDE DEF Bad
  <2>2. QED
    BY <1>1, <2>1, Smallest
<1>3. IsFiniteSet(T)
  BY FS_Subset
<1>4. T # {}
  <2>1. T = {} => SumFunctionOnSet(f, T) = 0 /\ SumFunctionOnSet(g, T) = 0
    BY <1>3, SumUnfold
  <2>2. QED
    BY <2>1
<1>5. PICK y \in T : TRUE
  BY <1>4
<1>6. SumFunctionOnSet(f, T \ {y}) <= SumFunctionOnSet(g, T \ {y})
  BY <1>2
<1>7. /\ SumFunctionOnSet(f, T) = f[y] + SumFunctionOnSet(f, T \ {y})
      /\ SumFunctionOnSet(g, T) = g[y] + SumFunctionOnSet(g, T \ {y})
  BY <1>3, SumRemove
<1>8. IsFiniteSet(T \ {y})
  BY <1>3, FS_Subset
<1>9. SumFunctionOnSet(f, T \ {y}) \in Nat /\ SumFunctionOnSet(g, T \ {y}) \in Nat
  BY <1>8, SumRemove
<1>10. QED
  BY <1>6, <1>7, <1>9

----------------------------------------------------------------------------
(* The two counters.                                                       *)

\* A send that counts has a CPU, and without preemption no other send has it: what it
\* loaded is what is there.
Exclusive ==
  /\ \A s \in Sockets : pc[s] \in {"idle", "send"} => cpu[s] = NULL
  /\ ~preemptible =>
       /\ \A s, t \in Sockets : cpu[s] = cpu[t] /\ cpu[s] # NULL => s = t
       /\ \A s \in Sockets : pc[s] = "messages" => register[s] = metrics[cpu[s]].messages
       /\ \A s \in Sockets : pc[s] = "bytes" => register[s] = metrics[cpu[s]].bytes

\* With preemption a store can take a counter back to what was loaded long before, and
\* a later store can take it up again.  u[c] is the largest the counter of c was.
MessagesBelow(u) ==
  /\ \A c \in CPUs : metrics[c].messages <= u[c]
  /\ \A s \in Sockets : pc[s] = "messages" => register[s] <= u[cpu[s]]
  /\ SumFunctionOnSet(u, CPUs) <= Counted.messages

BytesBelow(u) ==
  /\ \A c \in CPUs : metrics[c].bytes <= u[c]
  /\ \A s \in Sockets : pc[s] = "bytes" => register[s] <= u[cpu[s]]
  /\ SumFunctionOnSet(u, CPUs) <= Counted.bytes

Below == (\E u \in [CPUs -> Nat] : MessagesBelow(u)) /\ (\E u \in [CPUs -> Nat] : BytesBelow(u))

Exact == ~preemptible => Shown("messages") = Counted.messages /\ Shown("bytes") = Counted.bytes

LEMMA ExclusiveStep == TypeOK /\ Exclusive /\ [Next]_vars => Exclusive'
<1> SUFFICES ASSUME TypeOK, Exclusive, [Next]_vars
             PROVE  Exclusive'
  OBVIOUS
<1> USE NullAssumption DEF Exclusive, TypeOK
<1>1. ASSUME NEW s \in Sockets, NEW c \in CPUs, NEW n \in Sizes, Send(s, c, n)
      PROVE  Exclusive'
  <2>1. /\ pc' = [pc EXCEPT ![s] = "messages"] /\ cpu' = [cpu EXCEPT ![s] = c]
        /\ register' = [register EXCEPT ![s] = metrics[c].messages]
        /\ UNCHANGED <<metrics, preemptible>>
        /\ preemptible \/ \A t \in Sockets : cpu[t] # c
    BY <1>1 DEF Send, MayRun, machine
  <2>2. QED
    BY <2>1
<1>2. ASSUME NEW s \in Sockets, Store(s)
      PROVE  Exclusive'
  <2>1. /\ pc' = [pc EXCEPT ![s] = "bytes"] /\ UNCHANGED <<cpu, preemptible>>
        /\ register' = [register EXCEPT ![s] = metrics[cpu[s]].bytes]
        /\ metrics' = [metrics EXCEPT ![cpu[s]].messages = register[s] + 1]
        /\ pc[s] = "messages" /\ cpu[s] \in CPUs
    BY <1>2 DEF Store, machine
  <2>2. /\ \A c \in CPUs : metrics'[c].bytes = metrics[c].bytes
        /\ \A c \in CPUs \ {cpu[s]} : metrics'[c] = metrics[c]
    BY <2>1 DEF Metrics
  <2>3. QED
    BY <2>1, <2>2
<1>3. ASSUME NEW s \in Sockets, StoreBytes(s)
      PROVE  Exclusive'
  <2>1. /\ pc' = [pc EXCEPT ![s] = "redirect"] /\ UNCHANGED <<cpu, register, preemptible>>
        /\ metrics' = [metrics EXCEPT ![cpu[s]].bytes = register[s] + size[s]]
        /\ pc[s] = "bytes" /\ cpu[s] \in CPUs
    BY <1>3 DEF StoreBytes, machine
  <2>2. \A c \in CPUs \ {cpu[s]} : metrics'[c] = metrics[c]
    BY <2>1 DEF Metrics
  <2>3. QED
    BY <2>1, <2>2
<1>4. ASSUME NEW s \in Sockets, Redirect(s)
      PROVE  Exclusive'
  BY <1>4 DEF Redirect, machine
<1>5. ASSUME NEW s \in Sockets, Deliver(s)
      PROVE  Exclusive'
  BY <1>5 DEF Deliver, machine
<1>6. ASSUME NEW s \in Sockets, Establish(s) \/ CloseSocket(s)
      PROVE  Exclusive'
  BY <1>6 DEF Establish, CloseSocket, machine, program
<1>7. CASE AttachCgroup \/ AttachVerdict \/ Exit
  BY <1>7 DEF AttachCgroup, AttachVerdict, Exit, Main, machine, program
<1>8. CASE UNCHANGED vars
  BY <1>8 DEF vars, machine, program
<1>9. QED
  BY <1>1, <1>2, <1>3, <1>4, <1>5, <1>6, <1>7, <1>8 DEF Next

\* The sockets whose send has not yet counted its message, or its bytes.
LEMMA Uncounted ==
  ASSUME TypeOK, NEW S
  PROVE  /\ At(S) \subseteq Sockets /\ IsFiniteSet(At(S)) /\ Cardinality(At(S)) \in Nat
         /\ SumFunctionOnSet(size, At(S)) \in Nat
<1>1. At(S) \subseteq Sockets
  BY DEF At
<1>2. IsFiniteSet(At(S))
  BY <1>1, FiniteAssumption, FS_Subset
<1>3. \A s \in At(S) : size[s] \in Nat
  BY <1>1 DEF TypeOK
<1>4. QED
  BY <1>1, <1>2, <1>3, FS_CardinalityType, SumRemove

\* A send that begins owes what it adds to what was received,
LEMMA CountedSend ==
  ASSUME TypeOK, TypeOK', NEW s \in Sockets, NEW c \in CPUs, NEW n \in Sizes, Send(s, c, n)
  PROVE  Counted' = Counted
<1> DEFINE M == {t \in Sockets : pc'[t] \in {"messages"}}
           B == {t \in Sockets : pc'[t] \in {"messages", "bytes"}}
<1>1. /\ M = At({"messages"}) \cup {s} /\ s \notin At({"messages"})
      /\ B = At({"messages", "bytes"}) \cup {s} /\ s \notin At({"messages", "bytes"})
  BY DEF Send, At, TypeOK
<1>2. /\ received'.messages = received.messages + 1 /\ received'.bytes = received.bytes + n
      /\ received.messages \in Nat /\ received.bytes \in Nat /\ n \in Nat
  BY SizeAssumption DEF Send, TypeOK, Metrics
<1>3. Cardinality(M) = Cardinality(At({"messages"})) + 1
  BY <1>1, Uncounted, FS_AddElement
<1>4. SumFunctionOnSet(size', B) = n + SumFunctionOnSet(size, At({"messages", "bytes"}))
  <2>1. B \subseteq Sockets /\ IsFiniteSet(B) /\ s \in B /\ B \ {s} = At({"messages", "bytes"})
    BY <1>1, FiniteAssumption, FS_Subset
  <2>2. size'[s] = n /\ (\A t \in B : size'[t] \in Nat) /\ \A t \in B \ {s} : size'[t] = size[t]
    BY <2>1 DEF Send, TypeOK
  <2> HIDE DEF B
  <2>3. SumFunctionOnSet(size', B) = size'[s] + SumFunctionOnSet(size', B \ {s})
    BY <2>1, <2>2, SumRemove
  <2>4. SumFunctionOnSet(size', B \ {s}) = SumFunctionOnSet(size, B \ {s})
    BY <2>1, <2>2, FS_Subset, SumAgree
  <2>5. QED
    BY <2>1, <2>2, <2>3, <2>4
<1>5. /\ received'.messages - Cardinality(M) = received.messages - Cardinality(At({"messages"}))
      /\ received'.bytes - SumFunctionOnSet(size', B)
           = received.bytes - SumFunctionOnSet(size, At({"messages", "bytes"}))
  <2> HIDE DEF M, B
  <2>1. QED
    BY <1>2, <1>3, <1>4, Uncounted
<1>6. M = At({"messages"})' /\ B = At({"messages", "bytes"})'
  BY DEF At
<1>7. QED
  BY <1>5, <1>6 DEF Counted

\* the first store pays its message,
LEMMA CountedStore ==
  ASSUME TypeOK, TypeOK', NEW s \in Sockets, Store(s)
  PROVE  Counted'.messages = Counted.messages + 1 /\ Counted'.bytes = Counted.bytes
<1> DEFINE M == {t \in Sockets : pc'[t] \in {"messages"}}
           B == {t \in Sockets : pc'[t] \in {"messages", "bytes"}}
<1>1. /\ M = At({"messages"}) \ {s} /\ s \in At({"messages"})
      /\ B = At({"messages", "bytes"})
  BY DEF Store, At, TypeOK
<1>2. received' = received /\ size' = size /\ received.messages \in Nat
  BY DEF Store, TypeOK, Metrics
<1>3. Cardinality(M) = Cardinality(At({"messages"})) - 1
  BY <1>1, Uncounted, FS_RemoveElement
<1>4. received'.messages - Cardinality(M) = received.messages - Cardinality(At({"messages"})) + 1
  <2> HIDE DEF M
  <2>1. QED
    BY <1>2, <1>3, Uncounted
<1>5. M = At({"messages"})' /\ B = At({"messages", "bytes"})'
  BY DEF At
<1>6. QED
  BY <1>1, <1>2, <1>4, <1>5 DEF Counted

\* and the second its bytes.
LEMMA CountedStoreBytes ==
  ASSUME TypeOK, TypeOK', NEW s \in Sockets, StoreBytes(s)
  PROVE  Counted'.messages = Counted.messages /\ Counted'.bytes = Counted.bytes + size[s]
<1> DEFINE M == {t \in Sockets : pc'[t] \in {"messages"}}
           B == {t \in Sockets : pc'[t] \in {"messages", "bytes"}}
           A == At({"messages", "bytes"})
<1>1. M = At({"messages"}) /\ B = A \ {s} /\ s \in A
  BY DEF StoreBytes, At, TypeOK
<1>2. received' = received /\ received.bytes \in Nat /\ size[s] \in Nat
  BY DEF StoreBytes, TypeOK, Metrics
<1>3. SumFunctionOnSet(size, A) = size[s] + SumFunctionOnSet(size', B)
  <2>1. A \subseteq Sockets /\ IsFiniteSet(A) /\ IsFiniteSet(B)
    BY <1>1, Uncounted, FS_Subset
  <2>2. (\A t \in A : size[t] \in Nat) /\ \A t \in B : size'[t] = size[t]
    BY <1>1, <2>1 DEF StoreBytes, TypeOK
  <2> HIDE DEF A, B
  <2>3. SumFunctionOnSet(size, A) = size[s] + SumFunctionOnSet(size, A \ {s})
    BY <1>1, <2>1, <2>2, SumRemove
  <2>4. SumFunctionOnSet(size', B) = SumFunctionOnSet(size, B)
    BY <2>1, <2>2, SumAgree
  <2>5. QED
    BY <1>1, <2>3, <2>4
<1>4. SumFunctionOnSet(size', B) \in Nat
  <2>1. B \subseteq Sockets /\ IsFiniteSet(B)
    BY FiniteAssumption, FS_Subset
  <2>2. \A t \in B : size'[t] \in Nat
    BY <2>1 DEF TypeOK
  <2> HIDE DEF B
  <2>3. QED
    BY <2>1, <2>2, SumRemove
<1>5. received'.bytes - SumFunctionOnSet(size', B)
        = received.bytes - SumFunctionOnSet(size, A) + size[s]
  <2> HIDE DEF A, B
  <2>1. QED
    BY <1>2, <1>3, <1>4
<1>6. M = At({"messages"})' /\ B = At({"messages", "bytes"})'
  BY DEF At
<1>7. QED
  BY <1>1, <1>2, <1>5, <1>6 DEF Counted

\* Every other step leaves both as they are.
LEMMA CountedKept ==
  ASSUME TypeOK, [Next]_vars,
         ~\E s \in Sockets : \/ Store(s) \/ StoreBytes(s)
                             \/ \E c \in CPUs, n \in Sizes : Send(s, c, n)
  PROVE  /\ Counted' = Counted /\ metrics' = metrics
         /\ \A s \in Sockets : pc'[s] \in {"messages", "bytes"}
              => pc'[s] = pc[s] /\ register'[s] = register[s] /\ cpu'[s] = cpu[s]
<1>1. SUFFICES /\ received' = received /\ size' = size /\ metrics' = metrics
               /\ \A s \in Sockets :
                    \/ pc'[s] = pc[s] /\ register'[s] = register[s] /\ cpu'[s] = cpu[s]
                    \/ pc[s] \in {"redirect", "send"} /\ pc'[s] \in {"idle", "send"}
  <2>1. At({"messages"})' = At({"messages"})
    BY <1>1 DEF At
  <2>2. At({"messages", "bytes"})' = At({"messages", "bytes"})
    BY <1>1 DEF At
  <2>3. QED
    BY <1>1, <2>1, <2>2 DEF Counted
<1>2. ASSUME NEW s \in Sockets, Redirect(s)
      PROVE  /\ received' = received /\ size' = size /\ metrics' = metrics
             /\ \A t \in Sockets :
                  \/ pc'[t] = pc[t] /\ register'[t] = register[t] /\ cpu'[t] = cpu[t]
                  \/ pc[t] \in {"redirect", "send"} /\ pc'[t] \in {"idle", "send"}
  BY <1>2 DEF Redirect, TypeOK
<1>3. ASSUME NEW s \in Sockets, Deliver(s)
      PROVE  /\ received' = received /\ size' = size /\ metrics' = metrics
             /\ \A t \in Sockets :
                  \/ pc'[t] = pc[t] /\ register'[t] = register[t] /\ cpu'[t] = cpu[t]
                  \/ pc[t] \in {"redirect", "send"} /\ pc'[t] \in {"idle", "send"}
  BY <1>3 DEF Deliver, TypeOK
<1>4. ASSUME \/ \E s \in Sockets : Establish(s) \/ CloseSocket(s)
             \/ AttachCgroup \/ AttachVerdict \/ Exit
             \/ UNCHANGED vars
      PROVE  received' = received /\ metrics' = metrics /\ UNCHANGED <<pc, cpu, size, register>>
  BY <1>4 DEF Establish, CloseSocket, AttachCgroup, AttachVerdict, Exit, Main, program, vars
<1>5. QED
  BY <1>2, <1>3, <1>4 DEF Next

\* The sums of what is stored, and of an upper bound of it, one CPU's part of which grows.
LEMMA SumGrows ==
  ASSUME NEW u \in [CPUs -> Nat], NEW v \in [CPUs -> Nat], NEW c \in CPUs, NEW n \in Nat,
         v[c] = u[c] + n, \A d \in CPUs : d # c => v[d] = u[d]
  PROVE  SumFunctionOnSet(v, CPUs) = SumFunctionOnSet(u, CPUs) + n
<1>1. \A d \in CPUs : u[d] \in Nat /\ v[d] \in Nat /\ (d # c => v[d] = u[d])
  OBVIOUS
<1>2. SumFunctionOnSet(v, CPUs) = SumFunctionOnSet(u, CPUs) + (v[c] - u[c])
  BY <1>1, FiniteAssumption, SumChange
<1>3. SumFunctionOnSet(u, CPUs) \in Nat
  BY FiniteAssumption, SumRemove
<1>4. QED
  BY <1>2, <1>3

LEMMA CountedType == TypeOK => Counted.messages \in Int /\ Counted.bytes \in Int
<1> SUFFICES ASSUME TypeOK
             PROVE  Counted.messages \in Int /\ Counted.bytes \in Int
  OBVIOUS
<1>1. received.messages \in Nat /\ received.bytes \in Nat
  BY DEF TypeOK, Metrics
<1>2. /\ Cardinality(At({"messages"})) \in Nat
      /\ SumFunctionOnSet(size, At({"messages", "bytes"})) \in Nat
  BY Uncounted
<1>3. QED
  BY <1>1, <1>2 DEF Counted

\* The bound of the messages grows with the first store,
LEMMA MessagesStep ==
  ASSUME TypeOK, TypeOK', [Next]_vars, NEW u \in [CPUs -> Nat], MessagesBelow(u)
  PROVE  \E v \in [CPUs -> Nat] : MessagesBelow(v)'
<1> USE DEF MessagesBelow
<1>0. SumFunctionOnSet(u, CPUs) \in Nat /\ Counted.messages \in Int
  BY FiniteAssumption, SumRemove, CountedType
<1>1. ASSUME NEW s \in Sockets, NEW c \in CPUs, NEW n \in Sizes, Send(s, c, n)
      PROVE  MessagesBelow(u)'
  <2>1. Counted' = Counted
    BY <1>1, CountedSend
  <2>2. /\ pc' = [pc EXCEPT ![s] = "messages"] /\ cpu' = [cpu EXCEPT ![s] = c]
        /\ register' = [register EXCEPT ![s] = metrics[c].messages]
        /\ metrics' = metrics
    BY <1>1 DEF Send
  <2>3. \A t \in Sockets : pc'[t] = "messages" => register'[t] <= u[cpu'[t]]
    BY <2>2 DEF TypeOK
  <2>4. QED
    BY <2>1, <2>2, <2>3
<1>2. ASSUME NEW s \in Sockets, Store(s)
      PROVE  \E v \in [CPUs -> Nat] : MessagesBelow(v)'
  <2> DEFINE c == cpu[s]
             v == [u EXCEPT ![c] = @ + 1]
  <2>1. /\ pc' = [pc EXCEPT ![s] = "bytes"] /\ cpu' = cpu
        /\ register' = [register EXCEPT ![s] = metrics[c].bytes]
        /\ metrics' = [metrics EXCEPT ![c].messages = register[s] + 1]
        /\ pc[s] = "messages" /\ c \in CPUs
    BY <1>2 DEF Store, TypeOK
  <2>2. /\ v \in [CPUs -> Nat] /\ SumFunctionOnSet(v, CPUs) = SumFunctionOnSet(u, CPUs) + 1
        /\ \A d \in CPUs : u[d] \in Nat /\ u[d] <= v[d]
        /\ v[c] = u[c] + 1
    <3>1. /\ v \in [CPUs -> Nat] /\ v[c] = u[c] + 1
          /\ \A d \in CPUs : u[d] \in Nat /\ u[d] <= v[d] /\ (d # c => v[d] = u[d])
      BY <2>1
    <3> HIDE DEF v
    <3>2. SumFunctionOnSet(v, CPUs) = SumFunctionOnSet(u, CPUs) + 1
      BY <2>1, <3>1, SumGrows
    <3>3. QED
      BY <3>1, <3>2
  <2>3. Counted'.messages = Counted.messages + 1
    BY <1>2, CountedStore
  <2>4. /\ register[s] <= u[c] /\ register[s] \in Nat
        /\ \A d \in CPUs : metrics[d].messages \in Nat
    BY <2>1 DEF TypeOK, Metrics
  <2>5. ASSUME NEW d \in CPUs
        PROVE  metrics'[d].messages <= v[d]
    <3>1. metrics'[c].messages = register[s] + 1
      BY <2>1 DEF TypeOK, Metrics
    <3>2. d # c => metrics'[d] = metrics[d]
      BY <2>1 DEF TypeOK
    <3> HIDE DEF v
    <3>3. CASE d = c
      BY <2>1, <2>2, <2>4, <3>1, <3>3
    <3>4. CASE d # c
      BY <2>2, <2>4, <3>2, <3>4
    <3>5. QED
      BY <3>3, <3>4
  <2>6. ASSUME NEW t \in Sockets, pc'[t] = "messages"
        PROVE  register'[t] <= v[cpu'[t]]
    <3>1. t # s /\ pc[t] = "messages" /\ register'[t] = register[t] /\ cpu'[t] = cpu[t]
      BY <2>1, <2>6 DEF TypeOK
    <3>2. register[t] <= u[cpu[t]] /\ cpu[t] \in CPUs /\ register[t] \in Nat
      BY <3>1 DEF TypeOK
    <3> HIDE DEF v
    <3>3. QED
      BY <2>2, <3>1, <3>2
  <2> HIDE DEF v
  <2>7. SumFunctionOnSet(v, CPUs) <= Counted'.messages
    BY <1>0, <2>2, <2>3
  <2>8. QED
    BY <2>2, <2>5, <2>6, <2>7
<1>3. ASSUME NEW s \in Sockets, StoreBytes(s)
      PROVE  MessagesBelow(u)'
  <2>1. Counted'.messages = Counted.messages
    BY <1>3, CountedStoreBytes
  <2>2. /\ pc' = [pc EXCEPT ![s] = "redirect"] /\ cpu' = cpu /\ register' = register
        /\ metrics' = [metrics EXCEPT ![cpu[s]].bytes = register[s] + size[s]]
    BY <1>3 DEF StoreBytes
  <2>3. \A d \in CPUs : metrics'[d].messages = metrics[d].messages
    BY <2>2 DEF TypeOK, Metrics
  <2>4. QED
    BY <2>1, <2>2, <2>3 DEF TypeOK
<1>4. CASE ~\E s \in Sockets : \/ Store(s) \/ StoreBytes(s)
                               \/ \E c \in CPUs, n \in Sizes : Send(s, c, n)
  BY <1>4, CountedKept
<1>5. QED
  BY <1>1, <1>2, <1>3, <1>4

\* and that of the bytes with the second.
LEMMA BytesStep ==
  ASSUME TypeOK, TypeOK', [Next]_vars, NEW u \in [CPUs -> Nat], BytesBelow(u)
  PROVE  \E v \in [CPUs -> Nat] : BytesBelow(v)'
<1> USE DEF BytesBelow
<1>0. SumFunctionOnSet(u, CPUs) \in Nat /\ Counted.bytes \in Int
  BY FiniteAssumption, SumRemove, CountedType
<1>1. ASSUME NEW s \in Sockets, NEW c \in CPUs, NEW n \in Sizes, Send(s, c, n)
      PROVE  BytesBelow(u)'
  <2>1. Counted' = Counted
    BY <1>1, CountedSend
  <2>2. /\ pc' = [pc EXCEPT ![s] = "messages"] /\ cpu' = [cpu EXCEPT ![s] = c]
        /\ register' = [register EXCEPT ![s] = metrics[c].messages]
        /\ metrics' = metrics
    BY <1>1 DEF Send
  <2>3. \A t \in Sockets : pc'[t] = "bytes" => register'[t] <= u[cpu'[t]]
    BY <2>2 DEF TypeOK
  <2>4. QED
    BY <2>1, <2>2, <2>3
<1>2. ASSUME NEW s \in Sockets, Store(s)
      PROVE  BytesBelow(u)'
  <2>1. Counted'.bytes = Counted.bytes
    BY <1>2, CountedStore
  <2>2. /\ pc' = [pc EXCEPT ![s] = "bytes"] /\ cpu' = cpu
        /\ register' = [register EXCEPT ![s] = metrics[cpu[s]].bytes]
        /\ metrics' = [metrics EXCEPT ![cpu[s]].messages = register[s] + 1]
        /\ cpu[s] \in CPUs
    BY <1>2 DEF Store, TypeOK
  <2>3. \A d \in CPUs : metrics'[d].bytes = metrics[d].bytes
    BY <2>2 DEF TypeOK, Metrics
  <2>4. \A t \in Sockets : pc'[t] = "bytes" => register'[t] <= u[cpu'[t]]
    BY <2>2 DEF TypeOK
  <2>5. QED
    BY <2>1, <2>3, <2>4
<1>3. ASSUME NEW s \in Sockets, StoreBytes(s)
      PROVE  \E v \in [CPUs -> Nat] : BytesBelow(v)'
  <2> DEFINE c == cpu[s]
             n == size[s]
             v == [u EXCEPT ![c] = @ + n]
  <2>1. /\ pc' = [pc EXCEPT ![s] = "redirect"] /\ cpu' = cpu /\ register' = register
        /\ metrics' = [metrics EXCEPT ![c].bytes = register[s] + n]
        /\ pc[s] = "bytes" /\ c \in CPUs /\ n \in Nat
    BY <1>3 DEF StoreBytes, TypeOK
  <2>2. /\ v \in [CPUs -> Nat] /\ SumFunctionOnSet(v, CPUs) = SumFunctionOnSet(u, CPUs) + n
        /\ \A d \in CPUs : u[d] \in Nat /\ u[d] <= v[d]
        /\ v[c] = u[c] + n
    <3>1. /\ v \in [CPUs -> Nat] /\ v[c] = u[c] + n
          /\ \A d \in CPUs : u[d] \in Nat /\ u[d] <= v[d] /\ (d # c => v[d] = u[d])
      BY <2>1
    <3> HIDE DEF v
    <3>2. SumFunctionOnSet(v, CPUs) = SumFunctionOnSet(u, CPUs) + n
      BY <2>1, <3>1, SumGrows
    <3>3. QED
      BY <3>1, <3>2
  <2>3. Counted'.bytes = Counted.bytes + n
    BY <1>3, CountedStoreBytes
  <2>4. /\ register[s] <= u[c] /\ register[s] \in Nat
        /\ \A d \in CPUs : metrics[d].bytes \in Nat
    BY <2>1 DEF TypeOK, Metrics
  <2>5. ASSUME NEW d \in CPUs
        PROVE  metrics'[d].bytes <= v[d]
    <3>1. metrics'[c].bytes = register[s] + n
      BY <2>1 DEF TypeOK, Metrics
    <3>2. d # c => metrics'[d] = metrics[d]
      BY <2>1 DEF TypeOK
    <3> HIDE DEF v
    <3>3. CASE d = c
      BY <2>1, <2>2, <2>4, <3>1, <3>3
    <3>4. CASE d # c
      BY <2>2, <2>4, <3>2, <3>4
    <3>5. QED
      BY <3>3, <3>4
  <2>6. ASSUME NEW t \in Sockets, pc'[t] = "bytes"
        PROVE  register'[t] <= v[cpu'[t]]
    <3>1. pc[t] = "bytes" /\ register'[t] = register[t] /\ cpu'[t] = cpu[t]
      BY <2>1, <2>6 DEF TypeOK
    <3>2. register[t] <= u[cpu[t]] /\ cpu[t] \in CPUs /\ register[t] \in Nat
      BY <3>1 DEF TypeOK
    <3> HIDE DEF v
    <3>3. QED
      BY <2>2, <3>1, <3>2
  <2> HIDE DEF v
  <2>7. SumFunctionOnSet(v, CPUs) <= Counted'.bytes
    BY <1>0, <2>1, <2>2, <2>3
  <2>8. QED
    BY <2>2, <2>5, <2>6, <2>7
<1>4. CASE ~\E s \in Sockets : \/ Store(s) \/ StoreBytes(s)
                               \/ \E c \in CPUs, n \in Sizes : Send(s, c, n)
  BY <1>4, CountedKept
<1>5. QED
  BY <1>1, <1>2, <1>3, <1>4

\* Without preemption a store adds to the sum exactly what it adds to what was loaded.
LEMMA ExactStep == TypeOK /\ TypeOK' /\ Exclusive /\ Exact /\ [Next]_vars => Exact'
<1> SUFFICES ASSUME TypeOK, TypeOK', Exclusive, [Next]_vars, ~preemptible, preemptible' = preemptible,
                    Shown("messages") = Counted.messages, Shown("bytes") = Counted.bytes
             PROVE  Shown("messages")' = Counted'.messages /\ Shown("bytes")' = Counted'.bytes
  <2>1. [Next]_vars => preemptible' = preemptible
    BY DEF Next, Establish, CloseSocket, Send, Store, StoreBytes, Redirect, Deliver,
           AttachCgroup, AttachVerdict, Exit, Main, vars, machine
  <2>2. QED
    BY <2>1 DEF Exact
<1> DEFINE f == [c \in CPUs |-> metrics[c]["messages"]]
           g == [c \in CPUs |-> metrics[c]["bytes"]]
           F == [c \in CPUs |-> metrics'[c]["messages"]]
           G == [c \in CPUs |-> metrics'[c]["bytes"]]
<1>1. /\ Shown("messages") = SumFunctionOnSet(f, CPUs) /\ Shown("bytes") = SumFunctionOnSet(g, CPUs)
      /\ Shown("messages")' = SumFunctionOnSet(F, CPUs) /\ Shown("bytes")' = SumFunctionOnSet(G, CPUs)
  BY DEF Shown, SumFunction
<1>2. /\ f \in [CPUs -> Nat] /\ g \in [CPUs -> Nat] /\ F \in [CPUs -> Nat] /\ G \in [CPUs -> Nat]
      /\ \A c \in CPUs : f[c] = metrics[c].messages /\ g[c] = metrics[c].bytes
      /\ \A c \in CPUs : F[c] = metrics'[c].messages /\ G[c] = metrics'[c].bytes
  BY DEF TypeOK, Metrics
<1>3. ASSUME NEW s \in Sockets, NEW c \in CPUs, NEW n \in Sizes, Send(s, c, n)
      PROVE  Counted' = Counted /\ metrics' = metrics
  BY <1>3, CountedSend DEF Send
<1>4. ASSUME NEW s \in Sockets, Store(s)
      PROVE  Shown("messages")' = Counted'.messages /\ Shown("bytes")' = Counted'.bytes
  <2>1. /\ cpu[s] \in CPUs /\ register[s] = metrics[cpu[s]].messages
        /\ metrics' = [metrics EXCEPT ![cpu[s]].messages = register[s] + 1]
    BY <1>4 DEF Store, TypeOK, Exclusive
  <2>2. /\ F[cpu[s]] = f[cpu[s]] + 1
        /\ \A c \in CPUs : c # cpu[s] => F[c] = f[c]
        /\ G = g
    BY <1>2, <2>1 DEF TypeOK, Metrics
  <2> HIDE DEF f, g, F, G
  <2>3. SumFunctionOnSet(F, CPUs) = SumFunctionOnSet(f, CPUs) + 1
    BY <1>2, <2>1, <2>2, SumGrows
  <2>4. QED
    BY <1>1, <1>4, <2>2, <2>3, CountedStore
<1>5. ASSUME NEW s \in Sockets, StoreBytes(s)
      PROVE  Shown("messages")' = Counted'.messages /\ Shown("bytes")' = Counted'.bytes
  <2>1. /\ cpu[s] \in CPUs /\ register[s] = metrics[cpu[s]].bytes /\ size[s] \in Nat
        /\ metrics' = [metrics EXCEPT ![cpu[s]].bytes = register[s] + size[s]]
    BY <1>5 DEF StoreBytes, TypeOK, Exclusive
  <2>2. /\ G[cpu[s]] = g[cpu[s]] + size[s]
        /\ \A c \in CPUs : c # cpu[s] => G[c] = g[c]
        /\ F = f
    BY <1>2, <2>1 DEF TypeOK, Metrics
  <2> HIDE DEF f, g, F, G
  <2>3. SumFunctionOnSet(G, CPUs) = SumFunctionOnSet(g, CPUs) + size[s]
    BY <1>2, <2>1, <2>2, SumGrows
  <2>4. QED
    BY <1>1, <1>5, <2>2, <2>3, CountedStoreBytes
<1>6. CASE ~\E s \in Sockets : \/ Store(s) \/ StoreBytes(s)
                               \/ \E c \in CPUs, n \in Sizes : Send(s, c, n)
  BY <1>6, CountedKept DEF Shown
<1>7. QED
  BY <1>3, <1>4, <1>5, <1>6 DEF Shown

\* What is shown as redirected messages and bytes is what redirect_msg saw and has
\* finished counting, exactly so on a kernel without preemption, and never more with it
\* (main.bpf.c:39-42, main.go:114), for any CPUs, sockets, sizes and schedule.
THEOREM MessagesAreCounted == Spec => []MessagesCounted
<1>1. Init => Exclusive /\ Below /\ Exact
  <2> SUFFICES ASSUME Init
               PROVE  Exclusive /\ Below /\ Exact
    OBVIOUS
  <2> DEFINE u == [c \in CPUs |-> 0]
  <2>1. Exclusive
    BY DEF Init, Exclusive
  <2>2. Counted.messages = 0 /\ Counted.bytes = 0
    <3>1. At({"messages"}) = {} /\ At({"messages", "bytes"}) = {}
      BY DEF Init, At
    <3>2. Cardinality({}) = 0 /\ SumFunctionOnSet(size, {}) = 0
      BY FS_EmptySet, SumUnfold
    <3>3. received.messages = 0 /\ received.bytes = 0
      BY DEF Init, Zero
    <3>4. QED
      BY <3>1, <3>2, <3>3 DEF Counted
  <2>3. u \in [CPUs -> Nat] /\ SumFunctionOnSet(u, CPUs) = 0
    BY FiniteAssumption, SumZero
  <2>4. \A c \in CPUs : metrics[c].messages = 0 /\ metrics[c].bytes = 0
    BY DEF Init, Zero
  <2>5. [c \in CPUs |-> metrics[c]["messages"]] = u /\ [c \in CPUs |-> metrics[c]["bytes"]] = u
    BY <2>4
  <2>6. Shown("messages") = 0 /\ Shown("bytes") = 0
    BY <2>3, <2>5 DEF Shown, SumFunction
  <2>7. \A s \in Sockets : pc[s] = "idle"
    BY DEF Init
  <2>8. MessagesBelow(u) /\ BytesBelow(u)
    BY <2>2, <2>3, <2>4, <2>7 DEF MessagesBelow, BytesBelow
  <2>9. QED
    BY <2>1, <2>2, <2>3, <2>6, <2>8 DEF Below, Exact
<1>2. TypeOK /\ TypeOK' /\ Below /\ [Next]_vars => Below'
  <2>1. (\E u \in [CPUs -> Nat] : MessagesBelow(u)) /\ TypeOK /\ TypeOK' /\ [Next]_vars
        => \E v \in [CPUs -> Nat] : MessagesBelow(v)'
    BY MessagesStep
  <2>2. (\E u \in [CPUs -> Nat] : BytesBelow(u)) /\ TypeOK /\ TypeOK' /\ [Next]_vars
        => \E v \in [CPUs -> Nat] : BytesBelow(v)'
    BY BytesStep
  <2>3. QED
    BY <2>1, <2>2 DEF Below
<1>3. TypeOK /\ Below /\ Exact => MessagesCounted
  <2> SUFFICES ASSUME TypeOK, Below, Exact
               PROVE  MessagesCounted
    OBVIOUS
  <2> DEFINE f == [c \in CPUs |-> metrics[c]["messages"]]
             g == [c \in CPUs |-> metrics[c]["bytes"]]
  <2>1. Shown("messages") = SumFunctionOnSet(f, CPUs) /\ Shown("bytes") = SumFunctionOnSet(g, CPUs)
    BY DEF Shown, SumFunction
  <2>2. \A c \in CPUs : /\ f[c] \in Nat /\ g[c] \in Nat
                        /\ f[c] = metrics[c].messages /\ g[c] = metrics[c].bytes
    BY DEF TypeOK, Metrics
  <2>3. PICK u \in [CPUs -> Nat] : MessagesBelow(u)
    BY DEF Below
  <2>4. PICK v \in [CPUs -> Nat] : BytesBelow(v)
    BY DEF Below
  <2> HIDE DEF f, g
  <2>5. SumFunctionOnSet(f, CPUs) <= SumFunctionOnSet(u, CPUs)
    BY <2>2, <2>3, FiniteAssumption, SumMonotone DEF MessagesBelow
  <2>6. SumFunctionOnSet(g, CPUs) <= SumFunctionOnSet(v, CPUs)
    BY <2>2, <2>4, FiniteAssumption, SumMonotone DEF BytesBelow
  <2>7. /\ SumFunctionOnSet(f, CPUs) \in Nat /\ SumFunctionOnSet(u, CPUs) \in Nat
        /\ SumFunctionOnSet(g, CPUs) \in Nat /\ SumFunctionOnSet(v, CPUs) \in Nat
    BY <2>2, FiniteAssumption, SumRemove
  <2>8. Shown("messages") <= Counted.messages
    BY <2>1, <2>3, <2>5, <2>7, CountedType DEF MessagesBelow
  <2>9. Shown("bytes") <= Counted.bytes
    BY <2>1, <2>4, <2>6, <2>7, CountedType DEF BytesBelow
  <2>10. Counted["messages"] = Counted.messages /\ Counted["bytes"] = Counted.bytes
    OBVIOUS
  <2>11. QED
    BY <2>8, <2>9, <2>10 DEF Exact, MessagesCounted
<1>4. QED
  BY <1>1, <1>2, <1>3, ExclusiveStep, ExactStep, TypeCorrect, PTL DEF Spec

=============================================================================
