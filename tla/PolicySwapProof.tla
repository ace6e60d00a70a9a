--------------------------- MODULE PolicySwapProof ---------------------------
(***************************************************************************)
(* For any number of CPUs, inner maps and addresses, and on machines of    *)
(* either byte order: every packet is decided at one instant by one whole  *)
(* policy (PolicySwap implements AtomicPolicy).                            *)
(***************************************************************************)
EXTENDS PolicySwap, TLAPS

----------------------------------------------------------------------------
(* Keys.                                                                   *)

\* A key is four bytes.
LEMMA KeyType ==
  ASSUME NEW a \in IPv4
  PROVE  Key(a) \in IPv4
BY DEF Key, IPv4

\* The policies' addresses read the same in both directions, so that their keys
\* are theirs on every machine.
LEMMA KeysOfPolicies == \A a \in V1 \cup V2 : Key(a) = a
BY DEF Key, V1, V2

\* The complete inner map of a policy blocks that policy's addresses.
LEMMA CompletePolicy ==
  ASSUME NEW P \in {V1, V2}
  PROVE  Addresses \cap {Key(a) : a \in P} = P
BY KeysOfPolicies, AddressAssumption

----------------------------------------------------------------------------
(* The inductive invariant.                                                *)

\* What an activation holds at each point of xdp_routing (main.bpf.c:25-56).
Activations ==
  \A c \in CPUs :
    /\ pc[c] = "idle" <=> saddr[c] = NULL
    /\ pc[c] = "return" <=> verdict[c] # NULL

\* What swapPolicy works on, and what it has put in force (main.go:83-105).
Swaps ==
  /\ step # "idle" => rules \in {V1, V2}
  /\ step = "create" => todo = rules
  /\ step = "publish" => todo = {}
  /\ outer # NULL => Addresses \cap content[outer] \in {V1, V2}
  /\ stage = "serving" => outer # NULL

Inv == TypeOK /\ Activations /\ Swaps /\ BuiltApart

\* Every variable keeps its type; an activation past the outer lookup has an
\* inner map (main.bpf.c:44-47).
THEOREM TypeCorrect == Spec => []TypeOK
<1>1. Init => TypeOK
  BY AddressAssumption DEF Init, TypeOK, V1
<1>2. TypeOK /\ [Next]_vars => TypeOK'
  <2> SUFFICES ASSUME TypeOK, [Next]_vars
               PROVE  TypeOK'
    OBVIOUS
  <2> USE DEF TypeOK
  <2>1. ASSUME NEW c \in CPUs, NEW a \in Addresses, Receive(c, a)
        PROVE  TypeOK'
    BY <2>1 DEF Receive, maps, swap
  <2>2. ASSUME NEW c \in CPUs, LookupOuter(c)
        PROVE  TypeOK'
    BY <2>2 DEF LookupOuter, maps, swap
  <2>3. ASSUME NEW c \in CPUs, LookupInner(c)
        PROVE  TypeOK'
    BY <2>3 DEF LookupInner, Action, maps, swap
  <2>4. ASSUME NEW c \in CPUs, Return(c)
        PROVE  TypeOK'
    BY <2>4 DEF Return, maps, swap
  <2>5. CASE NewMap
    BY <2>5 DEF NewMap, At, program
  <2>6. ASSUME NEW a \in Addresses, Fill(a)
        PROVE  TypeOK'
    <3>1. Key(a) \in IPv4
      BY KeyType, AddressAssumption
    <3>2. content' \in [Tables -> SUBSET IPv4]
      <4>1. content' = [content EXCEPT ![inner] = @ \cup {Key(a)}]
        BY <2>6 DEF Fill
      <4>2. \A t \in Tables : content'[t] = content[t] \/ content'[t] = content[t] \cup {Key(a)}
        BY <4>1
      <4>3. \A t \in Tables : content'[t] \subseteq IPv4
        BY <3>1, <4>2
      <4>4. content' \in [Tables -> {content'[t] : t \in Tables}]
        BY <4>1
      <4>5. QED
        BY <4>3, <4>4
    <3>3. QED
      BY <2>6, <3>2 DEF Fill, At, program, maps
  <2>7. CASE Filled
    BY <2>7 DEF Filled, At, program, maps
  <2>8. CASE Publish
    BY <2>8 DEF Publish, Leave, At, program
  <2>9. CASE SwapFails
    BY <2>9 DEF SwapFails, Leave, At, program, maps
  <2>10. CASE SwapCommand
    BY <2>10, AddressAssumption DEF SwapCommand, program, maps
  <2>11. CASE Close
    BY <2>11 DEF Close, program, maps, swap
  <2>12. CASE Exit
    BY <2>12 DEF Exit, program, maps
  <2>13. CASE UNCHANGED vars
    BY <2>13 DEF vars, program, maps, swap
  <2>14. QED
    BY <2>1, <2>2, <2>3, <2>4, <2>5, <2>6, <2>7, <2>8, <2>9, <2>10, <2>11, <2>12, <2>13
       DEF Next, Program, SwapPolicy
<1>3. QED
  BY <1>1, <1>2, PTL DEF Spec

----------------------------------------------------------------------------
(* The invariant holds.                                                    *)

\* An activation has an address and, when it returns, a verdict.
LEMMA ActivationsStep == TypeOK /\ Activations /\ [Next]_vars => Activations'
<1> SUFFICES ASSUME TypeOK, Activations, [Next]_vars
             PROVE  Activations'
  OBVIOUS
<1> USE DEF TypeOK, Activations
<1>1. CASE UNCHANGED program
  BY <1>1 DEF program
<1>2. ASSUME NEW c \in CPUs, NEW a \in Addresses, Receive(c, a)
      PROVE  Activations'
  BY <1>2, NullAssumption DEF Receive
<1>3. ASSUME NEW c \in CPUs, LookupOuter(c)
      PROVE  Activations'
  BY <1>3, NullAssumption DEF LookupOuter
<1>4. ASSUME NEW c \in CPUs, LookupInner(c)
      PROVE  Activations'
  BY <1>4, NullAssumption DEF LookupInner, Action
<1>5. ASSUME NEW c \in CPUs, Return(c)
      PROVE  Activations'
  BY <1>5, NullAssumption DEF Return
<1>6. CASE NewMap \/ Filled \/ Publish \/ SwapFails \/ \E a \in Addresses : Fill(a)
  BY <1>1, <1>6 DEF NewMap, Fill, Filled, Publish, SwapFails
<1>7. CASE SwapCommand \/ Close \/ Exit \/ UNCHANGED vars
  BY <1>1, <1>7 DEF SwapCommand, Close, Exit, vars
<1>8. QED
  BY <1>2, <1>3, <1>4, <1>5, <1>6, <1>7 DEF Next, Program, SwapPolicy

\* The map being filled stays out of reach and holds the rules put so far.
LEMMA BuiltApartStep == Inv /\ [Next]_vars => BuiltApart'
<1> SUFFICES ASSUME Inv, [Next]_vars,
                    step' \in {"fill", "publish"}, stage' # "exited"
             PROVE  /\ inner' \in Tables
                    /\ inner' # outer'
                    /\ \A c \in CPUs : pc'[c] = "inner" => table'[c] # inner'
                    /\ content'[inner'] = {Key(a) : a \in rules' \ todo'}
  BY DEF BuiltApart, Key
<1> USE DEF Inv
<1>1. ASSUME step \in {"fill", "publish"}, stage # "exited"
      PROVE  /\ inner \in Tables
             /\ inner # outer
             /\ \A c \in CPUs : pc[c] = "inner" => table[c] # inner
             /\ content[inner] = {Key(a) : a \in rules \ todo}
  BY <1>1 DEF BuiltApart
<1>2. ASSUME NEW c \in CPUs, \/ \E a \in Addresses : Receive(c, a)
                             \/ LookupInner(c)
                             \/ Return(c)
      PROVE  /\ UNCHANGED <<maps, swap, stage>>
             /\ \A d \in CPUs : pc'[d] = "inner" => pc[d] = "inner" /\ table'[d] = table[d]
  BY <1>2 DEF Receive, LookupInner, Return, TypeOK
<1>3. ASSUME NEW c \in CPUs, LookupOuter(c)
      PROVE  /\ UNCHANGED <<maps, swap, stage>>
             /\ \A d \in CPUs : pc'[d] = "inner" => \/ pc[d] = "inner" /\ table'[d] = table[d]
                                                    \/ table'[d] = outer
  BY <1>3 DEF LookupOuter, TypeOK
<1>4. CASE NewMap
  <2>1. step = "create" /\ rules' = rules /\ todo' = todo
    BY <1>4 DEF NewMap, At
  <2>2. rules' \ todo' = {}
    BY <1>4, <2>1 DEF NewMap, Swaps, TypeOK
  <2>3. QED
    BY <1>4, <2>2 DEF NewMap, Unreferenced, program, TypeOK
<1>5. ASSUME NEW a \in Addresses, Fill(a)
      PROVE  /\ UNCHANGED <<program, outer, inner, rules, stage>>
             /\ content'[inner] = {Key(b) : b \in rules' \ todo'}
  <2>1. step = "fill" /\ stage # "exited" /\ a \in todo /\ todo' = todo \ {a}
        /\ UNCHANGED <<program, outer, inner, rules, stage>>
    BY <1>5 DEF Fill, At
  <2>2. content'[inner] = content[inner] \cup {Key(a)}
    BY <1>1, <1>5, <2>1 DEF Fill, TypeOK
  <2>3. rules' \ todo' = (rules \ todo) \cup {a}
    BY <2>1 DEF TypeOK
  <2>4. {Key(b) : b \in rules' \ todo'} = {Key(b) : b \in rules \ todo} \cup {Key(a)}
    BY <2>3
  <2>5. QED
    BY <1>1, <2>1, <2>2, <2>4
<1>6. CASE Filled
  BY <1>1, <1>6 DEF Filled, At, program, maps
<1>7. CASE Publish \/ SwapFails \/ SwapCommand \/ Exit
  BY <1>7 DEF Publish, SwapFails, SwapCommand, Exit, Leave
<1>8. CASE Close \/ UNCHANGED vars
  BY <1>1, <1>8 DEF Close, vars, program, maps, swap
<1>9. ASSUME NEW a \in Addresses, Fill(a)
      PROVE  step = "fill" /\ stage # "exited"
  BY <1>9 DEF Fill, At
<1>10. QED
  BY <1>1, <1>2, <1>3, <1>4, <1>5, <1>6, <1>7, <1>8, <1>9
     DEF Next, Program, SwapPolicy, maps, swap, program

\* The policy in force is complete, and survives the filling of the next one.
LEMMA SwapsStep == Inv /\ [Next]_vars => Swaps'
<1> SUFFICES ASSUME Inv, [Next]_vars
             PROVE  Swaps'
  OBVIOUS
<1> USE DEF Inv
<1>1. CASE UNCHANGED <<maps, swap, stage>>
  BY <1>1 DEF maps, swap, Swaps
<1>2. ASSUME NEW c \in CPUs, Program(c) \/ \E a \in Addresses : Receive(c, a)
      PROVE  UNCHANGED <<maps, swap, stage>>
  BY <1>2 DEF Program, LookupOuter, LookupInner, Return, Receive
<1>3. CASE NewMap
  <2>1. outer' = outer /\ outer # NULL => content'[outer] = content[outer]
    BY <1>3 DEF NewMap, Unreferenced, TypeOK
  <2>2. step' = "fill" /\ step = "create" /\ UNCHANGED <<outer, rules, todo, stage>>
    BY <1>3 DEF NewMap, At
  <2>3. QED
    BY <2>1, <2>2 DEF Swaps
<1>4. ASSUME NEW a \in Addresses, Fill(a)
      PROVE  Swaps'
  <2>1. step = "fill" /\ stage # "exited" /\ UNCHANGED <<outer, step, rules, stage>>
    BY <1>4 DEF Fill, At
  <2>2. inner # outer
    BY <2>1 DEF BuiltApart
  <2>3. outer # NULL => content'[outer] = content[outer]
    BY <1>4, <2>2 DEF Fill, TypeOK
  <2>4. QED
    BY <2>1, <2>3 DEF Swaps
<1>5. CASE Filled
  BY <1>5 DEF Filled, At, Swaps, maps
<1>6. CASE Publish
  <2>1. step = "publish" /\ stage # "exited" /\ todo = {} /\ rules \in {V1, V2}
    BY <1>6 DEF Publish, At, Swaps
  <2>2. content[inner] = {Key(a) : a \in rules} /\ inner \in Tables
    BY <2>1 DEF BuiltApart
  <2>3. Addresses \cap content[inner] = rules
    BY <2>1, <2>2, CompletePolicy
  <2>4. outer' = inner /\ content' = content /\ step' = "idle" /\ outer' # NULL
    BY <1>6, <2>2, NullAssumption DEF Publish, Leave
  <2>5. QED
    BY <2>1, <2>3, <2>4 DEF Swaps
<1>7. CASE SwapFails
  BY <1>7 DEF SwapFails, Leave, Swaps, maps
<1>8. CASE SwapCommand
  BY <1>8 DEF SwapCommand, Swaps, maps
<1>9. CASE Close \/ Exit \/ UNCHANGED vars
  BY <1>9 DEF Close, Exit, vars, Swaps, maps, swap
<1>10. QED
  BY <1>1, <1>2, <1>3, <1>4, <1>5, <1>6, <1>7, <1>8, <1>9 DEF Next, SwapPolicy

LEMMA Invariance == Spec => []Inv
<1>1. Init => Activations /\ Swaps /\ BuiltApart
  BY DEF Init, Activations, Swaps, BuiltApart
<1>2. Inv /\ [Next]_vars => Activations' /\ Swaps' /\ BuiltApart'
  BY ActivationsStep, SwapsStep, BuiltApartStep DEF Inv
<1>3. QED
  BY <1>1, <1>2, TypeCorrect, PTL DEF Spec, Inv

\* The loader takes commands only with all of v1 or all of v2 in force, under the
\* keys that the program looks up (main.go:57-64, :95-104).
THEOREM PolicyIsWhole == Spec => []WholePolicy
<1>1. Inv => WholePolicy
  BY DEF Inv, Swaps, WholePolicy, Blocked
<1>2. QED
  BY <1>1, Invariance, PTL

\* The inner map being filled is neither published nor in an activation's hands
\* (main.go:84-102).
THEOREM FilledApart == Spec => []BuiltApart
BY Invariance, PTL DEF Inv

----------------------------------------------------------------------------
(* The refinement.                                                         *)

\* The fate of the packet on each CPU, known once the outer map has been read.
Fate == [c \in CPUs |-> IF pc[c] = "inner" THEN Action(table[c], saddr[c])
                                          ELSE verdict[c]]

\* Nothing an activation depends on moves: what it will return stays the same.
LEMMA FateKept ==
  ASSUME Inv, UNCHANGED program,
         \A c \in CPUs : pc[c] = "inner" => content'[table[c]] = content[table[c]]
  PROVE  Fate' = Fate
BY DEF Fate, Action, program

\* Two lookups and a many-step swap behave as one decision and one installation
\* (main.bpf.c:43-55, main.go:83-105).
THEOREM SwapImplementsAtomic == Spec => SwapIsAtomic
<1> USE DEF Inv
<1>1. Init => Atomic!Init
  BY DEF Init, Atomic!Init, Blocked
<1>2. ASSUME Inv, [Next]_vars
      PROVE  [Atomic!Next]_(Atomic!vars)
  <2> USE <1>2
  <2>1. SUFFICES \/ Atomic!Next
                 \/ Blocked' = Blocked /\ saddr' = saddr /\ Fate' = Fate
    BY DEF Atomic!vars, Fate
  <2>2. ASSUME UNCHANGED maps
        PROVE  Blocked' = Blocked
    BY <2>2 DEF maps, Blocked
  <2>3. ASSUME UNCHANGED <<program, maps>>
        PROVE  Blocked' = Blocked /\ saddr' = saddr /\ Fate' = Fate
    BY <2>3, <2>2, FateKept DEF program, maps
  <2>4. ASSUME NEW c \in CPUs, NEW a \in Addresses, Receive(c, a)
        PROVE  Atomic!Arrive(c, a)
    <3>1. Blocked' = Blocked
      BY <2>2, <2>4 DEF Receive
    <3>2. saddr[c] = NULL /\ saddr' = [saddr EXCEPT ![c] = a]
      BY <2>4 DEF Receive, Activations
    <3>3. Fate' = Fate
      BY <2>4 DEF Receive, Fate, Action, TypeOK, maps
    <3>4. QED
      BY <3>1, <3>2, <3>3 DEF Atomic!Arrive, Fate
  <2>5. ASSUME NEW c \in CPUs, LookupOuter(c)
        PROVE  Atomic!Decide(c)
    <3>1. Blocked' = Blocked /\ saddr' = saddr
      BY <2>2, <2>5 DEF LookupOuter
    <3>2. saddr[c] \in Addresses /\ saddr[c] # NULL /\ Fate[c] = NULL
      BY <2>5, NullAssumption DEF LookupOuter, TypeOK, Activations, Fate
    <3>3. Fate' = [Fate EXCEPT ![c] = IF saddr[c] \in Blocked THEN "drop" ELSE "pass"]
      BY <2>5, <3>2 DEF LookupOuter, Fate, Action, Blocked, TypeOK, maps
    <3>4. QED
      BY <3>1, <3>2, <3>3 DEF Atomic!Decide, Fate
  <2>6. ASSUME NEW c \in CPUs, LookupInner(c)
        PROVE  Blocked' = Blocked /\ saddr' = saddr /\ Fate' = Fate
    BY <2>2, <2>6 DEF LookupInner, Fate, Action, TypeOK, maps
  <2>7. ASSUME NEW c \in CPUs, Return(c)
        PROVE  Atomic!Deliver(c)
    <3>1. Blocked' = Blocked
      BY <2>2, <2>7 DEF Return
    <3>2. Fate[c] # NULL
      BY <2>7 DEF Return, Fate, Activations
    <3>3. Fate' = [Fate EXCEPT ![c] = NULL] /\ saddr' = [saddr EXCEPT ![c] = NULL]
      BY <2>7 DEF Return, Fate, Action, TypeOK, maps
    <3>4. QED
      BY <3>1, <3>2, <3>3 DEF Atomic!Deliver, Fate
  <2>8. CASE NewMap
    <3>1. PICK t \in Tables : Unreferenced(t) /\ content' = [content EXCEPT ![t] = {}]
      BY <2>8 DEF NewMap
    <3>2. UNCHANGED program /\ outer' = outer
      BY <2>8 DEF NewMap
    <3>3. \A c \in CPUs : pc[c] = "inner" => content'[table[c]] = content[table[c]]
      BY <3>1 DEF Unreferenced, TypeOK
    <3>4. Blocked' = Blocked
      BY <3>1, <3>2 DEF Blocked, Unreferenced, TypeOK
    <3>5. QED
      BY <3>2, <3>3, <3>4, FateKept DEF program
  <2>9. ASSUME NEW a \in Addresses, Fill(a)
        PROVE  Blocked' = Blocked /\ saddr' = saddr /\ Fate' = Fate
    <3>1. step = "fill" /\ stage # "exited" /\ UNCHANGED program /\ outer' = outer
          /\ content' = [content EXCEPT ![inner] = @ \cup {Key(a)}]
      BY <2>9 DEF Fill, At
    <3>2. inner # outer /\ \A c \in CPUs : pc[c] = "inner" => table[c] # inner
      BY <3>1 DEF BuiltApart
    <3>3. \A c \in CPUs : pc[c] = "inner" => content'[table[c]] = content[table[c]]
      BY <3>1, <3>2 DEF TypeOK
    <3>4. Blocked' = Blocked
      BY <3>1, <3>2 DEF Blocked, TypeOK
    <3>5. QED
      BY <3>1, <3>3, <3>4, FateKept DEF program
  <2>10. CASE Publish
    <3>1. step = "publish" /\ UNCHANGED <<program, content>> /\ outer' # NULL
      <4>1. step = "publish" /\ stage # "exited" /\ outer' = inner
            /\ UNCHANGED <<program, content>>
        BY <2>10 DEF Publish, At
      <4>2. QED
        BY <4>1, NullAssumption DEF BuiltApart
    <3>2. Blocked' \in {V1, V2}
      BY <3>1, SwapsStep DEF Blocked, Swaps
    <3>3. Fate' = Fate /\ saddr' = saddr
      BY <3>1, FateKept DEF program
    <3>4. QED
      BY <3>2, <3>3 DEF Atomic!Install, Atomic!Next, Fate
  <2>11. CASE Filled \/ SwapFails \/ SwapCommand \/ Close \/ Exit \/ UNCHANGED vars
    BY <2>3, <2>11 DEF Filled, SwapFails, SwapCommand, Close, Exit, vars
  <2>12. QED
    BY <2>4, <2>5, <2>6, <2>7, <2>8, <2>9, <2>10, <2>11
       DEF Next, Program, SwapPolicy, Atomic!Next
<1>3. QED
  BY <1>1, <1>2, Invariance, PTL DEF Spec, SwapIsAtomic, Atomic!Spec

=============================================================================
