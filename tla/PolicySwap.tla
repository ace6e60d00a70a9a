----------------------------- MODULE PolicySwap -----------------------------
(***************************************************************************)
(* Series 09: XDP routing through a map in a map.  xdp_routing reads the   *)
(* inner map out of outer_map[0] and then looks the source address up in   *)
(* it; the loader's swapPolicy fills a new inner map and puts it into      *)
(* outer_map[0].  The main goroutine swaps in v1 after attaching the       *)
(* program, the command goroutine swaps in v2 on every "swap".             *)
(*                                                                         *)
(* The kernel frees an inner map once neither the loader, nor outer_map,   *)
(* nor an activation that is still running refers to it (modelled from its *)
(* use): Unreferenced.                                                     *)
(***************************************************************************)
EXTENDS Integers

CONSTANTS
  CPUs,          \* the processors that run xdp_routing
  Addresses,     \* IPv4 source addresses: four bytes in network order
  Tables,        \* places for inner maps
  LittleEndian,  \* the byte order of the machine
  NULL

\* An address or a key: the four bytes of a __u32.
IPv4 == [1 .. 4 -> 0 .. 255]

V1 == {<<8, 8, 8, 8>>}
V2 == {<<1, 1, 1, 1>>}

ASSUME AddressAssumption ==
  Addresses \subseteq IPv4 /\ V1 \cup V2 \subseteq Addresses
ASSUME OrderAssumption == LittleEndian \in BOOLEAN
ASSUME NullAssumption ==
  NULL \notin Addresses /\ NULL \notin Tables /\ NULL \notin {"drop", "pass"}

VARIABLES
  pc,        \* where each CPU is in xdp_routing; "idle" between packets
  saddr,     \* the activation's source address
  table,     \* the activation's inner_map
  verdict,   \* what the activation returns
  outer,     \* outer_map[0]: an inner map, or NULL
  content,   \* the keys of each inner map whose action is 1
  stage,     \* main: "v1", then "serving" once the commands are read
  step,      \* where swapPolicy is; "idle" when it is not running
  inner,     \* swapPolicy's innerMap
  rules,     \* swapPolicy's argument
  todo,      \* the rules it has still to put into innerMap
  attached   \* whether the XDP link is open

program == <<pc, saddr, table, verdict>>
maps == <<outer, content>>
swap == <<step, inner, rules, todo>>
vars == <<program, maps, swap, stage, attached>>

TypeOK ==
  /\ pc \in [CPUs -> {"idle", "outer", "inner", "return"}]
  /\ saddr \in [CPUs -> Addresses \cup {NULL}]
  /\ table \in [CPUs -> Tables \cup {NULL}]
  /\ verdict \in [CPUs -> {"drop", "pass", NULL}]
  /\ outer \in Tables \cup {NULL}
  /\ content \in [Tables -> SUBSET IPv4]
  /\ stage \in {"v1", "serving", "closing", "exited"}
  /\ step \in {"idle", "create", "fill", "publish"}
  /\ inner \in Tables \cup {NULL}
  /\ rules \in SUBSET Addresses
  /\ todo \subseteq rules
  /\ attached \in BOOLEAN
  /\ \A c \in CPUs : pc[c] # "idle" => saddr[c] \in Addresses
  /\ \A c \in CPUs : pc[c] = "inner" => table[c] \in Tables

\* The link is attached before the first swap: no policy is installed yet.
Init ==
  /\ pc = [c \in CPUs |-> "idle"]
  /\ saddr = [c \in CPUs |-> NULL]
  /\ table = [c \in CPUs |-> NULL]
  /\ verdict = [c \in CPUs |-> NULL]
  /\ outer = NULL
  /\ content = [t \in Tables |-> {}]
  /\ stage = "v1"
  /\ step = "create"
  /\ inner = NULL
  /\ rules = V1
  /\ todo = V1
  /\ attached = TRUE

----------------------------------------------------------------------------
(* xdp_routing, one activation per CPU.                                    *)

\* A frame that is short or not IPv4 passes before any map is read: a stutter.
Receive(c, a) ==
  /\ attached
  /\ pc[c] = "idle"
  /\ pc' = [pc EXCEPT ![c] = "outer"]
  /\ saddr' = [saddr EXCEPT ![c] = a]
  /\ UNCHANGED <<table, verdict, maps, swap, stage, attached>>

\* bpf_map_lookup_elem(&outer_map, &outer_key); no inner map: XDP_PASS.
LookupOuter(c) ==
  /\ pc[c] = "outer"
  /\ \/ /\ outer = NULL
        /\ pc' = [pc EXCEPT ![c] = "return"]
        /\ verdict' = [verdict EXCEPT ![c] = "pass"]
        /\ UNCHANGED table
     \/ /\ outer # NULL
        /\ pc' = [pc EXCEPT ![c] = "inner"]
        /\ table' = [table EXCEPT ![c] = outer]
        /\ UNCHANGED verdict
  /\ UNCHANGED <<saddr, maps, swap, stage, attached>>

Action(t, a) == IF a \in content[t] THEN "drop" ELSE "pass"

\* Mutant: the outer map is read again for the second lookup.
LookupInnerAgain(c) ==
  /\ pc[c] = "inner"
  /\ pc' = [pc EXCEPT ![c] = "return"]
  /\ verdict' = [verdict EXCEPT ![c] = Action(outer, saddr[c])]
  /\ table' = [table EXCEPT ![c] = NULL]
  /\ UNCHANGED <<saddr, maps, swap, stage, attached>>

\* bpf_map_lookup_elem(inner_map, &ip_key): the key is the address as it stands
\* in the packet.
LookupInner(c) ==
  /\ pc[c] = "inner"
  /\ pc' = [pc EXCEPT ![c] = "return"]
  /\ verdict' = [verdict EXCEPT ![c] = Action(table[c], saddr[c])]
  /\ table' = [table EXCEPT ![c] = NULL]
  /\ UNCHANGED <<saddr, maps, swap, stage, attached>>

Return(c) ==
  /\ pc[c] = "return"
  /\ pc' = [pc EXCEPT ![c] = "idle"]
  /\ saddr' = [saddr EXCEPT ![c] = NULL]
  /\ verdict' = [verdict EXCEPT ![c] = NULL]
  /\ UNCHANGED <<table, maps, swap, stage, attached>>

----------------------------------------------------------------------------
(* swapPolicy, called by one goroutine at a time.                          *)

Unreferenced(t) == t # outer /\ t # inner /\ \A c \in CPUs : t # table[c]

\* binary.BigEndian.Uint32 reads the address as a number, and the map stores
\* that number in the machine's order: reversed on a little-endian machine.
Key(a) == IF LittleEndian THEN <<a[4], a[3], a[2], a[1]>> ELSE a

\* The process runs, and swapPolicy is at s.
At(s) == stage # "exited" /\ step = s

\* Mutant: a later swap empties the map in force and fills it in place.
NewMapInPlace ==
  /\ At("create")
  /\ \E t \in Tables :
       /\ t = outer \/ (outer = NULL /\ Unreferenced(t))
       /\ inner' = t
       /\ content' = [content EXCEPT ![t] = {}]
  /\ step' = "fill"
  /\ UNCHANGED <<program, outer, rules, todo, stage, attached>>

NewMap ==
  /\ At("create")
  /\ \E t \in Tables :
       /\ Unreferenced(t)
       /\ inner' = t
       /\ content' = [content EXCEPT ![t] = {}]
  /\ step' = "fill"
  /\ UNCHANGED <<program, outer, rules, todo, stage, attached>>

\* innerMap.Update(&ip, &act, ebpf.UpdateAny); every rule's action is 1.
Fill(a) ==
  /\ At("fill")
  /\ a \in todo
  /\ content' = [content EXCEPT ![inner] = @ \cup {Key(a)}]
  /\ todo' = todo \ {a}
  /\ UNCHANGED <<program, outer, step, inner, rules, stage, attached>>

\* Mutant: the map is published before every rule is in it.
FilledEarly ==
  /\ At("fill")
  /\ step' = "publish"
  /\ UNCHANGED <<program, maps, inner, rules, todo, stage, attached>>

Filled ==
  /\ At("fill")
  /\ todo = {}
  /\ step' = "publish"
  /\ UNCHANGED <<program, maps, inner, rules, todo, stage, attached>>

\* The deferred innerMap.Close and the return to the caller.
Leave ==
  /\ step' = "idle"
  /\ inner' = NULL
  /\ rules' = {}
  /\ todo' = {}

\* outer.Update(&key, innerMap, ebpf.UpdateAny); main goes on to serve commands.
Publish ==
  /\ At("publish")
  /\ outer' = inner
  /\ Leave
  /\ stage' = IF stage = "v1" THEN "serving" ELSE stage
  /\ UNCHANGED <<program, content, attached>>

\* Mutant: the first swap's error is ignored like the later ones'.
SwapFailsQuietly ==
  /\ At("create") \/ (At("fill") /\ todo # {}) \/ At("publish")
  /\ Leave
  /\ stage' = IF stage = "v1" THEN "serving" ELSE stage
  /\ UNCHANGED <<program, maps, attached>>

\* The creation or an update returns an error.  The first swap's is fatal, and
\* the link closes with the process; a later one's is ignored.
SwapFails ==
  /\ At("create") \/ (At("fill") /\ todo # {}) \/ At("publish")
  /\ Leave
  /\ stage' = IF stage = "v1" THEN "exited" ELSE stage
  /\ attached' = (attached /\ stage # "v1")
  /\ UNCHANGED <<program, maps>>

----------------------------------------------------------------------------
(* Commands and shutdown.                                                  *)

\* "swap"; the command goroutine reads on until the process ends.
SwapCommand ==
  /\ stage \in {"serving", "closing"}
  /\ step = "idle"
  /\ step' = "create"
  /\ rules' = V2
  /\ todo' = V2
  /\ UNCHANGED <<program, maps, inner, stage, attached>>

\* "exit" or a signal: main returns and closes the link, then the collection.
Close ==
  /\ stage = "serving"
  /\ stage' = "closing"
  /\ attached' = FALSE
  /\ UNCHANGED <<program, maps, swap>>

\* The process ends, killed or by itself: its descriptors close, and the command
\* goroutine stops wherever it is.
Exit ==
  /\ stage # "exited"
  /\ stage' = "exited"
  /\ attached' = FALSE
  /\ inner' = NULL
  /\ UNCHANGED <<program, maps, step, rules, todo>>

----------------------------------------------------------------------------

Program(c) == LookupOuter(c) \/ LookupInner(c) \/ Return(c)

SwapPolicy ==
  \/ NewMap
  \/ \E a \in Addresses : Fill(a)
  \/ Filled
  \/ Publish
  \/ SwapFails

Next ==
  \/ \E c \in CPUs : Program(c) \/ \E a \in Addresses : Receive(c, a)
  \/ SwapPolicy
  \/ SwapCommand
  \/ Close
  \/ Exit

\* An XDP program runs to its end and a goroutine is scheduled; packets, commands
\* and the end of the process are the environment's.
Spec ==
  /\ Init
  /\ [][Next]_vars
  /\ \A c \in CPUs : WF_vars(Program(c))
  /\ WF_vars(SwapPolicy)

----------------------------------------------------------------------------
(* Properties.                                                             *)

\* The addresses whose packets the program drops now.
Blocked == IF outer = NULL THEN {} ELSE Addresses \cap content[outer]

Atomic ==
  INSTANCE AtomicPolicy WITH
    Policies <- {V1, V2},
    policy   <- Blocked,
    packet   <- saddr,
    decision <- [c \in CPUs |-> IF pc[c] = "inner" THEN Action(table[c], saddr[c])
                                                   ELSE verdict[c]]

\* Two lookups (main.bpf.c:44, :50) and a swap in several system calls
\* (main.go:90-104) act as one: "Zero packet inconsistency" (README.md).  A packet
\* is decided when it reads outer_map, whatever is swapped before it reads the
\* inner map.
SwapIsAtomic == Atomic!Spec

\* swapPolicy's map is complete when it is published, under the keys the program
\* looks up (main.go:96-104): the policy in force is v1's or v2's, all of it,
\* whenever the loader takes commands.
WholePolicy == stage = "serving" => Blocked \in {V1, V2}

\* The inner map being filled is in nobody's hands: what makes SwapIsAtomic hold.
BuiltApart ==
  step \in {"fill", "publish"} /\ stage # "exited" =>
    /\ inner \in Tables
    /\ inner # outer
    /\ \A c \in CPUs : pc[c] = "inner" => table[c] # inner
    /\ content[inner] = {Key(a) : a \in rules \ todo}

\* The program is attached before the first swap (main.go:43, :57); it ends up
\* with v1, or off the hook.
FirstPolicy == (stage = "v1") ~> (Blocked = V1 \/ ~attached)

=============================================================================
