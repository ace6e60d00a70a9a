------------------------------ MODULE Sockmap ------------------------------
(***************************************************************************)
(* Series 05: track_sockets puts every socket that is established into     *)
(* sock_ops_map under its local port; redirect_msg, which runs when such a *)
(* socket sends, counts the message and redirects it to the socket that is *)
(* registered under the sender's remote port.                              *)
(*                                                                         *)
(* The two ports of the kernel's contexts differ in their byte order:      *)
(* local_port is the host's, remote_port the network's.  redirect_msg runs *)
(* in the sender's system call, bound to a CPU but, on a preemptible       *)
(* kernel, not alone on it.  printMetrics only reads, as PacketCounters    *)
(* does, and is left out.                                                  *)
(***************************************************************************)
EXTENDS Integers, FiniteSets, Functions

CONSTANTS
  CPUs,
  Sockets,      \* TCP sockets of the host
  Peer,         \* the other end of each one's connection
  Local,        \* the local port of each
  Base,         \* values of a byte (256 in the source)
  Sizes,        \* values of msg->size
  MaxMessages,  \* bound on the messages; not in the code
  NULL

ASSUME BaseAssumption == Base \in Nat \ {0, 1}
ASSUME PortAssumption == Local \in [Sockets -> 1..(Base * Base - 1)]
ASSUME PeerAssumption ==
  Peer \in [Sockets -> Sockets] /\ \A s \in Sockets : Peer[s] # s /\ Peer[Peer[s]] = s
ASSUME SizeAssumption == Sizes \subseteq Nat /\ MaxMessages \in Nat
ASSUME NullAssumption == NULL \notin Sockets \cup CPUs
ASSUME FiniteAssumption == IsFiniteSet(Sockets) /\ IsFiniteSet(CPUs)

VARIABLES
  littleEndian,  \* the machine, and whether its kernel is preemptible
  preemptible,
  main,          \* the loader: "sockops", "both" attached, "exited"; before that "none"
  state,         \* each socket: "new", "established", "closed"
  verdict,       \* the sockets that redirect_msg runs for
  sock_ops_map,
  metrics,       \* "Messages redirected" and "Bytes redirected", by CPU
  pc,            \* where each socket's send is in redirect_msg
  cpu,           \* the CPU it runs on
  size,          \* the size of its message, until that is counted
  register,      \* what it loaded
  target,        \* the socket it redirects to
  received,      \* history: messages that redirect_msg was run for, and their bytes
  arrived        \* history: whose redirected messages arrived at each socket

machine == <<littleEndian, preemptible>>
program == <<pc, cpu, size, register, target>>
sockets == <<main, state, verdict, sock_ops_map>>
vars == <<machine, sockets, program, metrics, received, arrived>>

MaxEntries == Base * Base - 1     \* 65535
Keys == 0..(MaxEntries - 1)

Metrics == [messages : Nat, bytes : Nat]
Zero == [messages |-> 0, bytes |-> 0]

TypeOK ==
  /\ littleEndian \in BOOLEAN /\ preemptible \in BOOLEAN
  /\ main \in {"none", "sockops", "both", "exited"}
  /\ state \in [Sockets -> {"new", "established", "closed"}]
  /\ verdict \in SUBSET Sockets
  /\ sock_ops_map \in [Keys -> Sockets \cup {NULL}]
  /\ metrics \in [CPUs -> Metrics]
  /\ pc \in [Sockets -> {"idle", "messages", "bytes", "redirect", "send"}]
  /\ cpu \in [Sockets -> CPUs \cup {NULL}]
  /\ size \in [Sockets -> Nat]
  /\ register \in [Sockets -> Nat]
  /\ target \in [Sockets -> Sockets \cup {NULL}]
  /\ received \in Metrics
  /\ arrived \in [Sockets -> SUBSET Sockets]
  /\ \A s \in Sockets : pc[s] \in {"messages", "bytes", "redirect"} => cpu[s] \in CPUs
  /\ \A s \in Sockets : pc[s] = "send" => target[s] \in Sockets

Init ==
  /\ littleEndian \in BOOLEAN
  /\ preemptible \in BOOLEAN
  /\ main = "none"
  /\ state = [s \in Sockets |-> "new"]
  /\ verdict = {}
  /\ sock_ops_map = [k \in Keys |-> NULL]
  /\ metrics = [c \in CPUs |-> Zero]
  /\ pc = [s \in Sockets |-> "idle"]
  /\ cpu = [s \in Sockets |-> NULL]
  /\ size = [s \in Sockets |-> 0]
  /\ register = [s \in Sockets |-> 0]
  /\ target = [s \in Sockets |-> NULL]
  /\ received = Zero
  /\ arrived = [s \in Sockets |-> {}]

----------------------------------------------------------------------------
(* Byte order.                                                             *)

\* The four bytes of a word in reverse.
Swapped(n) ==
  LET byte(i) == (n \div i) % Base IN
  byte(1) * Base * Base * Base + byte(Base) * Base * Base
    + byte(Base * Base) * Base + byte(Base * Base * Base)

bpf_ntohl(n) == IF littleEndian THEN Swapped(n) ELSE n

\* The field remote_port of struct sk_msg_md.
remote_port(s) == IF littleEndian THEN Swapped(Local[Peer[s]]) ELSE Local[Peer[s]]

----------------------------------------------------------------------------
(* track_sockets, and the end of a socket, which leaves the map.           *)

\* Mutant: the port as it is in the context.
KeyAsItIs(s) == Local[s]

Key(s) == bpf_ntohl(Local[s])

\* bpf_sock_map_update with BPF_NOEXIST; the error is ignored.  A socket takes on
\* redirect_msg only if that is attached by then.
Register(s) ==
  IF Key(s) \in Keys /\ sock_ops_map[Key(s)] = NULL
    THEN /\ sock_ops_map' = [sock_ops_map EXCEPT ![Key(s)] = s]
         /\ verdict' = IF main = "both" THEN verdict \cup {s} ELSE verdict
    ELSE UNCHANGED <<sock_ops_map, verdict>>

Establish(s) ==
  /\ state[s] = "new"
  /\ state[Peer[s]] # "closed"
  /\ state' = [state EXCEPT ![s] = "established"]
  /\ IF main \in {"sockops", "both"} THEN Register(s) ELSE UNCHANGED <<sock_ops_map, verdict>>
  /\ UNCHANGED <<machine, main, program, metrics, received, arrived>>

CloseSocket(s) ==
  /\ state[s] = "established"
  /\ pc[s] = "idle"
  /\ state' = [state EXCEPT ![s] = "closed"]
  /\ sock_ops_map' = [k \in Keys |-> IF sock_ops_map[k] = s THEN NULL ELSE sock_ops_map[k]]
  /\ verdict' = verdict \ {s}
  /\ UNCHANGED <<machine, main, program, metrics, received, arrived>>

----------------------------------------------------------------------------
(* redirect_msg.                                                           *)

dest_key(s) == bpf_ntohl(remote_port(s))

Found(s) == IF dest_key(s) \in Keys THEN sock_ops_map[dest_key(s)] ELSE NULL

\* Without preemption a CPU runs one program at a time.
MayRun(c) == preemptible \/ \A s \in Sockets : cpu[s] # c

\* A registered socket sends n bytes: *cnt is loaded,
Send(s, c, n) ==
  /\ s \in verdict
  /\ pc[s] = "idle"
  /\ MayRun(c)
  /\ received.messages < MaxMessages
  /\ received' = [messages |-> received.messages + 1, bytes |-> received.bytes + n]
  /\ pc' = [pc EXCEPT ![s] = "messages"]
  /\ cpu' = [cpu EXCEPT ![s] = c]
  /\ size' = [size EXCEPT ![s] = n]
  /\ register' = [register EXCEPT ![s] = metrics[c].messages]
  /\ UNCHANGED <<machine, sockets, target, metrics, arrived>>

\* Mutant: a message that is going to be refused is not counted.
StoreIfFound(s) ==
  /\ pc[s] = "messages"
  /\ metrics' = IF Found(s) = NULL THEN metrics
                ELSE [metrics EXCEPT ![cpu[s]].messages = register[s] + 1]
  /\ register' = [register EXCEPT ![s] = metrics[cpu[s]].bytes]
  /\ pc' = [pc EXCEPT ![s] = "bytes"]
  /\ UNCHANGED <<machine, sockets, cpu, size, target, received, arrived>>

\* and stored; *bytes is loaded,
Store(s) ==
  /\ pc[s] = "messages"
  /\ metrics' = [metrics EXCEPT ![cpu[s]].messages = register[s] + 1]
  /\ register' = [register EXCEPT ![s] = metrics[cpu[s]].bytes]
  /\ pc' = [pc EXCEPT ![s] = "bytes"]
  /\ UNCHANGED <<machine, sockets, cpu, size, target, received, arrived>>

\* and stored.
StoreBytes(s) ==
  /\ pc[s] = "bytes"
  /\ metrics' = [metrics EXCEPT ![cpu[s]].bytes = register[s] + size[s]]
  /\ size' = [size EXCEPT ![s] = 0]
  /\ pc' = [pc EXCEPT ![s] = "redirect"]
  /\ UNCHANGED <<machine, sockets, cpu, register, target, received, arrived>>

\* bpf_msg_redirect_map: SK_DROP if nobody is registered under the key.
Redirect(s) ==
  /\ pc[s] = "redirect"
  /\ target' = [target EXCEPT ![s] = Found(s)]
  /\ pc' = [pc EXCEPT ![s] = IF Found(s) = NULL THEN "idle" ELSE "send"]
  /\ cpu' = [cpu EXCEPT ![s] = NULL]
  /\ register' = [register EXCEPT ![s] = 0]
  /\ UNCHANGED <<machine, sockets, size, metrics, received, arrived>>

\* Mutant: BPF_F_INGRESS, into the socket's own queue.
Ingress(t) == t

\* Flags 0: the message goes out through the socket, to that one's peer.
Egress(t) == Peer[t]

\* It is lost if the socket was closed meanwhile.
Deliver(s) ==
  /\ pc[s] = "send"
  /\ arrived' = IF state[target[s]] = "established"
                  THEN [arrived EXCEPT ![Egress(target[s])] = @ \cup {s}] ELSE arrived
  /\ pc' = [pc EXCEPT ![s] = "idle"]
  /\ target' = [target EXCEPT ![s] = NULL]
  /\ UNCHANGED <<machine, sockets, cpu, size, register, metrics, received>>

----------------------------------------------------------------------------
(* The loader.  Each registered socket keeps redirect_msg, and the map with *)
(* it, until it is closed.                                                 *)

Main(from, to) ==
  /\ main = from
  /\ main' = to
  /\ UNCHANGED <<machine, state, verdict, sock_ops_map, program, metrics, received, arrived>>

AttachCgroup == Main("none", "sockops")
AttachVerdict == Main("sockops", "both")

\* log.Fatalf, or "exit" and the deferred calls.
Exit == Main("sockops", "exited") \/ Main("both", "exited")

----------------------------------------------------------------------------

Next ==
  \/ AttachCgroup \/ AttachVerdict \/ Exit
  \/ \E s \in Sockets :
       \/ Establish(s) \/ CloseSocket(s)
       \/ Store(s) \/ StoreBytes(s) \/ Redirect(s) \/ Deliver(s)
       \/ \E c \in CPUs, n \in Sizes : Send(s, c, n)

Spec == Init /\ [][Next]_vars

----------------------------------------------------------------------------
(* Properties.                                                             *)

\* "TCP sockets auto-registered on connect" (main.go:75): on a little-endian machine
\* none is, because local_port is already in host order and bpf_ntohl (main.bpf.c:27)
\* moves it beyond max_entries; no message is redirected or counted.
LittleEndianInert ==
  littleEndian => /\ \A k \in Keys : sock_ops_map[k] = NULL
                  /\ \A c \in CPUs : metrics[c] = Zero

\* Flags 0 (main.bpf.c:44) send a message out through the socket that was found: it
\* never arrives at its sender's peer, but at its sender, or, if several connections
\* share the remote port, at the peer of the one that was registered first.
NotForwarded ==
  \A s \in Sockets : Local[s] # Local[Peer[s]] => s \notin arrived[Peer[s]]

At(S) == {s \in Sockets : pc[s] \in S}
Shown(idx) == SumFunction([c \in CPUs |-> metrics[c][idx]])

Counted ==
  [messages |-> received.messages - Cardinality(At({"messages"})),
   bytes |-> received.bytes - SumFunctionOnSet(size, At({"messages", "bytes"}))]

\* What is labelled "Messages redirected" and "Bytes redirected" (main.bpf.c:39-42,
\* main.go:114) has every message that redirect_msg saw, those it refused too; some are
\* missing if the kernel is preemptible and two programs on a CPU load before either stores.
MessagesCounted ==
  \A idx \in {"messages", "bytes"} :
    Shown(idx) <= Counted[idx] /\ (preemptible \/ Shown(idx) = Counted[idx])

=============================================================================
