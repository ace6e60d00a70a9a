---------------------------- MODULE FlowTracker ----------------------------
(***************************************************************************)
(* Series 07: the LRU connection tracker.  track_flows looks a TCP flow up *)
(* in the LRU hash map flows and counts the packet through the pointer it  *)
(* got, or inserts the flow; it runs on every CPU at once, and the loader  *)
(* prints the table key by key meanwhile.                                  *)
(*                                                                         *)
(* The LRU map is modelled from its use.  Its elements are preallocated;   *)
(* an insertion evicts what flows it likes before it takes a free one: the *)
(* CPUs keep free elements to themselves, so that this happens before the  *)
(* map is full.  A pointer got earlier still leads to the element, whatever*)
(* it holds by then.  Flows share buckets; an insertion puts the flow at   *)
(* the head of its bucket, one that is in the map already as well.         *)
(***************************************************************************)
EXTENDS Integers, Sequences, FiniteSets, Functions

CONSTANTS
  CPUs,
  Flows,       \* flow_key values
  Hash,        \* the bucket of each flow
  Elements,    \* the elements of flows: max_entries of them (100000 in the source)
  Lengths,     \* values of pkt_len
  Lines,       \* lines of the printed table (10 in the source)
  MaxPackets,  \* bound on the packets of a behaviour; not in the code
  NULL

ASSUME SetAssumption == IsFiniteSet(CPUs) /\ CPUs # {} /\ IsFiniteSet(Elements)
ASSUME HashAssumption == Hash \in [Flows -> Nat]
ASSUME LengthAssumption == Lengths \subseteq Nat /\ Lines \in Nat /\ MaxPackets \in Nat
ASSUME NullAssumption == NULL \notin Flows \cup Elements

VARIABLES
  pc,        \* where each CPU is in track_flows; "idle" between packets
  key,       \* the activation's flow
  pkt_len,   \* its packet's length
  s,         \* its pointer into flows
  flows,     \* flows[f]: the element that holds f, or NULL
  since,     \* its place in its bucket: the later it was inserted, the nearer the head
  value,     \* flow_stats of each element; last_seen_ns is never read
  metrics,   \* total, updated and new, summed over the per-CPU cells
  main,      \* main: "loop", "final", "exited"
  top,       \* showTopFlows: "idle", "next" and "lookup" in iter.Next
  cursor,    \* the iterator's key
  count,     \* the keys it has had
  shown,     \* the flows printed
  stay,      \* history: flows in the map, and in their place, since showTopFlows was called
  jumped,    \* history: the iterator's flow was evicted or inserted again under it
  received,  \* history: packets of each flow
  inserted,  \* history: how often each flow was a "New flow"
  lost       \* history: flows that were evicted or not inserted

program == <<pc, key, pkt_len, s>>
table == <<top, cursor, count, shown>>
place == <<flows, since>>
watch == <<stay, jumped>>
vars == <<program, place, value, metrics, main, table, watch, received, inserted, lost>>

Stats == [packets : Nat, bytes : Nat]
Metrics == [total : Nat, updated : Nat, new : Nat]

Linked == {f \in Flows : flows[f] # NULL}

TypeOK ==
  /\ pc \in [CPUs -> {"idle", "packets", "bytes", "insert"}]
  /\ key \in [CPUs -> Flows \cup {NULL}]
  /\ pkt_len \in [CPUs -> Nat]
  /\ s \in [CPUs -> Elements \cup {NULL}]
  /\ flows \in [Flows -> Elements \cup {NULL}]
  /\ since \in [Flows -> Nat]
  /\ value \in [Elements -> Stats]
  /\ metrics \in Metrics
  /\ main \in {"loop", "final", "exited"}
  /\ top \in {"idle", "next", "lookup"}
  /\ cursor \in Flows \cup {NULL}
  /\ count \in Nat
  /\ shown \in Seq(Flows)
  /\ stay \in SUBSET Flows
  /\ jumped \in BOOLEAN
  /\ received \in [Flows -> Nat]
  /\ inserted \in [Flows -> Nat]
  /\ lost \in SUBSET Flows
  /\ \A c \in CPUs : pc[c] # "idle" => key[c] \in Flows
  /\ \A c \in CPUs : pc[c] \in {"packets", "bytes"} => s[c] \in Elements

Init ==
  /\ pc = [c \in CPUs |-> "idle"]
  /\ key = [c \in CPUs |-> NULL]
  /\ pkt_len = [c \in CPUs |-> 0]
  /\ s = [c \in CPUs |-> NULL]
  /\ flows = [f \in Flows |-> NULL]
  /\ since = [f \in Flows |-> 0]
  /\ value = [e \in Elements |-> [packets |-> 0, bytes |-> 0]]
  /\ metrics = [total |-> 0, updated |-> 0, new |-> 0]
  /\ main = "loop"
  /\ top = "idle"
  /\ cursor = NULL
  /\ count = 0
  /\ shown = <<>>
  /\ stay = {}
  /\ jumped = FALSE
  /\ received = [f \in Flows |-> 0]
  /\ inserted = [f \in Flows |-> 0]
  /\ lost = {}

----------------------------------------------------------------------------
(* track_flows.  The metrics are per-CPU cells that only showMetrics reads, *)
(* which prints them: each is counted with the access it follows.           *)

Receive(c) ==
  /\ main # "exited"
  /\ pc[c] = "idle"
  /\ metrics.total < MaxPackets
  /\ metrics' = [metrics EXCEPT !.total = @ + 1]

\* A frame that is short, not IPv4 or not TCP.
Untracked(c) ==
  /\ Receive(c)
  /\ UNCHANGED <<program, place, value, main, table, watch, received, inserted, lost>>

\* Mutant: every packet's flow is inserted.
MissAlways(f) == TRUE

\* bpf_map_lookup_elem(&flows, &key) returns NULL.
Miss(f) == flows[f] = NULL

Lookup(c, f, l) ==
  /\ Receive(c)
  /\ key' = [key EXCEPT ![c] = f]
  /\ pkt_len' = [pkt_len EXCEPT ![c] = l]
  /\ s' = [s EXCEPT ![c] = flows[f]]
  /\ pc' = [pc EXCEPT ![c] = IF Miss(f) THEN "insert" ELSE "packets"]
  /\ received' = [received EXCEPT ![f] = @ + 1]
  /\ UNCHANGED <<place, value, main, table, watch, inserted, lost>>

Return(c) ==
  /\ pc' = [pc EXCEPT ![c] = "idle"]
  /\ key' = [key EXCEPT ![c] = NULL]
  /\ pkt_len' = [pkt_len EXCEPT ![c] = 0]
  /\ s' = [s EXCEPT ![c] = NULL]

\* __sync_fetch_and_add(&s->packets, 1)
AddPackets(c) ==
  /\ pc[c] = "packets"
  /\ value' = [value EXCEPT ![s[c]].packets = @ + 1]
  /\ pc' = [pc EXCEPT ![c] = "bytes"]
  /\ UNCHANGED <<key, pkt_len, s, place, metrics, main, table, watch, received, inserted, lost>>

\* __sync_fetch_and_add(&s->bytes, pkt_len)
AddBytes(c) ==
  /\ pc[c] = "bytes"
  /\ value' = [value EXCEPT ![s[c]].bytes = @ + pkt_len[c]]
  /\ metrics' = [metrics EXCEPT !.updated = @ + 1]
  /\ Return(c)
  /\ UNCHANGED <<place, main, table, watch, received, inserted, lost>>

\* Mutant: new_s is added to what the element held.
AddedTo(e, l) == [packets |-> value[e].packets + 1, bytes |-> l]

\* new_s, whatever the element held.
Fresh(e, l) == [packets |-> 1, bytes |-> l]

\* What moves flow f: it did not stay in its place, and the iterator may stand on it.
Moved(f) ==
  /\ stay' = stay \ {f}
  /\ jumped' = (jumped \/ f = cursor)

\* bpf_map_update_elem(&flows, &key, &new_s, BPF_ANY): it evicts flows for want of free
\* elements, one or many, whichever they are,
Evict(c, f) ==
  /\ pc[c] = "insert"
  /\ f \in Linked
  /\ flows' = [flows EXCEPT ![f] = NULL]
  /\ since' = [since EXCEPT ![f] = 0]
  /\ lost' = lost \cup {f}
  /\ Moved(f)
  /\ UNCHANGED <<program, value, metrics, main, table, received, inserted>>

\* and links a free one at the head of the bucket; if another CPU has inserted the key
\* its element is freed.
Insert(c, e) ==
  /\ pc[c] = "insert"
  /\ e \notin Range(flows)
  /\ flows' = [flows EXCEPT ![key[c]] = e]
  /\ since' = [since EXCEPT ![key[c]] = metrics.new + 1]
  /\ value' = [value EXCEPT ![e] = Fresh(e, pkt_len[c])]
  /\ inserted' = [inserted EXCEPT ![key[c]] = @ + 1]
  /\ metrics' = [metrics EXCEPT !.new = @ + 1]
  /\ Moved(key[c])
  /\ Return(c)
  /\ UNCHANGED <<main, table, received, lost>>

\* No element is to be had: the error is ignored, and the flow counted as new.
InsertFails(c) ==
  /\ pc[c] = "insert"
  /\ lost' = lost \cup {key[c]}
  /\ inserted' = [inserted EXCEPT ![key[c]] = @ + 1]
  /\ metrics' = [metrics EXCEPT !.new = @ + 1]
  /\ Return(c)
  /\ UNCHANGED <<place, value, main, table, watch, received>>

----------------------------------------------------------------------------
(* The loader: showTopFlows, called on "top" and at the end by main.  Every *)
(* call has its own variables, so that one at a time is enough.             *)

StartTop ==
  /\ top = "idle"
  /\ top' = "next"
  /\ stay' = Linked
  /\ UNCHANGED <<cursor, count, shown, jumped>>

Top ==
  /\ main = "loop"
  /\ StartTop
  /\ UNCHANGED <<program, place, value, metrics, main, received, inserted, lost>>

\* The order of the keys: bucket by bucket, and from the head of each.
Before(f, g) ==
  \/ Hash[f] < Hash[g]
  \/ Hash[f] = Hash[g] /\ since[f] > since[g]

\* Mutant: an iteration whose key has gone is over.
AfterLost == IF cursor = NULL THEN Linked
             ELSE {f \in Linked : cursor \in Linked /\ Before(cursor, f)}

\* The keys behind the iterator's: all of them if that has gone.
After == IF cursor = NULL \/ cursor \notin Linked THEN Linked
         ELSE {f \in Linked : Before(cursor, f)}

\* iter.Next gives up after as many keys as the map can hold.
More == count <= Cardinality(Elements) /\ Len(shown) < Lines

\* iter.Next asks for the next key,
NextKey(f) ==
  /\ main # "exited"
  /\ top = "next"
  /\ More
  /\ f \in After
  /\ \A g \in After : ~Before(g, f)
  /\ cursor' = f
  /\ count' = count + 1
  /\ top' = "lookup"
  /\ UNCHANGED <<program, place, value, metrics, main, shown, watch, received, inserted, lost>>

\* and then looks it up, and goes on to the next if it has gone in between.
LookupKey ==
  /\ main # "exited"
  /\ top = "lookup"
  /\ shown' = IF cursor \in Linked THEN Append(shown, cursor) ELSE shown
  /\ top' = "next"
  /\ UNCHANGED <<program, place, value, metrics, main, cursor, count, watch, received,
                 inserted, lost>>

EndTop ==
  /\ main # "exited"
  /\ top = "next"
  /\ ~More \/ After = {}
  /\ top' = "idle"
  /\ cursor' = NULL
  /\ count' = 0
  /\ shown' = <<>>
  /\ stay' = {}
  /\ jumped' = FALSE
  /\ main' = IF main = "final" THEN "exited" ELSE main
  /\ UNCHANGED <<program, place, value, metrics, received, inserted, lost>>

\* "exit" or a signal: the final table, and then the deferred l.Close.
Signal ==
  /\ main = "loop"
  /\ main' = "final"
  /\ StartTop
  /\ UNCHANGED <<program, place, value, metrics, received, inserted, lost>>

----------------------------------------------------------------------------

Program(c) ==
  \/ Untracked(c) \/ AddPackets(c) \/ AddBytes(c) \/ InsertFails(c)
  \/ \E f \in Flows, l \in Lengths : Lookup(c, f, l)
  \/ \E f \in Flows : Evict(c, f)
  \/ \E e \in Elements : Insert(c, e)

Loader == Top \/ LookupKey \/ EndTop \/ Signal \/ \E f \in Flows : NextKey(f)

Next == Loader \/ \E c \in CPUs : Program(c)

Spec == Init /\ [][Next]_vars

----------------------------------------------------------------------------
(* Properties.                                                             *)

NCPU == Cardinality(CPUs)

\* The activations that are about to add to element e, or to insert flow f.
Holders(e) == {c \in CPUs : pc[c] = "packets" /\ s[c] = e}
Inserters(f) == {c \in CPUs : pc[c] = "insert" /\ key[c] = f}

\* The pointer of the lookup is added to (main.bpf.c:72-75) after its element may
\* have been evicted and given to another flow: a flow is still charged at most one
\* packet per other CPU that is not its own.
OwnPackets ==
  \A f \in Linked :
    value[flows[f]].packets + Cardinality(Holders(flows[f]))
      <= received[f] + NCPU - 1

\* CPUs that miss the same flow all insert it with BPF_ANY and all count it as new
\* (main.bpf.c:85-86): as long as it stays in the map, at most once per CPU.
NewOncePerCPU ==
  \A f \in Flows \ lost : inserted[f] + Cardinality(Inserters(f)) <= NCPU

\* The iteration starts again when the flow it stands on is evicted, and goes back in
\* the bucket when that is inserted again (main.go:107, main.bpf.c:85).  Only then does it
\* show a flow twice; and when it runs out of keys, no flow that stayed is missing.
TableExplained ==
  /\ IsInjective(shown) \/ jumped
  /\ top = "next" /\ More /\ After = {} => stay \subseteq Range(shown)

=============================================================================
