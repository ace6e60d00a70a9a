---------------------------- MODULE RateLimiter ----------------------------
(***************************************************************************)
(* Series 11: the TC egress rate limiter.  The kernel program rate_limiter *)
(* runs on every CPU at once and shares the hash map pkt_count (source     *)
(* address -> packets in this interval) with the loader, whose ticker      *)
(* ends an interval by deleting every key it finds in the map.             *)
(*                                                                         *)
(* One activation per CPU: a TC program runs with bottom halves off, so    *)
(* CPUs interleave with each other but never with themselves.  An          *)
(* activation is cut at its accesses to shared memory: the map lookup, the *)
(* read of *count, the atomic add, and the map update.                     *)
(*                                                                         *)
(* pkt_count is a preallocated BPF hash map (modelled from its use): every *)
(* key owns an element of a fixed pool, a lookup returns a pointer into    *)
(* the pool, and an element that is deleted or replaced goes back to the   *)
(* pool at once, so a pointer obtained before may see it reused for        *)
(* another key.  Replacing a key swaps its element with one kept spare per *)
(* CPU.                                                                    *)
(***************************************************************************)
EXTENDS Integers, FiniteSets

CONSTANTS
  CPUs,        \* the processors that run rate_limiter
  Sources,     \* IPv4 source addresses
  Elements,    \* the preallocated elements of pkt_count
  MaxEntries,  \* max_entries of pkt_count (10000 in the source)
  RATE_LIMIT,  \* packets per interval and source (100 in the source)
  MaxPackets,  \* bound on the packets of a behaviour; not in the code
  NULL

ASSUME LimitAssumption == RATE_LIMIT \in Nat \ {0}
ASSUME CPUsAssumption == IsFiniteSet(CPUs) /\ CPUs # {}
ASSUME SourcesAssumption == IsFiniteSet(Sources)
ASSUME BoundAssumption == MaxPackets \in Nat /\ MaxEntries \in Nat \ {0}
ASSUME NullAssumption == NULL \notin Elements \cup Sources
ASSUME PoolAssumption ==
  IsFiniteSet(Elements) /\ Cardinality(Elements) = MaxEntries + Cardinality(CPUs)

VARIABLES
  pc,         \* where each CPU is in rate_limiter; "idle" between packets
  src_ip,     \* the activation's source address
  count,      \* the activation's pointer into pkt_count, or NULL
  pkt_count,  \* pkt_count[s]: the element that holds s, or NULL
  value,      \* the u64 stored in each element, linked or not
  spare,      \* the element each CPU keeps for replacing a key
  metrics,    \* total and dropped packets, summed over the per-CPU cells
  loop,       \* where the loader's main goroutine is
  keys,       \* resetCounters: the keys collected and not yet deleted
  pending,    \* resetCounters: keys the iterator is bound to return
  attached,   \* whether the filter is on the egress hook
  admitted    \* history: packets of each source let through in its interval

kernel == <<pc, src_ip, count, pkt_count, value, spare, metrics>>
loader == <<loop, keys, attached>>
vars == <<pc, src_ip, count, pkt_count, value, spare, metrics,
          loop, keys, pending, attached, admitted>>

Linked == {s \in Sources : pkt_count[s] # NULL}
Free == Elements \ ({pkt_count[s] : s \in Linked} \cup {spare[c] : c \in CPUs})

TypeOK ==
  /\ pc \in [CPUs -> {"idle", "check", "add", "update"}]
  /\ src_ip \in [CPUs -> Sources \cup {NULL}]
  /\ count \in [CPUs -> Elements \cup {NULL}]
  /\ pkt_count \in [Sources -> Elements \cup {NULL}]
  /\ value \in [Elements -> Nat]
  /\ spare \in [CPUs -> Elements]
  /\ metrics \in [total : Nat, dropped : Nat]
  /\ loop \in {"wait", "collect", "delete", "exited"}
  /\ keys \subseteq Sources
  /\ pending \subseteq Sources
  /\ attached \in BOOLEAN
  /\ admitted \in [Sources -> Nat]
  /\ \A c \in CPUs : pc[c] # "idle" => src_ip[c] \in Sources
  /\ \A c \in CPUs : pc[c] \in {"check", "add"} => count[c] \in Elements

\* Freshly loaded maps: no key, every element zero, one spare per CPU.
Init ==
  /\ pc = [c \in CPUs |-> "idle"]
  /\ src_ip = [c \in CPUs |-> NULL]
  /\ count = [c \in CPUs |-> NULL]
  /\ pkt_count = [s \in Sources |-> NULL]
  /\ value = [e \in Elements |-> 0]
  /\ spare \in [CPUs -> Elements]
  /\ \A c, d \in CPUs : spare[c] = spare[d] => c = d
  /\ metrics = [total |-> 0, dropped |-> 0]
  /\ loop = "wait"
  /\ keys = {}
  /\ pending = {}
  /\ attached = TRUE
  /\ admitted = [s \in Sources |-> 0]

----------------------------------------------------------------------------
(* The kernel program, one activation per CPU.                             *)

Return(c) ==
  /\ pc' = [pc EXCEPT ![c] = "idle"]
  /\ src_ip' = [src_ip EXCEPT ![c] = NULL]
  /\ count' = [count EXCEPT ![c] = NULL]

\* TC_ACT_OK for the activation's source.
Admit(c) ==
  /\ admitted' = [admitted EXCEPT ![src_ip[c]] = @ + 1]
  /\ Return(c)

\* A packet that is too short or not IPv4 returns TC_ACT_OK before any map is
\* touched: a stuttering step.  Any other packet is counted and looked up.
Enter(c, s) ==
  /\ attached
  /\ pc[c] = "idle"
  /\ metrics.total < MaxPackets
  /\ metrics' = [metrics EXCEPT !.total = @ + 1]
  /\ src_ip' = [src_ip EXCEPT ![c] = s]
  /\ count' = [count EXCEPT ![c] = pkt_count[s]]
  /\ pc' = [pc EXCEPT ![c] = IF pkt_count[s] = NULL THEN "update" ELSE "check"]
  /\ UNCHANGED <<pkt_count, value, spare, loader, pending, admitted>>

\* Mutant: a source is dropped as soon as it has a counter.
DropSeen(c) ==
  /\ pc[c] = "check"
  /\ metrics' = [metrics EXCEPT !.dropped = @ + 1]
  /\ Return(c)
  /\ UNCHANGED <<pkt_count, value, spare, loader, pending, admitted>>

\* *count >= RATE_LIMIT: TC_ACT_SHOT.
Drop(c) ==
  /\ pc[c] = "check"
  /\ value[count[c]] >= RATE_LIMIT
  /\ metrics' = [metrics EXCEPT !.dropped = @ + 1]
  /\ Return(c)
  /\ UNCHANGED <<pkt_count, value, spare, loader, pending, admitted>>

\* Mutant: the test is > instead of >=.
UpToLimit(c) ==
  /\ pc[c] = "check"
  /\ value[count[c]] <= RATE_LIMIT
  /\ pc' = [pc EXCEPT ![c] = "add"]
  /\ UNCHANGED <<src_ip, count, pkt_count, value, spare, metrics, loader, pending,
                 admitted>>

UnderLimit(c) ==
  /\ pc[c] = "check"
  /\ value[count[c]] < RATE_LIMIT
  /\ pc' = [pc EXCEPT ![c] = "add"]
  /\ UNCHANGED <<src_ip, count, pkt_count, value, spare, metrics, loader, pending,
                 admitted>>

\* Mutant: the packet is let through and not counted.
AdmitUncounted(c) ==
  /\ pc[c] = "add"
  /\ Admit(c)
  /\ UNCHANGED <<value, pkt_count, spare, metrics, loader, pending>>

\* __sync_fetch_and_add(count, 1)
Add(c) ==
  /\ pc[c] = "add"
  /\ value' = [value EXCEPT ![count[c]] = @ + 1]
  /\ Admit(c)
  /\ UNCHANGED <<pkt_count, spare, metrics, loader, pending>>

\* Mutant: the element is taken as its last owner left it and then counted up.
CreateUnset(c) ==
  /\ pc[c] = "update"
  /\ pkt_count[src_ip[c]] = NULL
  /\ \E e \in Free :
       /\ value' = [value EXCEPT ![e] = @ + 1]
       /\ pkt_count' = [pkt_count EXCEPT ![src_ip[c]] = e]
  /\ Admit(c)
  /\ UNCHANGED <<spare, metrics, loader, pending>>

\* bpf_map_update_elem(&pkt_count, &src_ip, &init_val, BPF_ANY) has three
\* outcomes.  The key is still absent and the pool has an element:
Create(c) ==
  /\ pc[c] = "update"
  /\ pkt_count[src_ip[c]] = NULL
  /\ \E e \in Free :
       /\ value' = [value EXCEPT ![e] = 1]
       /\ pkt_count' = [pkt_count EXCEPT ![src_ip[c]] = e]
  /\ Admit(c)
  /\ UNCHANGED <<spare, metrics, loader, pending>>

\* another CPU has inserted the key since the lookup: its element is replaced
\* (and an iterator already past the new element's place will not return it);
Replace(c) ==
  /\ pc[c] = "update"
  /\ pkt_count[src_ip[c]] # NULL
  /\ value' = [value EXCEPT ![spare[c]] = 1]
  /\ pkt_count' = [pkt_count EXCEPT ![src_ip[c]] = spare[c]]
  /\ spare' = [spare EXCEPT ![c] = pkt_count[src_ip[c]]]
  /\ pending' = pending \ {src_ip[c]}
  /\ Admit(c)
  /\ UNCHANGED <<metrics, loader>>

\* the pool is empty: -E2BIG, which the program ignores.
MapFull(c) ==
  /\ pc[c] = "update"
  /\ pkt_count[src_ip[c]] = NULL
  /\ Free = {}
  /\ Admit(c)
  /\ UNCHANGED <<pkt_count, value, spare, metrics, loader, pending>>

----------------------------------------------------------------------------
(* The loader's main goroutine: one tick shows the maps and resets them.   *)

\* showMetrics and showRates only print; resetCounters starts to iterate.
Tick ==
  /\ loop = "wait"
  /\ loop' = "collect"
  /\ pending' = Linked
  /\ UNCHANGED <<kernel, keys, attached, admitted>>

\* iter.Next: any key in the map now, those there from the start for certain.
Collect(s) ==
  /\ loop = "collect"
  /\ s \in Linked \ keys
  /\ keys' = keys \cup {s}
  /\ pending' = pending \ {s}
  /\ UNCHANGED <<kernel, loop, attached, admitted>>

EndCollect ==
  /\ loop = "collect"
  /\ pending = {}
  /\ loop' = "delete"
  /\ UNCHANGED <<kernel, keys, pending, attached, admitted>>

\* Mutant: a deletion that does not reach the map; the error is not looked at.
DeleteLost(s) ==
  /\ loop = "delete"
  /\ s \in keys
  /\ keys' = keys \ {s}
  /\ UNCHANGED <<kernel, loop, pending, attached, admitted>>

\* m.Delete(&k): the element returns to the pool with its value, and a new
\* interval starts for k.
Delete(s) ==
  /\ loop = "delete"
  /\ s \in keys
  /\ keys' = keys \ {s}
  /\ pkt_count' = [pkt_count EXCEPT ![s] = NULL]
  /\ admitted' = [admitted EXCEPT ![s] = 0]
  /\ UNCHANGED <<pc, src_ip, count, value, spare, metrics, loop, pending, attached>>

EndReset ==
  /\ loop = "delete"
  /\ keys = {}
  /\ loop' = "wait"
  /\ UNCHANGED <<kernel, keys, pending, attached, admitted>>

\* SIGINT or SIGTERM is read between ticks; the deferred qdisc deletion takes
\* the filter off the hook.  Activations in flight still run to their end.
Shutdown ==
  /\ loop = "wait"
  /\ loop' = "exited"
  /\ attached' = FALSE
  /\ UNCHANGED <<kernel, keys, pending, admitted>>

----------------------------------------------------------------------------

Program(c) ==
  \/ \E s \in Sources : Enter(c, s)
  \/ Drop(c)
  \/ UnderLimit(c)
  \/ Add(c)
  \/ Create(c)
  \/ Replace(c)
  \/ MapFull(c)

Interval ==
  \/ Tick
  \/ EndCollect
  \/ EndReset
  \/ \E s \in Sources : Collect(s) \/ Delete(s)

Next == Interval \/ Shutdown \/ \E c \in CPUs : Program(c)

\* The goroutine's loop is scheduled and its ticker fires; traffic and signals
\* are the environment's.
Spec == Init /\ [][Next]_vars /\ WF_vars(Interval)

----------------------------------------------------------------------------
(* Properties.                                                             *)

\* The CPUs that have passed the test of *count and have yet to add to e.
Adders(e) == {c \in CPUs : pc[c] = "add" /\ count[c] = e}

NCPU == Cardinality(CPUs)

\* The test and the add are two steps (main.bpf.c:51 and :55), so a counter can
\* pass RATE_LIMIT; but by no more than the other CPUs in between, whatever is
\* deleted, replaced or reused meanwhile.
CounterBounded == \A s \in Linked : value[pkt_count[s]] <= RATE_LIMIT + NCPU - 1

\* The same with the adds that are already decided counted in, and for every
\* element of the pool: what makes CounterBounded inductive.
ElementBounded ==
  \A e \in Elements : value[e] + Cardinality(Adders(e)) <= RATE_LIMIT + NCPU - 1

\* BPF_ANY (main.bpf.c:58) restarts the count of a key that another CPU has
\* inserted since the lookup, and a pointer held across a reset counts nowhere.
\* Each CPU can do the first once in an interval and carry one pointer, so what a
\* source gets in an interval stays bounded, provided the map has room for every
\* source: where it has not, MapFull lets everything through.
IntervalBound ==
  Cardinality(Sources) <= MaxEntries =>
    \A s \in Sources : admitted[s] <= NCPU * (RATE_LIMIT + NCPU)

\* The CPUs that looked s up while it was absent and have yet to insert it, and
\* how many CPUs are not among them.
Inserters(s) == {c \in CPUs : pc[c] = "update" /\ src_ip[c] = s}
Settled(s) == NCPU - Cardinality(Inserters(s))

\* The CPUs that hold for s an element that is no longer the element of s.
Stale(s) ==
  {c \in CPUs : pc[c] \in {"check", "add"} /\ src_ip[c] = s /\ count[c] # pkt_count[s]}

\* While s is in the map nobody joins its inserters, and an inserter adds to no
\* counter: CounterBounded, with the CPUs that can add counted exactly.
AddersOnly ==
  \A s \in Linked :
    value[pkt_count[s]] + Cardinality(Adders(pkt_count[s])) <= RATE_LIMIT - 1 + Settled(s)

\* What an interval has let through, the pointers that will still let one packet
\* through uncounted included.  Absent, s gets one packet per pointer kept from
\* before the reset; every insertion then begins a new count, and leaves one
\* inserter fewer and at most Settled(s) pointers to the element it replaced.
IntervalCounted ==
  \A s \in Sources :
    admitted[s] + Cardinality(Stale(s)) <=
      IF pkt_count[s] = NULL
        THEN NCPU
        ELSE value[pkt_count[s]] + NCPU + (Settled(s) - 1) * (RATE_LIMIT - 1 + Settled(s))

\* The activations that hold e for a source other than s.
Foreign(e, s) == {c \in CPUs : pc[c] \in {"check", "add"} /\ count[c] = e /\ src_ip[c] # s}

\* A source is charged for others only through a recycled element, and at most
\* once by each of the other CPUs.
ChargedFairly ==
  \A s \in Linked :
    value[pkt_count[s]] + Cardinality(Foreign(pkt_count[s], s)) <= admitted[s] + NCPU - 1

\* No element has two owners: what makes ChargedFairly inductive.
OneOwner ==
  /\ \A s, t \in Linked : pkt_count[s] = pkt_count[t] => s = t
  /\ \A c, d \in CPUs : spare[c] = spare[d] => c = d
  /\ \A s \in Linked, c \in CPUs : pkt_count[s] # spare[c]

\* A packet is dropped on the source's own counter only when nearly RATE_LIMIT
\* packets of that source went through in the interval (main.bpf.c:51-53).
DropsNearLimit ==
  [][\A c \in CPUs :
       Drop(c) /\ count[c] = pkt_count[src_ip[c]]
         => admitted[src_ip[c]] >= RATE_LIMIT - (NCPU - 1)]_vars

Limited(s) == pkt_count[s] # NULL /\ value[pkt_count[s]] >= RATE_LIMIT

\* A source that is being dropped is let through again: the ticker's reset
\* (main.go:76-79) reaches every limited counter unless the loader has quit.
LimitLifted == \A s \in Sources : Limited(s) ~> (~Limited(s) \/ loop = "exited")

=============================================================================
