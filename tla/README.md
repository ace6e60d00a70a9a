# Models of the eBPF Mastery lessons

The repository is eleven lessons. Each is a BPF program (`main.bpf.c`) that the kernel
runs on every CPU at once, a Go loader (`main.go`) that shares maps with it, and a
README. The lessons do not call each other, and only two of them meet: 10 and 11 use the
egress hook of one interface. Inside a lesson, program and loader interact through
shared maps and buffers only, with no lock between them. That is where the hard
behaviour is, and what these modules are about.

## Inventory

Every loader has the same skeleton: load the collection, attach, start goroutines
(a command reader on stdin, a ticker or a reader of events), wait on `sigChan`
(capacity 1), run the deferred clean-up in reverse order.

| Part | State | Operations | What is hard | What makes it correct |
|---|---|---|---|---|
| 01 XDP firewall | `blocklist` (hash), `metrics` (per CPU) | packet: look up, count; `block`, `unblock`, `list`; metrics ticker | verdicts under way while a command writes; counters read while they move | a command takes effect but for the packets already looked up; no packet is uncounted |
| 02 execve auditor | `uid_filter` with a sentinel key, `counters`, perf buffers | call: count, two lookups, emit; `watchuid`, `unwatchuid`, `clearfilter`, `stats`; reader; shutdown | two lookups against two puts, full buffers, torn totals, reader closed before detach | every call is accounted for; nobody is suppressed without reason |
| 03 I/O latency | `start_times`, `latencies`, `read_lat`, `write_lat` | start, done; `show`, `reads`, `clear`; ticker | reused addresses, missed probes, full map, clearing two maps under adds | a latency is that of its own request; the histograms agree |
| 04 TLS capture | `event_buf` (one per CPU), `counters`, perf buffers | `SSL_write` probe; reader; `stats` | preemption between fill and output, stale tail, lost events | a line shows one write's data |
| 05 sockmap | `sock_ops_map`, `metrics` | register on connect, redirect on send | byte order of the key, key collisions, direction of the redirection, plain adds under preemption | a message reaches the socket of its connection; it is counted |
| 06 ring buffer | the ring, `drop_count`, `received` | reserve, fill, submit; read; `stats`; shutdown | out-of-order submission, wake-up, full ring, memory reused, race on `received` | one ordered stream, each open once or counted as dropped |
| 07 LRU flows | `flows` (LRU hash), `metrics` | look up, add or insert; `top`, `stats` | insert race, eviction under a pointer, iteration under eviction | a flow counts its own packets; the table repeats or misses a flow only for one that moved |
| 08 per-CPU counters | `metrics` | count; `stats`, `cores` | plain adds, torn reading | nothing is lost; a printed number is one that the cell had |
| 09 map-in-map | `outer_map`, inner maps | packet: two lookups; `swapPolicy` | swap between the lookups, partial failure, byte order | packets see whole policies, one at a time |
| 10 queue shaper | `packet_queue` | push on egress, `pop` | two instances of the map, full queue | what is pushed can be popped |
| 11 rate limiter | `pkt_count` (hash), `metrics`; qdisc, filter, pin | packet: look up, test, add or insert; ticker: show and reset; set-up and clean-up of the hook | test-then-add, insert race, recycled elements, full map, non-atomic reset; set-up that fails half way, killed loaders | a source gets about RATE_LIMIT packets in an interval, and its own; a start recovers from what another left |

`github.com/cilium/ebpf`, the BPF maps and the hooks are outside the repository. They
are modelled from how the lessons use them, and `PROJECT.json` marks those
definitions external.

## Modules

| Component | Specification | Instance for TLC | Proofs | Abstract specification |
|---|---|---|---|---|
| 11 rate limiter, the program | `RateLimiter` | `MCRateLimiter` | `RateLimiterProof` | |
| 11 set-up, 10 queue shaper | `TcEgress` | `MCTcEgress` | in `RateLimiterProof` | |
| 09 map-in-map | `PolicySwap` | `MCPolicySwap` | `PolicySwapProof` | `AtomicPolicy` |
| 02 execve auditor | `ExecveAudit` | `MCExecveAudit` | `ExecveAuditProof` | |
| 06 ring buffer | `RingStream` | `MCRingStream` | `RingStreamProof` | `OrderedStream` |
| 03 I/O latency | `IoLatency` | `MCIoLatency` | `ProbesProof` | |
| 07 LRU flows | `FlowTracker` | `MCFlowTracker` | `FlowTrackerProof` | |
| 01 XDP firewall | `Firewall` | `MCFirewall` | `FirewallProof` | `PacketCounters` |
| 08 per-CPU counters | `PacketCounters` | as part of `MCFirewall` | in `FirewallProof` | |
| 05 sockmap | `Sockmap` | `MCSockmap` | `SockmapProof` | |
| 04 TLS capture | `TlsCapture` | `MCTlsCapture` | in `ProbesProof` | |

Conventions. One activation of a program per CPU: the hooks run with migration and
re-entry excluded. The programs that run in a task's system call (04, 05) are bound to
their CPU too, but a kernel may preempt them there; their modules have both kinds of
kernel, as the initial value of `preemptible`. An activation is cut at its accesses to
shared memory, and every cut is a value of `pc`. A goroutine is cut at its system calls.
A program's parsing of packets, and the texts that are printed, are left out unless a
property is about them. Names are the source's (`src_ip`, `inner_map` as `inner`,
`uid_filter`, `resetCounters` as the steps from `Tick` to `EndReset`). A definition
whose comment begins with *Mutant* is a plausible slip in the code beside it; no `Next`
uses it, and it serves to see a property fail. Two modules that one proof module extends
must not use a name twice: hence `HookInit`, `HookNext`, `HookTypeOK` in `TcEgress` and
`CaptureInit`, `reader`, `stage`, `Interrupt` in `TlsCapture`, where other modules have
`Init`, `main`, `pc`, `Signal`; and `ProbeCPUs`, which declares the constants that
`IoLatency` and `TlsCapture` share.

**RateLimiter.** `Enter` is the lookup, `Drop`/`UnderLimit` the test of `*count`,
`Add` the atomic add, `Create`/`Replace`/`MapFull` the three outcomes of the update
with `BPF_ANY`. `pkt_count` maps a source to an element of a preallocated pool; a
pointer is an element, so a deleted and reused element shows up as what it is. `Tick`,
`Collect`, `EndCollect`, `Delete`, `EndReset` are `resetCounters`, whose two loops are
not atomic. `admitted` is a history: what each source got since its key was last
deleted. The module starts when the filter is attached.

**TcEgress.** The set-up and clean-up of the same loader, one action per `tc` command
or file operation: `DelQdisc` to `AddFilter` on the way in, `UndoQdisc` and `Unpin` on
the way out; `CommandFails` is a command or a removal that fails by itself, fatal where
the code looks at the error and without a trace where it does not (main.go:46, :53, :57,
:65), `Kill` an end without the deferred calls. Several processes run, one after the other or at once.
`disturbed` and `failed` are histories that say whom to blame; `failed` has the steps. `Attach`, `Push` and
`Pop` are series 10, whose filter goes on the same hook; its loader pops `Popped`, the
queue of a collection of its own. How `tc` resolves the arguments of main.go:60-61 is
not part of it.

**PolicySwap.** `LookupOuter` and `LookupInner` are the program's two lookups;
`NewMap`, `Fill`, `Filled`, `Publish` are `swapPolicy`, and `SwapFails` its error
returns, fatal in the first call and ignored in the later ones. `Key` is
`binary.BigEndian.Uint32` followed by a native store: the identity on a big-endian
machine, a reversal on a little-endian one. `AtomicPolicy` says what the swap
promises; `SwapIsAtomic` is the claim that `PolicySwap` implements it, where a packet
is decided at its first lookup.

**ExecveAudit.** `Enter`, `LookupUid`, `Skip`/`Report`, `Output`/`OutputFails`,
`CountEmitted` are `trace_execve`; `WatchUid` and `WatchSentinel` the two puts of
`watchuid`; `Iterated` the keys that the iteration of `clearfilter` returns, which are
none; `StartStats`, `ReadCell`, `ShowStats` are `printStats`. The shutdown is
`Signal`, `CloseReader`, `FinalStats`, `Detach`. A behaviour begins when the reader is
open: the calls between attaching and opening (main.go:93-105) find no reader, as those
after `CloseReader` do.

**RingStream.** `Reserve`, `ReserveFails`, `Drop`, `Fill`, `Submit` are
`trace_openat`. A slot keeps its bytes when it is freed, and `Copied` writes a name
and one NUL over them. `Wait`, `Take`, `Drained`, `Count`, `PrintEvent` are the reading
goroutine: it sleeps when it found nothing, it spins on a busy record, and `Submit`
wakes it only for the record it is at. `Call`, `AddDrops`, `PrintStats` are
`printStats`. In the source the record's size does not divide the ring's, so that
after a wrap a record lies across two older ones; the model lets it lie on one.
`OrderedStream` is the promise of the README, "globally ordered"; in `StreamInOrder`
an open enters the stream when its record is reserved and leaves it when it is
printed, and the name is the text up to the first NUL.

**IoLatency.** `Store`, `MapFull`, `StartUnseen` are a request's start, with and
without room in `start_times` and without the probe; `Done`, `Unknown`, `Measure`,
`Delete`, `AddLatency`, `AddRead` are `trace_io_done`; `DoneUnseen` is a completion
without it. `StartPrint`, `ReadBucket`, `EndPrint` are `printHistogram`, `Clear` and
`ClearBucket` the command. `write_lat` is not in the model: nothing reads or writes
it.

**FlowTracker.** `Lookup`, `AddPackets`, `AddBytes`, `Insert`, `InsertFails` are
`track_flows`; `Untracked` is a frame it passes over. `flows` gives each flow its
element; before an insertion takes a free one, `Evict` frees any number of flows'
elements, because the real map evicts several at a time, by a clock that only
approximates the order of use, and keeps free elements per CPU. `Hash` is a flow's
bucket, which others share, and `since` its place there: the kernel puts the flow of
an insertion at the head of its bucket, and so moves there a flow that is in the map
already, when a CPU that had missed it inserts it again. `Before` is the resulting order
of the keys. `Top` and `Signal` start `showTopFlows`, `NextKey` and `LookupKey` are the
two system calls of `iter.Next`, and `After` is what the kernel answers: the keys
behind the given one, or all of them if that has gone. The iterator does not always
move forward, therefore: it starts again when its flow is evicted and goes back when that
is inserted again (`jumped`), and a flow inserted again may get behind it unseen (it is
no longer in `stay`). `TableExplained` says that nothing else makes the table show a flow
twice or end without one. Both halves matter at the source's sizes: the first in a full
map, where flows are evicted while ten lines are printed; the second with fewer than ten
flows, where the table ends by its keys and only the racing insertions move anything.

**PacketCounters, Firewall.** `PacketCounters` is series 08: `Classify`, `Load`,
`Store` are a packet, `StartReading` to `PrintLine` a printout, cell by cell, `Signal`
to `Exit` the end. Series 01 counts and prints in the same way, so `Firewall`
instantiates it with the labels PASS and DROP and adds the blocklist: `Receive` is the
lookup that chooses the label, `Return` the verdict; `Block` and `Unblock` are the
commands up to their system call and `Reply` the message after it. `told` and
`against` are histories: what was last printed of an address, and how many packets
were treated otherwise since.

**Sockmap.** `Establish` and `Register` are `track_sockets`, `Send` to `Redirect`
`redirect_msg`, `Deliver` what becomes of the redirected message. `Swapped` is the
reversal of a word's bytes, for bytes of `Base` values: on a little-endian machine
`bpf_ntohl` applies it, and `remote_port`, which is in network order, has it already
applied. `CloseSocket` takes a socket out of the map.

**TlsCapture.** `Enter` fills the header of the CPU's buffer, `Copy` its data up to
`data_len`, `StoreCount` counts, `Output` sends the whole buffer; `Leaves` is the probe's
return, after a fault (`AfterError`) too. `OpenReader`, `Read`, `Interrupt`, `CloseReader`,
`Detach` are the loader. A byte is the write it
comes from, so that the tail an earlier write left in the buffer is visible as such;
`Text` is what main.go:124 takes of it. A perf buffer that is full counts the event as
lost, and the next one that fits brings the notice along.

## Runs

| Run | Bounds | What it shows |
|---|---|---|
| `rate_limiter` | 2 CPUs, 2 sources, 4 elements, 2 entries, limit 2, 9 packets | `ElementBounded`: a counter passes the limit by at most the other CPUs. `IntervalBound`: what a source gets in an interval is bounded although a racing insert restarts its count. `ChargedFairly`: a recycled element charges a source for at most one packet of each other CPU |
| `rate_limiter_reset` | 2 CPUs, 2 sources, 3 elements, 1 entry, limit 3, 6 packets | with a map that is too small: `DropsNearLimit`, and `LimitLifted` under fairness of the ticker |
| `policy_swap` | 2 CPUs, 3 addresses, 4 inner maps, little-endian | `SwapIsAtomic`, `WholePolicy`, `BuiltApart`, and `FirstPolicy` under fairness |
| `execve_audit` | 2 CPUs, 2 UIDs, 2 filter entries, 1 event per buffer, 2 calls | `CallsAccounted`, `EventsAccounted`, `StatsExplained`, `FilterArmed`, `SkipsUnlisted` |
| `execve_clear` | as `execve_audit` | violated: what main.go:170 and :248 say of `clearfilter` |
| `ring_stream` | 2 CPUs, 2 slots, 3 calls, paths of 3 bytes | `StreamInOrder`, `CallsAccounted`, `StatsExplained`, and `NoRecordLeft` under fairness |
| `io_latency` | 2 CPUs, 2 requests, 1 entry, 2 buckets, 3 requests started, time up to 3, 32-bit words of 3 values | `OwnLatency`, `StaleExplained`, `HistogramsAgree`, `PrintExplained` |
| `flow_tracker` | 2 CPUs, 3 flows in 2 buckets, 3 elements, tables of 3 lines, 4 packets | `OwnPackets`: a pointer that outlives its flow charges another flow for at most one packet of each other CPU. `NewOncePerCPU`: racing inserts count a flow as new at most once per CPU. `TableExplained`: the table shows a flow twice, or leaves one out, only for a flow that was evicted or inserted again |
| `firewall` | 2 CPUs, 2 addresses, 1 entry, 3 packets, 2 commands | `BlockTakesEffect`: after the message of a command at most one packet per CPU is treated otherwise. `LineExplained`, `NoneLost`: what a line shows, and what the cells have |
| `tc_egress` | 3 loaders, 1 attachment of series 10, queue of 1 | `StartRecovers`, `OnlyOwnFilter`, `LeftBehind`: what killed and failed loaders leave, and that a start gets over it. `QueueOnlyFills`: series 10 lets as many packets through as its queue holds, ever |
| `sockmap` | 2 connections to one server port, 2 CPUs, bytes of 4 values, sizes 1 and 2, 2 messages | `LittleEndianInert`, `NotForwarded`: who is registered and where messages arrive, as opposed to what the texts say. `MessagesCounted`: both counters, with and without preemption |
| `tls_capture` | 2 CPUs, 3 writes, 2 bytes, 1 event per buffer | `OwnData`: a line shows the bytes of one write unless its probe was preempted. `InterceptedExplained`: what "Intercepted" counts |

Type correctness is a theorem of every module; `ring_stream`, `io_latency` and
`tls_capture` also check it, where a slip in the code could break it. Why the bounds are enough: the races need two CPUs, each with one activation, and one loader. With 9
packets a source can be limited, reset while an activation holds its element, have the
element go to the other source, and be limited again; one entry for two sources makes
the map full. Two filter entries are the least that hold a UID with its sentinel, and
two UIDs fill them without it. Three opens fill a ring of two, drop one, or reuse a
slot; two CPUs submit in either order. Three requests on two addresses, of which one
fits the map, give reuse, staleness and overflow; time 3 with words of 3 values makes
the truncation happen. `HistogramsAgree` fails with any smaller slack in that instance.
Three elements are the least with which a flow beside another one can be inserted again
without an eviction; two flows share a bucket and the third has its own, so that the
iterator can be moved within and between buckets. Four packets are two flows missed by
both CPUs: enough to move the iterator's flow, or one it has yet to show, to evict under
it or under a pointer, to show a flow twice, and to end by the keys with and without a
flow left out (each was seen to be reached). The two addresses of `firewall` are each other's reverse, so that a byte order
mistaken in one place shows, and one entry makes the second `block` fail. Of three
loaders one can be dead, one in its loop and one starting. Ports of two bytes of four
values have a byte that is 0, as real ones can; two connections with a common server
port collide under its key, and two messages can meet on one CPU. Three writes on two
CPUs make two meet on one buffer that a third has used; two bytes are the least of which
a part can be stale.

The constants `MaxPackets`, `MaxExecs`, `MaxCalls`, `MaxTime`, `MaxIOs`, `MaxCommands`
and `MaxMessages` bound behaviours and are not in the code. Symmetry is used only in
runs without liveness. No run checks for deadlock: every system stops for good after its
shutdown or its bound.

Fairness. The kernel runs a program to its end once it has started, so a CPU in an
activation is weakly fair (`PolicySwap`, `ExecveAudit`, `RingStream`). A goroutine
that can run is scheduled, and a ticker fires, so the loader's own loops are weakly
fair. Packets, calls, commands, signals and kills are not. The modules `FlowTracker`,
`Firewall`, `TcEgress`, `Sockmap` and `TlsCapture` state no liveness: nothing in these
lessons waits for anything, except for a user.

## Proofs

TLAPS checks these for every value of the constants that satisfies the named
assumptions (finite sets of CPUs, sources, sockets and writes, a pool with as many elements as entries and
CPUs, a filter with room for two, ports of two bytes, names
without a NUL, `NULL` different from everything else).

- `RateLimiterProof`. `ElementBounded` is inductive and `CounterBounded` is not: the
  adds that are already decided must be counted into an element, also while it is in
  the free pool, because a pointer may still lead to it. `Charged` needs `OneOwner`,
  that no element is linked twice or linked and spare; a count is then compared with
  what its source got plus the CPUs that still hold the element for another source.
  `DropsJustified` follows from it. `IntervalsBounded` needs to know how often an
  interval's count can start again. `Inserters` are the CPUs that looked a source up
  while it was absent and have yet to insert it: while the source is in the map nobody
  joins them, each can restart the count once, and they add to no counter meanwhile.
  `AddersOnly` therefore bounds a counter by the CPUs that are not inserters, and
  `IntervalCounted` adds up what the interval has let through, the pointers that still
  lead to a replaced element included. Both are inductive; with all CPUs settled the sum
  is `NCPU * (RATE_LIMIT + NCPU)`, which is where the bound comes from. That the pool
  has an element for an absent source (`PoolNotEmpty`) is where the bound's hypothesis
  is used.
- `PolicySwapProof`. The invariant says what each activation holds, that the map being
  filled is in nobody's hands (`BuiltApart`), and that a published map has all of one
  policy's keys. `SwapImplementsAtomic` is the refinement: `LookupOuter` is `Decide`,
  `Publish` is `Install`, and `FateKept` shows that no other step changes a decision
  that was taken.
- `ExecveAuditProof`. `CallsAddUp` and `EventsAddUp` are conservation per CPU.
  `StatsAreExplained` needs an invariant for every stage of the reading: what has been
  read of a counter is at most what the counter is now. `SkipsAreUnlisted` and
  `FilterStaysArmed` are about the two lookups and the two puts.
- `FlowTrackerProof`. `OwnPackets` is inductive once it is known that no two flows have
  one element, and that a CPU inside the program has received a packet of its flow: a
  flow that takes an element starts at 1, and the pointers left to it are the other
  CPUs'. `NewOncePerCPU` needs that a flow that is neither in the map nor ever evicted
  was never inserted. `TableIsExplained` keeps, while an iteration is under way, that
  every flow of `stay` is ahead of the cursor, has been shown, or is the cursor's; and
  as long as the cursor's flow has not moved, that the flows shown are behind it. An
  insertion has a place nearer the head than any other (`PlacedStep`), so that it gets
  ahead of the cursor only if it is the cursor's own (`TableMoves`).
- `FirewallProof`. `CountsAsSeries08` is a refinement: a step of the firewall is one of
  `PacketCounters` or changes none of its variables. What is proved of the counters in
  any behaviour of `PacketCounters` (types, `NoneLost`, cells that only grow,
  `LineExplained`) then holds of the firewall. `BlockIsEffective` compares packets that
  were treated otherwise, plus those still under way, with the number of CPUs: a CPU
  leaves the second number when it enters the first, and the blocklist agrees with
  what was printed, or is about to be.
- `RingStreamProof`. `Invariance` has four parts besides the types: a call that has a
  record has one of the window between the two positions, busy, and no other call has it
  (`RecordsHeld`); a record that is ready, or that its call has filled, has up to its
  first NUL the name of the open that reserved it, whatever the slot held before
  (`NamesKept`, which rests on what copying a name and one NUL leaves in front of that
  NUL, and on two positions of the window lying in different slots); the reader has
  counted what it has taken but for one (`ReaderKept`); what `printStats` has read and
  has still to read lies between the drops of its call and those of now
  (`StatsBounded`). `AllCallsAccounted` is the conservation of calls over all CPUs,
  `PrintedSumExplained` follows from `StatsBounded`. `OrderKept` is the refinement of
  `OrderedStream`: `Reserve` appends to the stream, `PrintEvent` takes its head, and no
  other step changes what the stream shows but for a counted drop.
- The hook's part of `RateLimiterProof`. The invariants say, for every stage of the
  set-up, what an undisturbed loader that had no failure finds on the hook; and, for every filter and
  pin, whose it is and how that loader ended.
- `SockmapProof`. `SwappedPort` is arithmetic for any `Base`: a port is not 0, so one of
  its bytes ends up in the upper half of the word. `NeverForwarded` rests on
  `Registered`: a socket is in the map under its own port, and is found under its
  sender's remote port. `MessagesAreCounted` has two arguments. Without preemption a CPU
  is one send's until that has redirected (`Exclusive`), so what a send loaded is what is
  there when it stores, and the sum is exact. With preemption a store can take a counter
  back, and a send that loaded the larger value can then take it up by more than its own
  message, so that neither the counters nor the loaded values bound each other; what is
  inductive is a bound of both per CPU (`Below`), which a load keeps and a store raises by
  what it counts.
- `ProbesProof`, first half: the latencies. `LatencyIsOwn` and `StaleEntriesExplained`
  rest on `Paired`: a request that is being completed is one CPU's (`Completing`), a
  request whose start was stored has its own start in the map until that CPU deletes it
  (`Timed`), and has none afterwards (`Taken`): an entry whose completion was not seen is
  overwritten by the next start that the probe sees. `HistogramsAgree` is
  not inductive, as it says nothing during a `clear`: `Agreeing` compares, for every bucket
  of which both or neither have been cleared, `read_lat` plus the CPUs that are between
  the two additions with `latencies` plus all CPUs. The slack is spent by a `clear` that
  takes back an addition of which the second half comes later; at most one per CPU.
  `PrintedHistogramExplained` needs `PrintedSoFar`: what is read is no more than the
  buckets read now have, and with those still to be read no less than the sum at the call.
- `ProbesProof`, second half: the captured writes. `LinesAreOwn` follows a write from its
  header to the line: its buffer holds its header and, after a copy that did not fault,
  its bytes, as long as it is not overtaken (`Held`); what is queued or shown is then its
  own (`Unmixed`), and stays so because a write enters the probe only once (`Sent`).
  `InterceptedIsExplained` counts with `Total`, the right-hand side of the property:
  every step but a store of that counter keeps it (`TotalStep`), since a lost event goes
  from the writes to `lost`, from there into the notice of the next event, and from there
  into `told`. Preempted probes can store a counter twice from the same value and take it
  back, so the bound needs a witness, how often each CPU stored (`Below`); without
  preemption what a probe loaded is what is there (`OneEach`), and the count is `Exact`.

Totals over the per-CPU cells are folds (`SumFunction`). That a sum can be taken apart at
any element, depends on its values only, and grows with them is proved without an
induction theorem: strict inclusion is well founded on the subsets of a finite set, so if
a claim failed for some subset it would fail for a smallest one, and that one, an element
taken out, refutes it. `RingStreamProof`, `SockmapProof` and `ProbesProof` each have these
lemmas.

The invariants that are in no run were checked by TLC on the instances of the runs before
they were proved (`AddersOnly` and `IntervalCounted` also with three CPUs and one source,
`Exclusive` and `Below` of the sockmap also with four messages on one CPU).

Only model-checked: the liveness properties (`LimitLifted`, `FirstPolicy`,
`NoRecordLeft`), which rest on fairness and are out of the prover's reach, and the run
that shows a violation. Every invariant and action property of the passing runs, and the
three refinements, are theorems.

## Where the code and its texts differ

`execve_clear` shows a difference as a run: `clearfilter` clears nothing. Others were
met on the way. Some are what a property of a passing run says instead: series 11's
limit is passed by racing CPUs (`ElementBounded`, against main.bpf.c:9); series 05
registers no socket on a little-endian machine (`LittleEndianInert`, main.go:75), sends
a message back to its sender or to somebody else's peer (`NotForwarded`, README.md:8),
and counts as redirected what it refuses (`MessagesCounted`, main.go:114); series 10
fills a queue that nobody empties (`QueueOnlyFills`, README.md:8). The others:
`unwatchuid` of the last UID leaves the sentinel (main.go:231, against main.bpf.c:45 of
series 02); the "Dest IP" of series 09 is the source address (main.bpf.c:19, :49), and
its swap waits for a command (README.md:49); `reads` of series 03 shows all requests
(main.bpf.c:63, main.go:88); series 06 prints an older path's tail behind a name once
the ring has wrapped (main.go:82); series 07 tracks TCP only (main.bpf.c:59,
README.md:8); series 04 probes `SSL_write` only (README.md:17).

## Plan

The most important behaviour came first. Every lesson now has its module, and every
safety property its proof. What could follow is an abstract specification for the
lessons that have none, such as a blocklist that takes effect at once but for the packets
under way, and a reading of `list` and `stats` where it is left out.

## Not modelled

Commands that only read a map and print it (`list`, `stats` of 04, 05 and 07), where
reading is not what the lesson's hazards are about: `PacketCounters` and `ExecveAudit`
have the reading of counters. Packet parsing has no state. Loading and verification
are the kernel's and the library's; attachment is a step where something can happen
before or after it. The skeleton common to the loaders has no module of its own: each
module has its lesson's shutdown order. The Makefiles and guides have no behaviour.
