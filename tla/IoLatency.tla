------------------------------ MODULE IoLatency ------------------------------
(***************************************************************************)
(* Series 03: the block I/O latency histogram.  trace_io_start stores the  *)
(* time under the request's address, trace_io_done takes it out again and  *)
(* counts the difference in two histograms; the loader prints and clears   *)
(* them bucket by bucket while the programs run on every CPU.              *)
(*                                                                         *)
(* The block layer (modelled from its use) reuses a request's address      *)
(* after it has completed, and may complete a request, or start one,       *)
(* without the probe being run: it is not attached, or its CPU is in       *)
(* another tracing program.  Time is in milliseconds.                      *)
(***************************************************************************)
EXTENDS Integers, FiniteSets, Functions, ProbeCPUs

CONSTANTS
  Requests,    \* addresses of struct request
  MaxEntries,  \* max_entries of start_times (10240 in the source)
  Buckets,     \* buckets of a histogram (64 in the source)
  Word,        \* values of a __u32 (2^32 in the source)
  MaxTime,     \* bound on the clock; not in the code
  MaxIOs       \* bound on the requests of a behaviour; not in the code

ASSUME SizeAssumption ==
  /\ {MaxEntries, Buckets, MaxTime, MaxIOs} \subseteq Nat
  /\ Buckets > 0
  /\ Word \in Nat /\ Word >= Buckets
ASSUME SetAssumption == IsFiniteSet(Requests)
ASSUME NullAssumption == NULL \notin Nat /\ NULL \notin Requests

VARIABLES
  io,           \* what each request is: "free", "issued", "completing"
  start_times,  \* start_times[r]: a time, or NULL
  pc,           \* where each CPU is in trace_io_done
  req,          \* its request
  bucket,       \* the bucket it counts in
  hist,         \* the array maps latencies and read_lat
  probes,       \* the kprobes that are attached
  main,         \* main: "attach", "loop", "final", "detach", "exited"
  cli,          \* the command goroutine: "idle", or the map it clears
  next,         \* clearHistogram: the bucket it clears next
  printing,     \* whether main is in printHistogram
  i,            \* its loop's index
  sum,          \* the sum of its copy of the buckets
  now,          \* bpf_ktime_get_ns
  ios,          \* history: the requests so far
  born,         \* history: when each request was started, if it is stored
  stored,       \* history: that time is in start_times
  unseen,       \* history: requests with an entry that completed without the probe
  least         \* history: the histogram's sum when printHistogram was called,
                \* or NULL once a bucket has been cleared

block == <<io, now, ios, born, stored, unseen>>
program == <<pc, req, bucket>>
print == <<printing, i, sum, least>>
vars == <<block, program, start_times, hist, probes, main, cli, next, print>>

Maps == {"latencies", "read_lat"}
Bucket == 0 .. Buckets - 1
Empty == [b \in Bucket |-> 0]
Keys == {r \in Requests : start_times[r] # NULL}

TypeOK ==
  /\ io \in [Requests -> {"free", "issued", "completing"}]
  /\ start_times \in [Requests -> Nat \cup {NULL}]
  /\ Cardinality(Keys) <= MaxEntries
  /\ pc \in [CPUs -> {"idle", "lookup", "delete", "latencies", "read_lat"}]
  /\ req \in [CPUs -> Requests \cup {NULL}]
  /\ bucket \in [CPUs -> Bucket]
  /\ hist \in [Maps -> [Bucket -> Nat]]
  /\ probes \subseteq {"start", "done"}
  /\ main \in {"attach", "loop", "final", "detach", "exited"}
  /\ cli \in {"idle"} \cup Maps
  /\ next \in Bucket
  /\ printing \in BOOLEAN
  /\ i \in 0 .. Buckets
  /\ sum \in Nat
  /\ now \in Nat
  /\ ios \in Nat
  /\ born \in [Requests -> Nat]
  /\ stored \in [Requests -> BOOLEAN]
  /\ unseen \in SUBSET Requests
  /\ least \in Nat \cup {NULL}

\* Requests may be under way when the loader starts.
Init ==
  /\ io \in [Requests -> {"free", "issued"}]
  /\ start_times = [r \in Requests |-> NULL]
  /\ pc = [c \in CPUs |-> "idle"]
  /\ req = [c \in CPUs |-> NULL]
  /\ bucket = [c \in CPUs |-> 0]
  /\ hist = [m \in Maps |-> Empty]
  /\ probes = {}
  /\ main = "attach"
  /\ cli = "idle"
  /\ next = 0
  /\ printing = FALSE
  /\ i = 0
  /\ sum = 0
  /\ now = 0
  /\ ios = 0
  /\ born = [r \in Requests |-> 0]
  /\ stored = [r \in Requests |-> FALSE]
  /\ unseen = {}
  /\ least = NULL

----------------------------------------------------------------------------
(* The block layer and the probes.                                         *)

Time ==
  /\ now < MaxTime
  /\ now' = now + 1
  /\ UNCHANGED <<io, ios, born, stored, unseen, program, start_times, hist, probes,
                 main, cli, next, print>>

Issue(r) ==
  /\ io[r] = "free"
  /\ ios < MaxIOs
  /\ ios' = ios + 1
  /\ io' = [io EXCEPT ![r] = "issued"]
  /\ UNCHANGED <<now, program, hist, probes, main, cli, next, print>>

\* Mutant: the entry is made with BPF_NOEXIST.
StoreOnce(r) ==
  /\ Issue(r)
  /\ "start" \in probes
  /\ start_times' = [start_times EXCEPT ![r] = IF @ = NULL THEN now ELSE @]
  /\ Cardinality(Keys \cup {r}) <= MaxEntries
  /\ stored' = [stored EXCEPT ![r] = TRUE]
  /\ born' = [born EXCEPT ![r] = now]
  /\ unseen' = unseen \ {r}

\* trace_io_start: the update with BPF_ANY has room, or finds the address there.
Store(r) ==
  /\ Issue(r)
  /\ "start" \in probes
  /\ start_times' = [start_times EXCEPT ![r] = now]
  /\ Cardinality(Keys \cup {r}) <= MaxEntries
  /\ stored' = [stored EXCEPT ![r] = TRUE]
  /\ born' = [born EXCEPT ![r] = now]
  /\ unseen' = unseen \ {r}

\* trace_io_start: the map is full, and the error is ignored.
MapFull(r) ==
  /\ Issue(r)
  /\ "start" \in probes
  /\ Cardinality(Keys \cup {r}) > MaxEntries
  /\ UNCHANGED <<start_times, born, stored, unseen>>

\* A request starts without the program.
StartUnseen(r) ==
  /\ Issue(r)
  /\ UNCHANGED <<start_times, born, stored, unseen>>

\* A request completes without the program: its entry stays.
DoneUnseen(r) ==
  /\ io[r] = "issued"
  /\ io' = [io EXCEPT ![r] = "free"]
  /\ born' = [born EXCEPT ![r] = 0]
  /\ stored' = [stored EXCEPT ![r] = FALSE]
  /\ unseen' = IF start_times[r] = NULL THEN unseen ELSE unseen \cup {r}
  /\ UNCHANGED <<now, ios, program, start_times, hist, probes, main, cli, next, print>>

\* A request completes on a CPU with the program.
Done(c, r) ==
  /\ "done" \in probes
  /\ pc[c] = "idle"
  /\ io[r] = "issued"
  /\ io' = [io EXCEPT ![r] = "completing"]
  /\ pc' = [pc EXCEPT ![c] = "lookup"]
  /\ req' = [req EXCEPT ![c] = r]
  /\ UNCHANGED <<now, ios, born, stored, unseen, bucket, start_times, hist, probes,
                 main, cli, next, print>>

\* trace_io_done returns, and the request is freed.
Return(c) ==
  /\ pc' = [pc EXCEPT ![c] = "idle"]
  /\ req' = [req EXCEPT ![c] = NULL]
  /\ bucket' = [bucket EXCEPT ![c] = 0]
  /\ io' = [io EXCEPT ![req[c]] = "free"]
  /\ born' = [born EXCEPT ![req[c]] = 0]
  /\ stored' = [stored EXCEPT ![req[c]] = FALSE]
  /\ UNCHANGED <<now, ios>>

Unknown(c) ==
  /\ pc[c] = "lookup"
  /\ start_times[req[c]] = NULL
  /\ Return(c)
  /\ UNCHANGED <<unseen, start_times, hist, probes, main, cli, next, print>>

Least(a, b) == IF a < b THEN a ELSE b

\* Mutant: without "if (bucket >= 64)".
BucketUncapped(delta) == delta % Word

\* (__u32)(delta_ns / 1000000), at most the last bucket.
BucketOf(delta) == Least(delta % Word, Buckets - 1)

Measure(c) ==
  /\ pc[c] = "lookup"
  /\ start_times[req[c]] # NULL
  /\ bucket' = [bucket EXCEPT ![c] = BucketOf(now - start_times[req[c]])]
  /\ pc' = [pc EXCEPT ![c] = "delete"]
  /\ UNCHANGED <<block, req, start_times, hist, probes, main, cli, next, print>>

\* Mutant: the entry is left in the map.
DeleteNot(c) ==
  /\ pc[c] = "delete"
  /\ pc' = [pc EXCEPT ![c] = "latencies"]
  /\ UNCHANGED <<block, start_times, req, bucket, hist, probes, main, cli, next, print>>

Delete(c) ==
  /\ pc[c] = "delete"
  /\ start_times' = [start_times EXCEPT ![req[c]] = NULL]
  /\ unseen' = unseen \ {req[c]}
  /\ pc' = [pc EXCEPT ![c] = "latencies"]
  /\ UNCHANGED <<io, now, ios, born, stored, req, bucket, hist, probes, main, cli, next,
                 print>>

\* __sync_fetch_and_add on latencies,
AddLatency(c) ==
  /\ pc[c] = "latencies"
  /\ hist' = [hist EXCEPT !["latencies"][bucket[c]] = @ + 1]
  /\ pc' = [pc EXCEPT ![c] = "read_lat"]
  /\ UNCHANGED <<block, req, bucket, start_times, probes, main, cli, next, print>>

\* and on read_lat, whatever the request is: a read or a write.
AddRead(c) ==
  /\ pc[c] = "read_lat"
  /\ hist' = [hist EXCEPT !["read_lat"][bucket[c]] = @ + 1]
  /\ Return(c)
  /\ UNCHANGED <<unseen, start_times, probes, main, cli, next, print>>

----------------------------------------------------------------------------
(* The loader: printHistogram and clearHistogram.                          *)

Runs == main # "exited"

\* Mutant: the loop starts at bucket 1.
StartPrintAtOne ==
  /\ ~printing
  /\ printing' = TRUE
  /\ i' = 1
  /\ sum' = 0
  /\ least' = SumFunction(hist["latencies"])

\* printHistogram(latMap, ...).  "show" and "reads" call it too, but from the
\* goroutine that clears: nothing is cleared under them that is not under this one.
StartPrint ==
  /\ ~printing
  /\ printing' = TRUE
  /\ i' = 0
  /\ sum' = 0
  /\ least' = SumFunction(hist["latencies"])

TickPrint ==
  /\ main = "loop"
  /\ StartPrint
  /\ UNCHANGED <<block, program, start_times, hist, probes, main, cli, next>>

ReadBucket ==
  /\ printing
  /\ i < Buckets
  /\ sum' = sum + hist["latencies"][i]
  /\ i' = i + 1
  /\ UNCHANGED <<block, program, start_times, hist, probes, main, cli, next,
                 printing, least>>

\* The bars are drawn; main detaches after its last histogram.
EndPrint ==
  /\ printing
  /\ i = Buckets
  /\ printing' = FALSE
  /\ i' = 0
  /\ sum' = 0
  /\ least' = NULL
  /\ main' = IF main = "final" THEN "detach" ELSE main
  /\ UNCHANGED <<block, program, start_times, hist, probes, cli, next>>

\* "clear": latencies and then read_lat, bucket by bucket.
Clear ==
  /\ main \in {"loop", "final", "detach"}
  /\ cli = "idle"
  /\ cli' = "latencies"
  /\ UNCHANGED <<block, program, start_times, hist, probes, main, next, print>>

\* Mutant: only latencies is cleared.
FollowsNone == [latencies |-> "idle", read_lat |-> "idle"]

Follows == [latencies |-> "read_lat", read_lat |-> "idle"]

ClearBucket ==
  /\ Runs
  /\ cli \in Maps
  /\ hist' = [hist EXCEPT ![cli][next] = 0]
  /\ next' = (next + 1) % Buckets
  /\ cli' = IF next = Buckets - 1 THEN Follows[cli] ELSE cli
  /\ least' = IF cli = "latencies" THEN NULL ELSE least
  /\ UNCHANGED <<block, program, start_times, probes, main, printing, i, sum>>

----------------------------------------------------------------------------
(* The loader: attaching and detaching.                                    *)

AttachStart ==
  /\ main = "attach"
  /\ probes = {}
  /\ probes' = {"start"}
  /\ UNCHANGED <<block, program, start_times, hist, main, cli, next, print>>

AttachDone ==
  /\ main = "attach"
  /\ probes = {"start"}
  /\ probes' = {"start", "done"}
  /\ main' = "loop"
  /\ UNCHANGED <<block, program, start_times, hist, cli, next, print>>

\* "exit" or a signal: the last histogram.
Signal ==
  /\ main = "loop"
  /\ StartPrint
  /\ main' = "final"
  /\ UNCHANGED <<block, program, start_times, hist, probes, cli, next>>

\* kpDone is closed before kpStart.
DetachDone ==
  /\ main = "detach"
  /\ "done" \in probes
  /\ probes' = {"start"}
  /\ UNCHANGED <<block, program, start_times, hist, main, cli, next, print>>

DetachStart ==
  /\ main = "detach"
  /\ probes = {"start"}
  /\ probes' = {}
  /\ main' = "exited"
  /\ UNCHANGED <<block, program, start_times, hist, cli, next, print>>

----------------------------------------------------------------------------

IO ==
  \/ Time
  \/ \E r \in Requests : Store(r) \/ MapFull(r) \/ StartUnseen(r) \/ DoneUnseen(r)

Program(c) ==
  \/ \E r \in Requests : Done(c, r)
  \/ Unknown(c) \/ Measure(c) \/ Delete(c) \/ AddLatency(c) \/ AddRead(c)

Loader ==
  \/ AttachStart \/ AttachDone \/ Signal \/ DetachDone \/ DetachStart
  \/ TickPrint \/ ReadBucket \/ EndPrint
  \/ Clear \/ ClearBucket

Next == IO \/ Loader \/ \E c \in CPUs : Program(c)

Spec == Init /\ [][Next]_vars

----------------------------------------------------------------------------
(* Properties.                                                             *)

\* A latency is that of its own request (main.bpf.c:38-57), although addresses are
\* reused, entries go stale and the map fills up: unless the request's start was
\* not stored, or it took so long that its milliseconds do not fit a __u32.
OwnLatency ==
  [][\A c \in CPUs :
       LET took == now - born[req[c]] IN
       Measure(c) /\ stored[req[c]] /\ took < Word
         => bucket'[c] = Least(took, Buckets - 1)]_vars

\* An entry outlives its request (main.bpf.c:53) only when the completion was not
\* seen: nothing else uses up start_times.
StaleExplained ==
  \A r \in Keys :
    (io[r] = "issued" /\ stored[r]) \/ r \in unseen
      \/ \E c \in CPUs : req[c] = r /\ pc[c] \in {"lookup", "delete"}

\* Clearing two maps bucket by bucket (main.go:114-115) while the program adds to
\* one and then to the other (main.bpf.c:59-65): between commands, read_lat is
\* ahead of latencies by at most the one request per CPU that was between the two.
HistogramsAgree ==
  cli \notin Maps =>
    \A b \in Bucket :
      hist["read_lat"][b] <= hist["latencies"][b] + Cardinality(CPUs)

\* The histogram is read bucket by bucket while it moves (main.go:149-150): unless
\* it is cleared meanwhile, its sum is one it had during the call.
PrintExplained ==
  printing /\ i = Buckets /\ least # NULL =>
    sum \in least .. SumFunction(hist["latencies"])

=============================================================================
