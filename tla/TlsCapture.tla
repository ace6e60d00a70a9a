----------------------------- MODULE TlsCapture -----------------------------
(***************************************************************************)
(* Series 04: capture_ssl_write fills one buffer per CPU, event_buf, with  *)
(* a write's header and data, counts the write and sends the whole buffer  *)
(* to the loader, which prints as much of it as the header's data_len.     *)
(*                                                                         *)
(* The probe runs in the writing task, bound to a CPU.  A kernel that runs *)
(* probes preemptibly lets another task's probe use the buffer and the     *)
(* counters in between.  A byte is modelled by the write it is of.         *)
(***************************************************************************)
EXTENDS Integers, Sequences, FiniteSets, Functions, ProbeCPUs

CONSTANTS
  Writes,         \* calls of SSL_write; each is made once
  MAX_DATA_SIZE,  \* 4096 in the source
  Capacity        \* events that fit a CPU's perf buffer

ASSUME CaptureSizes ==
  MAX_DATA_SIZE \in Nat /\ Capacity \in Nat \ {0}
ASSUME WritesAssumption == IsFiniteSet(Writes) /\ NULL \notin Writes

VARIABLES
  preemptible,
  reader,       \* the loader: "attached", "reading", "stopping", "closed", "detached"
  stage,        \* where each write's probe is, or how it ended
  cpu,         \* the CPU it runs on
  num,         \* the bytes it captures
  register,    \* the counter it loaded
  event_buf,   \* the buffer of each CPU
  counters,    \* index 0, "Intercepted", and 1, "Read errors", of each CPU
  events,      \* the perf buffers
  lost,        \* events each has lost since it last took one
  shown,       \* the last line
  told,        \* lost events the loader has reported
  overtaken    \* history: writes whose buffer another one wrote to while they had it

probe == <<stage, cpu, num, register>>
kernel == <<probe, event_buf, counters, overtaken>>
loader == <<reader, shown, told>>
captureVars == <<preemptible, kernel, loader, events, lost>>

Bytes == 1..MAX_DATA_SIZE
Buffers == [pid : Writes \cup {NULL}, data_len : 0..MAX_DATA_SIZE,
            data : [Bytes -> Writes \cup {NULL}]]
Samples == [ev : Buffers, by : Writes, lost : Nat]

Running == {"copy", "store", "output"}
Ended == {"fault", "lost", "missed", "queued", "printed"}

CaptureTypeOK ==
  /\ preemptible \in BOOLEAN
  /\ reader \in {"attached", "reading", "stopping", "closed", "detached"}
  /\ stage \in [Writes -> {"new"} \cup Running \cup Ended]
  /\ cpu \in [Writes -> CPUs \cup {NULL}]
  /\ num \in [Writes -> 0..MAX_DATA_SIZE]
  /\ register \in [Writes -> [idx : {0, 1}, val : Nat]]
  /\ event_buf \in [CPUs -> Buffers]
  /\ counters \in [{0, 1} -> [CPUs -> Nat]]
  /\ events \in [CPUs -> Seq(Samples)]
  /\ \A c \in CPUs : Len(events[c]) <= Capacity
  /\ lost \in [CPUs -> Nat]
  /\ shown \in {NULL} \cup Samples
  /\ told \in Nat
  /\ overtaken \in SUBSET Writes
  /\ \A w \in Writes : stage[w] \in Running <=> cpu[w] # NULL

CaptureInit ==
  /\ preemptible \in BOOLEAN
  /\ reader = "attached"
  /\ stage = [w \in Writes |-> "new"]
  /\ cpu = [w \in Writes |-> NULL]
  /\ num = [w \in Writes |-> 0]
  /\ register = [w \in Writes |-> [idx |-> 0, val |-> 0]]
  /\ event_buf = [c \in CPUs |-> [pid |-> NULL, data_len |-> 0, data |-> [i \in Bytes |-> NULL]]]
  /\ counters = [i \in {0, 1} |-> [c \in CPUs |-> 0]]
  /\ events = [c \in CPUs |-> <<>>]
  /\ lost = [c \in CPUs |-> 0]
  /\ shown = NULL
  /\ told = 0
  /\ overtaken = {}

----------------------------------------------------------------------------
(* capture_ssl_write                                                       *)

\* The probes that have the buffer of CPU c.
On(c) == {w \in Writes : cpu[w] = c}

Overtake(w, c) == overtaken' = overtaken \cup (On(c) \ {w})

\* Mutant: the number as it is.
Unlimited(n) == n

\* num is an int taken as unsigned: a negative one is as good as a large one.
Limited(n) == IF 0 <= n /\ n < MAX_DATA_SIZE THEN n ELSE MAX_DATA_SIZE

\* The buffer's header.
Enter(w, c, n) ==
  /\ reader # "detached"
  /\ stage[w] = "new"
  /\ preemptible \/ On(c) = {}
  /\ stage' = [stage EXCEPT ![w] = "copy"]
  /\ cpu' = [cpu EXCEPT ![w] = c]
  /\ num' = [num EXCEPT ![w] = Limited(n)]
  /\ event_buf' = [event_buf EXCEPT ![c].pid = w, ![c].data_len = Limited(n)]
  /\ Overtake(w, c)
  /\ UNCHANGED <<preemptible, register, counters, loader, events, lost>>

\* Its first data_len bytes: NULs if the read faults; the others are kept.
Written(w, b) ==
  [event_buf EXCEPT ![cpu[w]].data =
     [i \in Bytes |-> IF i <= num[w] THEN b ELSE event_buf[cpu[w]].data[i]]]

\* bpf_probe_read_user(ev->data, ev->data_len, buf), and *cnt is loaded.
Copy(w, ret) ==
  LET idx == IF ret = 0 THEN 0 ELSE 1 IN
  /\ stage[w] = "copy"
  /\ event_buf' = Written(w, IF ret = 0 THEN w ELSE NULL)
  /\ register' = [register EXCEPT ![w] = [idx |-> idx, val |-> counters[idx][cpu[w]]]]
  /\ Overtake(w, cpu[w])
  /\ stage' = [stage EXCEPT ![w] = "store"]
  /\ UNCHANGED <<preemptible, cpu, num, counters, loader, events, lost>>

\* The probe returns.
Leaves(w) ==
  /\ cpu' = [cpu EXCEPT ![w] = NULL]
  /\ num' = [num EXCEPT ![w] = 0]
  /\ register' = [register EXCEPT ![w] = [idx |-> 0, val |-> 0]]
  /\ overtaken' = IF stage'[w] = "queued" THEN overtaken ELSE overtaken \ {w}

\* Mutant: a failed read is counted, and the buffer sent all the same.
AfterFault == "output"

\* ret != 0
AfterError == "fault"

StoreCount(w) ==
  LET r == register[w] IN
  /\ stage[w] = "store"
  /\ counters' = [counters EXCEPT ![r.idx][cpu[w]] = r.val + 1]
  /\ IF r.idx = 0 \/ AfterError = "output"
       THEN /\ stage' = [stage EXCEPT ![w] = "output"]
            /\ UNCHANGED <<cpu, num, register, overtaken>>
       ELSE stage' = [stage EXCEPT ![w] = AfterError] /\ Leaves(w)
  /\ UNCHANGED <<preemptible, event_buf, loader, events, lost>>

\* bpf_perf_event_output of the whole buffer.  A notice of what was lost before goes
\* ahead of the event; without a reader the event is gone.
Output(w) ==
  LET c == cpu[w] IN
  /\ stage[w] = "output"
  /\ IF reader \notin {"reading", "stopping"}
       THEN /\ stage' = [stage EXCEPT ![w] = "missed"]
            /\ UNCHANGED <<events, lost>>
       ELSE IF Len(events[c]) = Capacity
       THEN /\ stage' = [stage EXCEPT ![w] = "lost"]
            /\ lost' = [lost EXCEPT ![c] = @ + 1]
            /\ UNCHANGED events
       ELSE /\ stage' = [stage EXCEPT ![w] = "queued"]
            /\ events' = [events EXCEPT ![c] =
                            Append(@, [ev |-> event_buf[c], by |-> w, lost |-> lost[c]])]
            /\ lost' = [lost EXCEPT ![c] = 0]
  /\ Leaves(w)
  /\ UNCHANGED <<preemptible, event_buf, counters, loader>>

----------------------------------------------------------------------------
(* The loader.                                                             *)

\* perf.NewReader
OpenReader ==
  /\ reader = "attached"
  /\ reader' = "reading"
  /\ UNCHANGED <<preemptible, kernel, shown, told, events, lost>>

\* rd.Read: the notice, and the line.
Read(c) ==
  /\ reader \in {"reading", "stopping"}
  /\ events[c] # <<>>
  /\ shown' = Head(events[c])
  /\ told' = told + Head(events[c]).lost
  /\ stage' = [stage EXCEPT ![Head(events[c]).by] = "printed"]
  /\ events' = [events EXCEPT ![c] = Tail(@)]
  /\ UNCHANGED <<preemptible, reader, cpu, num, register, event_buf, counters, overtaken, lost>>

\* Mutant: the buffer, whatever its header says.
TextWhole(ev) == {ev.data[i] : i \in Bytes}

\* ev.Data[:ev.DataLen]: whose bytes the line shows.
Text(ev) == {ev.data[i] : i \in 1..ev.data_len}

\* "exit" or a signal; printStats; then the deferred rd.Close, up.Close and coll.Close.
Interrupt ==
  /\ reader = "reading"
  /\ reader' = "stopping"
  /\ UNCHANGED <<preemptible, kernel, shown, told, events, lost>>

CloseReader ==
  /\ reader = "stopping"
  /\ reader' = "closed"
  /\ UNCHANGED <<preemptible, kernel, shown, told, events, lost>>

Detach ==
  /\ reader = "closed"
  /\ reader' = "detached"
  /\ UNCHANGED <<preemptible, kernel, shown, told, events, lost>>

----------------------------------------------------------------------------

Probe(w) ==
  \/ \E c \in CPUs, n \in -1..(MAX_DATA_SIZE + 1) : Enter(w, c, n)
  \/ \E ret \in {0, -1} : Copy(w, ret)
  \/ StoreCount(w) \/ Output(w)

Main == OpenReader \/ Interrupt \/ CloseReader \/ Detach \/ \E c \in CPUs : Read(c)

CaptureNext == Main \/ \E w \in Writes : Probe(w)

CaptureSpec == CaptureInit /\ [][CaptureNext]_captureVars

----------------------------------------------------------------------------
(* Properties.                                                             *)

\* event_buf keeps what earlier writes left in it (main.bpf.c:42-55, main.go:124): a
\* line shows the header and the bytes of the write that sent it and of no other,
\* unless that write was preempted and the buffer written to meanwhile.
OwnData ==
  shown # NULL /\ shown.by \notin overtaken =>
    shown.ev.pid = shown.by /\ Text(shown.ev) \subseteq {shown.by}

AtStage(S) == Cardinality({w \in Writes : stage[w] \in S})
Counted(idx) == SumFunction(counters[idx])
Lost == SumFunction(lost)

\* The lost events that the notices in a buffer are going to report.
Notes(q) == [k \in DOMAIN q |-> q[k].lost]
Noted == SumFunction([c \in CPUs |-> SumFunction(Notes(events[c]))])

\* "Intercepted" (main.bpf.c:59, main.go:156) is counted before the event is sent: it
\* is the lines printed, the events queued, those reported lost or still to be reported,
\* those without a reader, and those about to be sent.  On a preemptible kernel it may
\* be less, as two probes on a CPU load before either stores.
InterceptedExplained ==
  LET all == AtStage({"output", "printed", "queued", "missed"}) + told + Noted + Lost IN
  Counted(0) <= all /\ (preemptible \/ Counted(0) = all)

=============================================================================
