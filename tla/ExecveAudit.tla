----------------------------- MODULE ExecveAudit -----------------------------
(***************************************************************************)
(* Series 02: the execve auditor.  trace_execve runs at every execve, on   *)
(* every CPU at once; it counts the call, looks its UID and then the       *)
(* sentinel up in the hash map uid_filter, and sends an event to the CPU's *)
(* perf buffer.  The loader changes uid_filter on commands, reads the      *)
(* buffers, and prints the per-CPU counters while they move.               *)
(*                                                                         *)
(* A perf buffer (modelled from its use) takes an event if it has room and *)
(* a reader; otherwise bpf_perf_event_output fails.                        *)
(***************************************************************************)
EXTENDS Integers, FiniteSets, Functions

CONSTANTS
  CPUs,
  Uids,        \* user IDs of the processes that call execve
  Sentinel,    \* filterActiveSentinel, 0xFFFFFFFF: no process has it
  MaxEntries,  \* max_entries of uid_filter (256 in the source)
  PerfSlots,   \* events a perf buffer holds (16 pages in the source)
  MaxExecs,    \* bound on the calls of a behaviour; not in the code
  NULL

ASSUME BoundAssumption == MaxEntries >= 2 /\ {MaxEntries, PerfSlots, MaxExecs} \subseteq Nat
ASSUME UidAssumption == Sentinel \notin Uids /\ NULL \notin Uids /\ IsFiniteSet(Uids)

VARIABLES
  pc,          \* where each CPU is in trace_execve; "idle" between calls
  uid,         \* the calling process's UID
  listed,      \* filter_val # NULL: what the first lookup found
  counters,    \* the per-CPU cells CTR_TOTAL, CTR_EMITTED and CTR_FILTERED
  events,      \* events in each perf buffer, taken and not read
  uid_filter,  \* the keys of uid_filter
  cli,         \* the command goroutine: "idle", or in the middle of a command
  main,        \* main: "wait", "close", "stats", "detach", "exited"
  reader,      \* whether the perf reader is open
  index,       \* printStats: the counter it is reading; "print", "done"
  unread,      \* printStats: the CPUs whose cell of it is still to be read
  values,      \* printStats: the cells it has read
  dropped,     \* history: calls whose event the perf buffer did not take
  printed,     \* history: events the reader took
  put,         \* history: the UID was put since the activation's first lookup
  disarmed     \* history: the sentinel has been removed by its number

cells == <<counters, events, dropped>>
program == <<pc, uid, listed, put, cells>>
filter == <<uid_filter, cli, disarmed>>
stats == <<index, unread, values>>
vars == <<program, filter, stats, main, reader, printed>>

Counters == {"total", "emitted", "filtered"}
Keys == Uids \cup {Sentinel}

TypeOK ==
  /\ pc \in [CPUs -> {"idle", "uid", "sentinel", "output", "count"}]
  /\ uid \in [CPUs -> Uids \cup {NULL}]
  /\ listed \in [CPUs -> BOOLEAN]
  /\ counters \in [CPUs -> [Counters -> Nat]]
  /\ events \in [CPUs -> 0 .. PerfSlots]
  /\ uid_filter \in SUBSET Keys
  /\ Cardinality(uid_filter) <= MaxEntries
  /\ cli \in {"idle", "sentinel", "clear"}
  /\ main \in {"wait", "close", "stats", "detach", "exited"}
  /\ reader \in BOOLEAN
  /\ index \in Counters \cup {"print", "done"}
  /\ unread \in SUBSET CPUs
  /\ values \in [CPUs -> [Counters -> Nat]]
  /\ dropped \in [CPUs -> Nat]
  /\ printed \in [CPUs -> Nat]
  /\ put \in [CPUs -> BOOLEAN]
  /\ disarmed \in BOOLEAN

Zeros == [c \in CPUs |-> [i \in Counters |-> 0]]

Init ==
  /\ pc = [c \in CPUs |-> "idle"]
  /\ uid = [c \in CPUs |-> NULL]
  /\ listed = [c \in CPUs |-> FALSE]
  /\ counters = Zeros
  /\ events = [c \in CPUs |-> 0]
  /\ uid_filter = {}
  /\ cli = "idle"
  /\ main = "wait"
  /\ reader = TRUE
  /\ index = "done"
  /\ unread = {}
  /\ values = Zeros
  /\ dropped = [c \in CPUs |-> 0]
  /\ printed = [c \in CPUs |-> 0]
  /\ put = [c \in CPUs |-> FALSE]
  /\ disarmed = FALSE

----------------------------------------------------------------------------
(* trace_execve: a tracepoint program is not interrupted by itself.        *)

\* inc_counter: only this CPU writes the cell, but printStats reads it.
Inc(c, i) == counters' = [counters EXCEPT ![c][i] = @ + 1]

Return(c) ==
  /\ pc' = [pc EXCEPT ![c] = "idle"]
  /\ uid' = [uid EXCEPT ![c] = NULL]
  /\ listed' = [listed EXCEPT ![c] = FALSE]
  /\ put' = [put EXCEPT ![c] = FALSE]

Enter(c, u) ==
  /\ main # "exited"
  /\ pc[c] = "idle"
  /\ SumFunction([d \in CPUs |-> counters[d]["total"]]) < MaxExecs
  /\ Inc(c, "total")
  /\ pc' = [pc EXCEPT ![c] = "uid"]
  /\ uid' = [uid EXCEPT ![c] = u]
  /\ UNCHANGED <<listed, put, events, dropped, filter, stats, main, reader, printed>>

\* Mutant: the other half of bpf_get_current_uid_gid is looked up.
LookupGid(c) ==
  /\ pc[c] = "uid"
  /\ \E gid \in Uids : listed' = [listed EXCEPT ![c] = gid \in uid_filter]
  /\ put' = [put EXCEPT ![c] = FALSE]
  /\ pc' = [pc EXCEPT ![c] = "sentinel"]
  /\ UNCHANGED <<uid, cells, filter, stats, main, reader, printed>>

\* bpf_map_lookup_elem(&uid_filter, &uid)
LookupUid(c) ==
  /\ pc[c] = "uid"
  /\ listed' = [listed EXCEPT ![c] = uid[c] \in uid_filter]
  /\ put' = [put EXCEPT ![c] = FALSE]
  /\ pc' = [pc EXCEPT ![c] = "sentinel"]
  /\ UNCHANGED <<uid, cells, filter, stats, main, reader, printed>>

\* Mutant: a suppressed call is not counted.
SkipUncounted(c) ==
  /\ pc[c] = "sentinel"
  /\ Sentinel \in uid_filter /\ ~listed[c]
  /\ Return(c)
  /\ UNCHANGED <<cells, filter, stats, main, reader, printed>>

\* bpf_map_lookup_elem(&uid_filter, &sentinel) finds it, and the UID was not found.
Skip(c) ==
  /\ pc[c] = "sentinel"
  /\ Sentinel \in uid_filter /\ ~listed[c]
  /\ Inc(c, "filtered")
  /\ Return(c)
  /\ UNCHANGED <<events, dropped, filter, stats, main, reader, printed>>

Report(c) ==
  /\ pc[c] = "sentinel"
  /\ Sentinel \notin uid_filter \/ listed[c]
  /\ pc' = [pc EXCEPT ![c] = "output"]
  /\ UNCHANGED <<uid, listed, put, cells, filter, stats, main, reader, printed>>

\* bpf_perf_event_output returns 0: room in this CPU's buffer, and a reader.
Output(c) ==
  /\ pc[c] = "output"
  /\ reader /\ events[c] < PerfSlots
  /\ events' = [events EXCEPT ![c] = @ + 1]
  /\ pc' = [pc EXCEPT ![c] = "count"]
  /\ UNCHANGED <<uid, listed, put, counters, dropped, filter, stats, main, reader, printed>>

\* Mutant: the event is counted without "if (ret == 0)".
OutputUnchecked(c) ==
  /\ pc[c] = "output"
  /\ ~reader \/ events[c] = PerfSlots
  /\ dropped' = [dropped EXCEPT ![c] = @ + 1]
  /\ Inc(c, "emitted")
  /\ Return(c)
  /\ UNCHANGED <<events, filter, stats, main, reader, printed>>

\* bpf_perf_event_output fails: the event is gone and no counter tells.
OutputFails(c) ==
  /\ pc[c] = "output"
  /\ ~reader \/ events[c] = PerfSlots
  /\ dropped' = [dropped EXCEPT ![c] = @ + 1]
  /\ Return(c)
  /\ UNCHANGED <<counters, events, filter, stats, main, reader, printed>>

CountEmitted(c) ==
  /\ pc[c] = "count"
  /\ Inc(c, "emitted")
  /\ Return(c)
  /\ UNCHANGED <<events, dropped, filter, stats, main, reader, printed>>

----------------------------------------------------------------------------
(* The loader: the goroutine that reads events, and the commands.          *)

\* rd.Read: one event of one buffer, decoded and printed.
Read(c) ==
  /\ reader
  /\ events[c] > 0
  /\ events' = [events EXCEPT ![c] = @ - 1]
  /\ printed' = [printed EXCEPT ![c] = @ + 1]
  /\ UNCHANGED <<pc, uid, listed, put, counters, dropped, filter, stats, main, reader>>

\* uidFilter.Put: fails when the key is new and the map is full.
Fits(k) == k \in uid_filter \/ Cardinality(uid_filter) < MaxEntries

\* Put(k), and the note of it for the activations between their two lookups.
Put(k) ==
  /\ uid_filter' = uid_filter \cup {k}
  /\ put' = [c \in CPUs |-> put[c] \/ (pc[c] = "sentinel" /\ uid[c] = k)]

\* watchuid: the first Put; its error ends the command.
WatchUid(k) ==
  /\ main # "exited"
  /\ cli = "idle"
  /\ Fits(k)
  /\ Put(k)
  /\ cli' = "sentinel"
  /\ UNCHANGED <<pc, uid, listed, cells, disarmed, stats, main, reader, printed>>

\* Mutant: the filter is never marked as active.
WatchUnmarked ==
  /\ main # "exited"
  /\ cli = "sentinel"
  /\ cli' = "idle"
  /\ UNCHANGED <<program, uid_filter, disarmed, stats, main, reader, printed>>

\* watchuid: the second Put, whose error is ignored.
WatchSentinel ==
  /\ main # "exited"
  /\ cli = "sentinel"
  /\ IF Fits(Sentinel) THEN Put(Sentinel) ELSE UNCHANGED <<uid_filter, put>>
  /\ cli' = "idle"
  /\ UNCHANGED <<pc, uid, listed, cells, disarmed, stats, main, reader, printed>>

\* unwatchuid takes any number, the sentinel's among them.
UnwatchUid(k) ==
  /\ main # "exited"
  /\ cli = "idle"
  /\ uid_filter' = uid_filter \ {k}
  /\ disarmed' = (disarmed \/ k = Sentinel)
  /\ UNCHANGED <<program, cli, stats, main, reader, printed>>

\* iter.Next(&k, &v): v is a uint32 and the map's values are one byte, which does
\* not decode, so that the iteration ends at the first entry without a key.
Iterated == {}

\* clearfilter: the iteration,
ClearFilter ==
  /\ main # "exited"
  /\ cli = "idle"
  /\ cli' = "clear"
  /\ UNCHANGED <<program, uid_filter, disarmed, stats, main, reader, printed>>

\* and the deletions of the keys it returned; success is reported in any case.
Cleared ==
  /\ main # "exited"
  /\ cli = "clear"
  /\ cli' = "idle"
  /\ uid_filter' = uid_filter \ Iterated
  /\ UNCHANGED <<program, disarmed, stats, main, reader, printed>>

----------------------------------------------------------------------------
(* The loader: statistics and shutdown.                                    *)

StartStats ==
  /\ index' = "total"
  /\ unread' = CPUs
  /\ values' = Zeros

\* The ticker's or the command's printStats; each has its own values, so that one
\* at a time is enough.
PrintStats ==
  /\ main \in {"wait", "close", "stats"}
  /\ index = "done"
  /\ StartStats
  /\ UNCHANGED <<program, filter, main, reader, printed>>

\* Mutant: the emitted counter is left out.
FollowsShort == [total |-> "filtered", emitted |-> "filtered", filtered |-> "print"]

Follows == [total |-> "emitted", emitted |-> "filtered", filtered |-> "print"]

\* m.Lookup(&idx, &values) copies the cells of one counter one CPU at a time.
ReadCell(c) ==
  /\ c \in unread
  /\ values' = [values EXCEPT ![c][index] = counters[c][index]]
  /\ IF unread = {c}
     THEN /\ index' = Follows[index]
          /\ unread' = IF index = "filtered" THEN {} ELSE CPUs
     ELSE /\ unread' = unread \ {c}
          /\ UNCHANGED index
  /\ UNCHANGED <<program, filter, main, reader, printed>>

\* The sums go to the terminal.
ShowStats ==
  /\ index = "print"
  /\ index' = "done"
  /\ values' = Zeros
  /\ UNCHANGED <<program, filter, unread, main, reader, printed>>

\* A signal, or "exit".
Signal ==
  /\ main = "wait"
  /\ main' = "close"
  /\ UNCHANGED <<program, filter, stats, reader, printed>>

\* close(stopStats) and rd.Close: what is still in the buffers stays unread.
CloseReader ==
  /\ main = "close"
  /\ main' = "stats"
  /\ reader' = FALSE
  /\ UNCHANGED <<program, filter, stats, printed>>

FinalStats ==
  /\ main = "stats"
  /\ main' = "detach"
  /\ StartStats
  /\ UNCHANGED <<program, filter, reader, printed>>

\* The deferred tp.Close, after the final statistics.
Detach ==
  /\ main = "detach"
  /\ index = "done"
  /\ main' = "exited"
  /\ UNCHANGED <<program, filter, stats, reader, printed>>

----------------------------------------------------------------------------

Program(c) ==
  \/ LookupUid(c) \/ Skip(c) \/ Report(c)
  \/ Output(c) \/ OutputFails(c) \/ CountEmitted(c)

Commands ==
  \/ WatchSentinel
  \/ ClearFilter
  \/ Cleared
  \/ \E k \in Keys : WatchUid(k) \/ UnwatchUid(k)

Stats == PrintStats \/ ShowStats \/ \E c \in CPUs : ReadCell(c)

Main == Signal \/ CloseReader \/ FinalStats \/ Detach

Next ==
  \/ \E c \in CPUs : Program(c) \/ Read(c) \/ \E u \in Uids : Enter(c, u)
  \/ Commands
  \/ Stats
  \/ Main

\* The program runs to its end, and the reader takes from every buffer that has
\* something; calls, commands and signals are the environment's.
Spec ==
  /\ Init
  /\ [][Next]_vars
  /\ \A c \in CPUs : WF_vars(Program(c)) /\ WF_vars(Read(c))

----------------------------------------------------------------------------
(* Properties.                                                             *)

\* Every call is in exactly one place: filtered, emitted, dropped by the buffer, or
\* still in the program (main.bpf.c:79-138).
CallsAccounted ==
  \A c \in CPUs :
    counters[c]["total"] = counters[c]["emitted"] + counters[c]["filtered"] + dropped[c]
                             + (IF pc[c] = "idle" THEN 0 ELSE 1)

\* Every event the buffer took is printed once or still in the buffer; those that
\* are there when the reader closes are counted as emitted and never printed.
EventsAccounted ==
  \A c \in CPUs :
    counters[c]["emitted"] + (IF pc[c] = "count" THEN 1 ELSE 0) = printed[c] + events[c]

\* printStats reads total first, then what became of the calls (main.go:276-290):
\* with the counters moving, what it leaves unexplained on a CPU is never more than
\* the dropped events and the one call in the program.
StatsExplained ==
  index = "print" =>
    \A c \in CPUs :
      values[c]["total"] <= values[c]["emitted"] + values[c]["filtered"] + dropped[c] + 1

\* The two lookups (main.bpf.c:94, :105) are not atomic with watchuid's two Puts
\* (main.go:210, :217): a call is suppressed although its UID is in the filter, but
\* only if the UID was put there while the call was being handled.
SkipsUnlisted ==
  [][\A c \in CPUs : Skip(c) /\ uid[c] \in uid_filter => put[c]]_vars

\* Between commands a non-empty filter is in force: the ignored error of the second
\* Put (main.go:217) can leave it without its sentinel only after somebody has
\* removed the sentinel by number.
FilterArmed == cli = "idle" /\ uid_filter # {} => Sentinel \in uid_filter \/ disarmed

\* The claim of main.go:170 and :248: after clearfilter everyone is monitored.  The
\* code leaves the filter as it was.
ClearMonitorsAll == [][Cleared => Sentinel \notin uid_filter']_vars

=============================================================================
