--------------------------- MODULE ExecveAuditProof ---------------------------
(***************************************************************************)
(* For any number of CPUs, UIDs and calls, and any size of the filter and  *)
(* of the perf buffers: no call and no event is lost from the books, the   *)
(* statistics are explained, and a listed UID is suppressed only when it   *)
(* was listed during the call.                                             *)
(***************************************************************************)
EXTENDS ExecveAudit, FiniteSetTheorems, TLAPS

\* Types, without the size of the filter, which no other proof needs.
Typed ==
  /\ pc \in [CPUs -> {"idle", "uid", "sentinel", "output", "count"}]
  /\ uid \in [CPUs -> Uids \cup {NULL}]
  /\ listed \in [CPUs -> BOOLEAN]
  /\ counters \in [CPUs -> [Counters -> Nat]]
  /\ events \in [CPUs -> 0 .. PerfSlots]
  /\ uid_filter \in SUBSET Keys
  /\ cli \in {"idle", "sentinel", "clear"}
  /\ main \in {"wait", "close", "stats", "detach", "exited"}
  /\ reader \in BOOLEAN
  /\ index \in Counters \cup {"print", "done"}
  /\ unread \in SUBSET CPUs
  /\ values \in [CPUs -> [Counters -> Nat]]
  /\ dropped \in [CPUs -> Nat]
  /\ printed \in [CPUs -> Nat]
  /\ put \in [CPUs -> BOOLEAN]
  /\ disarmed \in BOOLEAN
  /\ unread # {} => index \in Counters

LEMMA TypedInvariant == Spec => []Typed
<1>1. Init => Typed
  <2>1. 0 \in 0 .. PerfSlots
    BY BoundAssumption
  <2>2. Zeros \in [CPUs -> [Counters -> Nat]]
    BY DEF Zeros
  <2>3. Init => listed \in [CPUs -> BOOLEAN] /\ put \in [CPUs -> BOOLEAN]
                  /\ reader \in BOOLEAN /\ disarmed \in BOOLEAN
    BY DEF Init
  <2>4. Init => /\ pc \in [CPUs -> {"idle", "uid", "sentinel", "output", "count"}]
                /\ uid \in [CPUs -> Uids \cup {NULL}]
                /\ counters \in [CPUs -> [Counters -> Nat]]
                /\ values \in [CPUs -> [Counters -> Nat]]
                /\ events \in [CPUs -> 0 .. PerfSlots]
                /\ dropped \in [CPUs -> Nat] /\ printed \in [CPUs -> Nat]
    BY <2>1, <2>2 DEF Init
  <2>5. QED
    BY <2>3, <2>4 DEF Init, Typed
<1>2. Typed /\ [Next]_vars => Typed'
  <2> SUFFICES ASSUME Typed, [Next]_vars
               PROVE  Typed'
    OBVIOUS
  <2> USE BoundAssumption DEF Typed
  <2>1. ASSUME NEW c \in CPUs, NEW u \in Uids, Enter(c, u)
        PROVE  Typed'
    BY <2>1 DEF Enter, Inc, Counters, filter, stats
  <2>2. ASSUME NEW c \in CPUs, LookupUid(c)
        PROVE  Typed'
    BY <2>2 DEF LookupUid, cells, filter, stats
  <2>3. ASSUME NEW c \in CPUs, Skip(c)
        PROVE  Typed'
    BY <2>3 DEF Skip, Inc, Return, Counters, filter, stats
  <2>4. ASSUME NEW c \in CPUs, Report(c)
        PROVE  Typed'
    BY <2>4 DEF Report, cells, filter, stats
  <2>5. ASSUME NEW c \in CPUs, Output(c)
        PROVE  Typed'
    BY <2>5 DEF Output, filter, stats
  <2>6. ASSUME NEW c \in CPUs, OutputFails(c)
        PROVE  Typed'
    BY <2>6 DEF OutputFails, Return, filter, stats
  <2>7. ASSUME NEW c \in CPUs, CountEmitted(c)
        PROVE  Typed'
    BY <2>7 DEF CountEmitted, Inc, Return, Counters, filter, stats
  <2>8. ASSUME NEW c \in CPUs, Read(c)
        PROVE  Typed'
    BY <2>8 DEF Read, filter, stats
  <2>9. CASE Commands
    <3>1. ASSUME NEW k \in Keys, WatchUid(k)
          PROVE  Typed'
      BY <3>1 DEF WatchUid, Put, cells, stats
    <3>2. CASE WatchSentinel
      BY <3>2 DEF WatchSentinel, Put, Keys, cells, stats
    <3>3. ASSUME NEW k \in Keys, UnwatchUid(k)
          PROVE  Typed'
      BY <3>3 DEF UnwatchUid, program, cells, stats
    <3>4. CASE ClearFilter
      BY <3>4 DEF ClearFilter, program, cells, stats
    <3>5. CASE Cleared
      BY <3>5 DEF Cleared, program, cells, stats
    <3>6. QED
      BY <2>9, <3>1, <3>2, <3>3, <3>4, <3>5 DEF Commands
  <2>10. CASE Stats
    <3>1. CASE PrintStats
      BY <3>1 DEF PrintStats, StartStats, Zeros, Counters, program, cells, filter
    <3>2. CASE ShowStats
      BY <3>2 DEF ShowStats, Zeros, Counters, program, cells, filter
    <3>3. ASSUME NEW c \in CPUs, ReadCell(c)
          PROVE  Typed'
      <4>1. index \in Counters
        BY <3>3 DEF ReadCell
      <4>2. values' \in [CPUs -> [Counters -> Nat]]
        BY <3>3, <4>1 DEF ReadCell
      <4>3. /\ index' \in Counters \cup {"print", "done"}
            /\ unread' \in SUBSET CPUs
            /\ unread' # {} => index' \in Counters
        BY <3>3, <4>1 DEF ReadCell, Follows, Counters
      <4>4. QED
        BY <3>3, <4>2, <4>3 DEF ReadCell, program, cells, filter
    <3>4. QED
      BY <2>10, <3>1, <3>2, <3>3 DEF Stats
  <2>11. CASE Main
    <3>1. CASE Signal
      BY <3>1 DEF Signal, program, cells, filter, stats
    <3>2. CASE CloseReader
      BY <3>2 DEF CloseReader, program, cells, filter, stats
    <3>3. CASE FinalStats
      BY <3>3 DEF FinalStats, StartStats, Zeros, Counters, program, cells, filter
    <3>4. CASE Detach
      BY <3>4 DEF Detach, program, cells, filter, stats
    <3>5. QED
      BY <2>11, <3>1, <3>2, <3>3, <3>4 DEF Main
  <2>12. CASE UNCHANGED vars
    BY <2>12 DEF vars, program, cells, filter, stats
  <2>13. QED
    BY <2>1, <2>2, <2>3, <2>4, <2>5, <2>6, <2>7, <2>8, <2>9, <2>10, <2>11, <2>12
       DEF Next, Program
<1>3. QED
  BY <1>1, <1>2, PTL DEF Spec

----------------------------------------------------------------------------
(* The filter.                                                             *)

\* The size of the filter after a Put.
LEMMA PutSize ==
  ASSUME Typed, Cardinality(uid_filter) <= MaxEntries, NEW k \in Keys, Fits(k)
  PROVE  Cardinality(uid_filter \cup {k}) <= MaxEntries
<1>1. IsFiniteSet(uid_filter)
  <2>1. IsFiniteSet(Keys)
    BY UidAssumption, FS_AddElement DEF Keys
  <2>2. QED
    BY <2>1, FS_Subset DEF Typed
<1>2. Cardinality(uid_filter) \in Nat /\ MaxEntries \in Nat
  BY <1>1, FS_CardinalityType, BoundAssumption
<1>3. CASE k \in uid_filter
  <2>1. uid_filter \cup {k} = uid_filter
    BY <1>3
  <2>2. QED
    BY <2>1
<1>4. CASE k \notin uid_filter
  <2>1. Cardinality(uid_filter \cup {k}) = Cardinality(uid_filter) + 1
    BY <1>1, <1>4, FS_AddElement
  <2>2. Cardinality(uid_filter) < MaxEntries
    BY <1>4 DEF Fits
  <2>3. QED
    BY <1>2, <2>1, <2>2
<1>5. QED
  BY <1>3, <1>4

\* Taking a key out does not make the filter larger.
LEMMA DeleteSize ==
  ASSUME Typed, Cardinality(uid_filter) <= MaxEntries, NEW S
  PROVE  Cardinality(uid_filter \ S) <= MaxEntries
<1>1. IsFiniteSet(Keys)
  BY UidAssumption, FS_AddElement DEF Keys
<1>2. IsFiniteSet(uid_filter)
  BY <1>1, FS_Subset DEF Typed
<1>3. /\ Cardinality(uid_filter \ S) <= Cardinality(uid_filter)
      /\ Cardinality(uid_filter \ S) \in Nat /\ Cardinality(uid_filter) \in Nat
  BY <1>2, FS_Subset, FS_CardinalityType
<1>4. QED
  BY <1>3, BoundAssumption

\* Every variable keeps its type, and uid_filter never holds more keys than
\* max_entries (main.bpf.c:47-52).
THEOREM TypeCorrect == Spec => []TypeOK
<1> DEFINE Small == Cardinality(uid_filter) <= MaxEntries
<1>1. Init => Small
  BY FS_EmptySet, BoundAssumption DEF Init
<1>2. Typed /\ Small /\ [Next]_vars => Small'
  <2> SUFFICES ASSUME Typed, Small, [Next]_vars
               PROVE  Small'
    OBVIOUS
  <2>1. ASSUME NEW k \in Keys, WatchUid(k)
        PROVE  Small'
    BY <2>1, PutSize DEF WatchUid, Put
  <2>2. CASE WatchSentinel
    BY <2>2, PutSize DEF WatchSentinel, Put, Keys
  <2>3. ASSUME NEW k \in Keys, UnwatchUid(k)
        PROVE  Small'
    BY <2>3, DeleteSize DEF UnwatchUid
  <2>4. CASE Cleared
    BY <2>4, DeleteSize DEF Cleared
  <2>5. CASE UNCHANGED uid_filter
    BY <2>5
  <2>6. ASSUME NEW c \in CPUs, Program(c) \/ Read(c) \/ \E u \in Uids : Enter(c, u)
        PROVE  UNCHANGED uid_filter
    BY <2>6 DEF Program, Read, Enter, LookupUid, Skip, Report, Output, OutputFails,
                CountEmitted, filter
  <2>7. CASE ClearFilter \/ Stats \/ Main \/ UNCHANGED vars
    BY <2>5, <2>7 DEF ClearFilter, Stats, PrintStats, ShowStats, ReadCell, Main, Signal,
                      CloseReader, FinalStats, Detach, filter, vars
  <2>8. QED
    BY <2>1, <2>2, <2>3, <2>4, <2>5, <2>6, <2>7 DEF Next, Commands
<1>3. Typed /\ Small => TypeOK
  BY DEF Typed, TypeOK
<1>4. QED
  BY <1>1, <1>2, <1>3, TypedInvariant, PTL DEF Spec

\* An activation between its lookups that did not find its UID, and would find it
\* now, has seen it put.
Overlapped ==
  \A c \in CPUs : pc[c] = "sentinel" /\ ~listed[c] /\ uid[c] \in uid_filter => put[c]

\* A call is suppressed although its UID is listed only when watchuid listed it
\* between the two lookups (main.bpf.c:94, :105; main.go:210).
THEOREM SkipsAreUnlisted == Spec => SkipsUnlisted
<1>1. Init => Overlapped
  BY DEF Init, Overlapped
<1>2. Typed /\ Overlapped /\ [Next]_vars => Overlapped'
  <2> SUFFICES ASSUME Typed, Overlapped, [Next]_vars
               PROVE  Overlapped'
    OBVIOUS
  <2> USE DEF Typed, Overlapped
  <2>1. CASE UNCHANGED <<pc, uid, listed, put>> /\ uid_filter' \subseteq uid_filter
    BY <2>1
  <2>2. ASSUME NEW c \in CPUs, NEW u \in Uids, Enter(c, u)
        PROVE  Overlapped'
    BY <2>2 DEF Enter, filter
  <2>3. ASSUME NEW c \in CPUs, LookupUid(c)
        PROVE  Overlapped'
    BY <2>3 DEF LookupUid, filter
  <2>4. ASSUME NEW c \in CPUs, Skip(c) \/ OutputFails(c) \/ CountEmitted(c)
        PROVE  Overlapped'
    BY <2>4 DEF Skip, OutputFails, CountEmitted, Return, filter
  <2>5. ASSUME NEW c \in CPUs, Report(c) \/ Output(c)
        PROVE  Overlapped'
    BY <2>5 DEF Report, Output, filter
  <2>6. ASSUME NEW k, Put(k), UNCHANGED <<pc, uid, listed>>
        PROVE  Overlapped'
    BY <2>6 DEF Put
  <2>7. ASSUME NEW k \in Keys, WatchUid(k) \/ UnwatchUid(k)
        PROVE  Overlapped'
    BY <2>1, <2>6, <2>7 DEF WatchUid, UnwatchUid, program
  <2>8. CASE WatchSentinel
    BY <2>1, <2>6, <2>8 DEF WatchSentinel
  <2>9. CASE ClearFilter \/ Cleared
    BY <2>1, <2>9 DEF ClearFilter, Cleared, program
  <2>10. CASE Stats \/ Main \/ UNCHANGED vars \/ \E c \in CPUs : Read(c)
    BY <2>1, <2>10 DEF Stats, PrintStats, ShowStats, ReadCell, Main, Signal, CloseReader,
                       FinalStats, Detach, Read, program, filter, vars
  <2>11. QED
    BY <2>2, <2>3, <2>4, <2>5, <2>7, <2>8, <2>9, <2>10 DEF Next, Program, Commands
<1>3. Overlapped => \A c \in CPUs : Skip(c) /\ uid[c] \in uid_filter => put[c]
  BY DEF Overlapped, Skip
<1>4. QED
  BY <1>1, <1>2, <1>3, TypedInvariant, PTL DEF Spec, SkipsUnlisted

\* With the sentinel never removed by number, a filter without it is empty, or holds
\* just the key that watchuid has put a moment ago.
Armed ==
  Sentinel \notin uid_filter /\ ~disarmed =>
    \/ uid_filter = {}
    \/ cli = "sentinel" /\ \E k \in Keys : uid_filter = {k}

\* Between commands a non-empty filter carries its sentinel unless that was removed
\* by number: with at least two entries, watchuid's unchecked second Put does not
\* fail before (main.go:210-217).
THEOREM FilterStaysArmed == Spec => []FilterArmed
<1>1. Init => Armed
  BY DEF Init, Armed
<1>2. Typed /\ Armed /\ [Next]_vars => Armed'
  <2> SUFFICES ASSUME Typed, Armed, [Next]_vars, Sentinel \notin uid_filter', ~disarmed'
               PROVE  \/ uid_filter' = {}
                      \/ cli' = "sentinel" /\ \E k \in Keys : uid_filter' = {k}
    BY DEF Armed, Keys
  <2> USE DEF Armed
  <2>1. ASSUME NEW k \in Keys, WatchUid(k)
        PROVE  cli' = "sentinel" /\ uid_filter' = {k}
    BY <2>1 DEF WatchUid, Put
  <2>2. CASE WatchSentinel
    <3>1. Sentinel \notin uid_filter /\ ~disarmed /\ ~Fits(Sentinel) /\ uid_filter' = uid_filter
      BY <2>2 DEF WatchSentinel, Put
    <3>2. CASE uid_filter = {}
      BY <3>1, <3>2
    <3>3. ASSUME NEW k \in Keys, uid_filter = {k}
          PROVE  FALSE
      <4>1. Cardinality(uid_filter) = 1
        BY <3>3, FS_Singleton
      <4>2. QED
        BY <3>1, <4>1, BoundAssumption DEF Fits
    <3>4. QED
      BY <3>1, <3>2, <3>3
  <2>3. ASSUME NEW k \in Keys, UnwatchUid(k)
        PROVE  uid_filter' = {}
    <3>1. cli = "idle" /\ uid_filter' = uid_filter \ {k} /\ k # Sentinel /\ ~disarmed
      BY <2>3 DEF UnwatchUid, Typed
    <3>2. Sentinel \notin uid_filter
      BY <3>1
    <3>3. QED
      BY <3>1, <3>2
  <2>4. CASE ClearFilter \/ Cleared
    BY <2>4 DEF ClearFilter, Cleared, Iterated
  <2>5. CASE UNCHANGED filter
    BY <2>5 DEF filter
  <2>6. ASSUME NEW c \in CPUs, Program(c) \/ Read(c) \/ \E u \in Uids : Enter(c, u)
        PROVE  UNCHANGED filter
    BY <2>6 DEF Program, Read, Enter, LookupUid, Skip, Report, Output, OutputFails,
                CountEmitted
  <2>7. CASE Stats \/ Main \/ UNCHANGED vars
    BY <2>5, <2>7 DEF Stats, PrintStats, ShowStats, ReadCell, Main, Signal, CloseReader,
                      FinalStats, Detach, vars
  <2>8. QED
    BY <2>1, <2>2, <2>3, <2>4, <2>5, <2>6, <2>7 DEF Next, Commands
<1>3. Armed => FilterArmed
  BY DEF Armed, FilterArmed
<1>4. QED
  BY <1>1, <1>2, <1>3, TypedInvariant, PTL DEF Spec

----------------------------------------------------------------------------
(* The books.                                                              *)

\* What one step of trace_execve does to the books of its CPU; others stay.
LEMMA CallsStep == Typed /\ CallsAccounted /\ [Next]_vars => CallsAccounted'
<1> SUFFICES ASSUME Typed, CallsAccounted, [Next]_vars, NEW d \in CPUs
             PROVE  (counters[d]["total"] = counters[d]["emitted"] + counters[d]["filtered"]
                       + dropped[d] + (IF pc[d] = "idle" THEN 0 ELSE 1))'
  BY DEF CallsAccounted
<1> USE DEF Typed, CallsAccounted, Counters
<1>1. CASE UNCHANGED <<pc, counters, dropped>>
  BY <1>1
<1>2. ASSUME NEW c \in CPUs, NEW u \in Uids, Enter(c, u)
      PROVE  CallsAccounted'
  BY <1>2 DEF Enter, Inc
<1>3. ASSUME NEW c \in CPUs, LookupUid(c) \/ Report(c) \/ Output(c)
      PROVE  CallsAccounted'
  BY <1>3 DEF LookupUid, Report, Output, cells
<1>4. ASSUME NEW c \in CPUs, Skip(c)
      PROVE  CallsAccounted'
  BY <1>4 DEF Skip, Inc, Return
<1>5. ASSUME NEW c \in CPUs, OutputFails(c)
      PROVE  CallsAccounted'
  BY <1>5 DEF OutputFails, Return
<1>6. ASSUME NEW c \in CPUs, CountEmitted(c)
      PROVE  CallsAccounted'
  BY <1>6 DEF CountEmitted, Inc, Return
<1>7. CASE Commands \/ Stats \/ Main \/ UNCHANGED vars \/ \E c \in CPUs : Read(c)
  <2>1. UNCHANGED <<pc, counters, dropped>>
    BY <1>7 DEF Commands, WatchUid, WatchSentinel, UnwatchUid, ClearFilter, Cleared,
                Stats, PrintStats, ShowStats, ReadCell, Main, Signal, CloseReader,
                FinalStats, Detach, Read, program, cells, vars
  <2>2. QED
    BY <1>1, <2>1
<1>8. QED
  BY <1>2, <1>3, <1>4, <1>5, <1>6, <1>7 DEF Next, Program

\* Every call is filtered, emitted, dropped or in the program (main.bpf.c:79-138).
THEOREM CallsAddUp == Spec => []CallsAccounted
<1>1. Init => CallsAccounted
  BY DEF Init, CallsAccounted, Zeros, Counters
<1>2. QED
  BY <1>1, CallsStep, TypedInvariant, PTL DEF Spec

\* Every event the buffers took is printed or still there (main.go:118-148).
THEOREM EventsAddUp == Spec => []EventsAccounted
<1>1. Init => EventsAccounted
  BY DEF Init, EventsAccounted, Zeros, Counters
<1>2. Typed /\ EventsAccounted /\ [Next]_vars => EventsAccounted'
  <2> SUFFICES ASSUME Typed, EventsAccounted, [Next]_vars
               PROVE  EventsAccounted'
    OBVIOUS
  <2> USE BoundAssumption DEF Typed, EventsAccounted, Counters
  <2>1. CASE UNCHANGED <<pc, counters, events, printed>>
    BY <2>1
  <2>2. ASSUME NEW c \in CPUs, NEW u \in Uids, Enter(c, u)
        PROVE  EventsAccounted'
    BY <2>2 DEF Enter, Inc
  <2>3. ASSUME NEW c \in CPUs, LookupUid(c) \/ Report(c) \/ OutputFails(c)
        PROVE  EventsAccounted'
    BY <2>3 DEF LookupUid, Report, OutputFails, Return, cells
  <2>4. ASSUME NEW c \in CPUs, Skip(c)
        PROVE  EventsAccounted'
    BY <2>4 DEF Skip, Inc, Return
  <2>5. ASSUME NEW c \in CPUs, Output(c)
        PROVE  EventsAccounted'
    BY <2>5 DEF Output
  <2>6. ASSUME NEW c \in CPUs, CountEmitted(c)
        PROVE  EventsAccounted'
    BY <2>6 DEF CountEmitted, Inc, Return
  <2>7. ASSUME NEW c \in CPUs, Read(c)
        PROVE  EventsAccounted'
    BY <2>7 DEF Read
  <2>8. CASE Commands \/ Stats \/ Main \/ UNCHANGED vars
    <3>1. UNCHANGED <<pc, counters, events, printed>>
      BY <2>8 DEF Commands, WatchUid, WatchSentinel, UnwatchUid, ClearFilter, Cleared,
                  Stats, PrintStats, ShowStats, ReadCell, Main, Signal, CloseReader,
                  FinalStats, Detach, program, cells, vars
    <3>2. QED
      BY <2>1, <3>1
  <2>9. QED
    BY <2>2, <2>3, <2>4, <2>5, <2>6, <2>7, <2>8 DEF Next, Program
<1>3. QED
  BY <1>1, <1>2, TypedInvariant, PTL DEF Spec

----------------------------------------------------------------------------
(* The statistics.                                                         *)

\* Where printStats is once it has read all cells of a counter.
After == [total    |-> {"emitted", "filtered", "print"},
          emitted  |-> {"filtered", "print"},
          filtered |-> {"print"}]

\* printStats has read c's cell of counter i.
Have(c, i) == index \in After[i] \/ (index = i /\ c \notin unread)

\* What is known of counter i: the cell that was read, or the one still moving.
Known(c, i) == IF Have(c, i) THEN values[c][i] ELSE counters[c][i]

\* Each cell read after the total can only add to the explanation.
Explained ==
  \A c \in CPUs :
    Have(c, "total") =>
      values[c]["total"] <= Known(c, "emitted") + Known(c, "filtered") + dropped[c] + 1

\* What printStats leaves unexplained on a CPU is dropped events and at most the one
\* call in the program, whatever happens between its reads (main.go:276-290).
THEOREM StatsAreExplained == Spec => []StatsExplained
<1>1. Init => Explained
  BY DEF Init, Explained, Have, After
<1>2. Typed /\ CallsAccounted /\ Explained /\ [Next]_vars => Explained'
  <2> SUFFICES ASSUME Typed, CallsAccounted, Explained, [Next]_vars,
                      NEW d \in CPUs, Have(d, "total")'
               PROVE  values'[d]["total"]
                        <= Known(d, "emitted")' + Known(d, "filtered")' + dropped'[d] + 1
    BY DEF Explained
  <2> USE DEF Counters, Typed
  <2>0. /\ \A i \in Counters : counters[d][i] \in Nat /\ values[d][i] \in Nat
        /\ dropped[d] \in Nat
        /\ counters[d]["total"] <= counters[d]["emitted"] + counters[d]["filtered"] + dropped[d] + 1
    BY DEF CallsAccounted
  <2>1. ASSUME UNCHANGED stats, dropped'[d] \in Nat, dropped'[d] >= dropped[d],
               \A i \in {"emitted", "filtered"} :
                 counters'[d][i] \in Nat /\ counters'[d][i] >= counters[d][i]
        PROVE  values'[d]["total"]
                 <= Known(d, "emitted")' + Known(d, "filtered")' + dropped'[d] + 1
    BY <2>0, <2>1 DEF Explained, Known, Have, stats
  <2>2. ASSUME NEW c \in CPUs, NEW u \in Uids, Enter(c, u)
        PROVE  UNCHANGED <<stats, dropped>>
               /\ \A i \in {"emitted", "filtered"} : counters'[d][i] = counters[d][i]
    BY <2>2 DEF Enter, Inc
  <2>3. ASSUME NEW c \in CPUs, Program(c) \/ Read(c)
        PROVE  /\ UNCHANGED stats
               /\ dropped'[d] \in {dropped[d], dropped[d] + 1}
               /\ \A i \in Counters : counters'[d][i] \in {counters[d][i], counters[d][i] + 1}
    <3>1. CASE LookupUid(c) \/ Report(c) \/ Output(c) \/ Read(c)
      BY <3>1 DEF LookupUid, Report, Output, Read, cells
    <3>2. CASE Skip(c) \/ CountEmitted(c)
      BY <3>2 DEF Skip, CountEmitted, Inc
    <3>3. CASE OutputFails(c)
      BY <3>3 DEF OutputFails
    <3>4. QED
      BY <2>3, <3>1, <3>2, <3>3 DEF Program
  <2>4. CASE UNCHANGED <<counters, dropped, stats>>
    BY <2>0, <2>1, <2>4
  <2>5. CASE PrintStats \/ ShowStats \/ FinalStats
    BY <2>5 DEF PrintStats, ShowStats, FinalStats, StartStats, Have, After
  <2>6. ASSUME NEW c \in CPUs, ReadCell(c)
        PROVE  values'[d]["total"]
                 <= Known(d, "emitted")' + Known(d, "filtered")' + dropped'[d] + 1
    <3>1. index \in Counters /\ c \in unread /\ UNCHANGED <<counters, dropped>>
          /\ values' = [values EXCEPT ![c][index] = counters[c][index]]
      BY <2>6 DEF ReadCell, program, cells
    <3>2. \A i \in Counters :
            /\ Have(d, i)' <=> Have(d, i) \/ (d = c /\ i = index)
            /\ d = c /\ i = index => ~Have(d, i)
      <4>1. CASE unread = {c}
        BY <2>6, <3>1, <4>1 DEF ReadCell, Have, Follows, After
      <4>2. CASE unread # {c}
        BY <2>6, <3>1, <4>2 DEF ReadCell, Have, After
      <4>3. QED
        BY <4>1, <4>2
    <3>3. \A i \in Counters :
            values'[d][i] = IF d = c /\ i = index THEN counters[d][i] ELSE values[d][i]
      BY <3>1
    <3>4. \A i \in Counters : Known(d, i)' = Known(d, i)
      BY <3>1, <3>2, <3>3 DEF Known
    <3>5. CASE d = c /\ index = "total"
      <4>1. ~Have(d, "emitted") /\ ~Have(d, "filtered")
        BY <3>5 DEF Have, After
      <4>2. QED
        BY <2>0, <3>1, <3>3, <3>4, <3>5, <4>1 DEF Known
    <3>6. CASE ~(d = c /\ index = "total")
      BY <2>0, <3>1, <3>2, <3>3, <3>4, <3>6 DEF Explained
    <3>7. QED
      BY <3>5, <3>6
  <2>7. CASE Commands \/ Signal \/ CloseReader \/ Detach \/ UNCHANGED vars
    BY <2>4, <2>7 DEF Commands, WatchUid, WatchSentinel, UnwatchUid, ClearFilter, Cleared,
                      Signal, CloseReader, Detach, program, cells, vars
  <2>8. QED
    BY <2>0, <2>1, <2>2, <2>3, <2>5, <2>6, <2>7 DEF Next, Stats, Main
<1>3. Explained => StatsExplained
  BY DEF Explained, StatsExplained, Known, Have, After
<1>4. QED
  BY <1>1, <1>2, <1>3, TypedInvariant, CallsAddUp, PTL DEF Spec

=============================================================================
