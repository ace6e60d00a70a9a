----------------------------- MODULE RingStream -----------------------------
(***************************************************************************)
(* Series 06: a stream of file opens through a BPF ring buffer.            *)
(* trace_openat reserves a record, writes it in place and submits it, on   *)
(* every CPU at once; a goroutine reads the records in the order of their  *)
(* reservation; two others print its count and the kernel's drops.         *)
(*                                                                         *)
(* The ring and its reader library are modelled from their use: a record   *)
(* is busy until it is submitted, the reader waits at a busy record, and   *)
(* submitting wakes a sleeping reader only if the record is the next one.  *)
(* Every record has the same size; the ring's is taken as a multiple of    *)
(* it, so a record lies exactly where an older one did.                    *)
(***************************************************************************)
EXTENDS Integers, Sequences, FiniteSets, Functions, FiniteSetsExt

CONSTANTS
  CPUs,
  Names,      \* the paths that are opened: sequences of characters
  PathSize,   \* sizeof(e->path)
  Slots,      \* records the ring holds (16 MiB in the source)
  Printers,   \* the goroutines that call printStats: Main and the commands'
  Main,
  MaxCalls,   \* bound on the calls of a behaviour; not in the code
  NUL,
  NULL

ASSUME SizeAssumption ==
  /\ Slots \in Nat \ {0}
  /\ PathSize \in Nat \ {0}
  /\ MaxCalls \in Nat
ASSUME NameAssumption ==
  NULL \notin Names /\ \A n \in Names : n \in Seq(Range(n)) /\ NUL \notin Range(n)
ASSUME PrinterAssumption == Main \in Printers
ASSUME CPUAssumption == IsFiniteSet(CPUs)

VARIABLES
  pc,          \* where each CPU is in trace_openat; "idle" between calls
  fname,       \* the name the call opens
  mine,        \* the position of the record the call has reserved, or NULL
  busy,        \* whether a slot's record is reserved and not submitted
  path,        \* the path bytes of each slot
  produced,    \* the ring's producer position, in records
  consumed,    \* its consumer position
  drop_count,  \* the per-CPU cells
  reader,      \* the goroutine: "wait", "sleep" or "read" in rd.Read; "count", "print", "done"
  rec,         \* the path bytes it has copied out of the ring
  received,
  main,        \* main: "loop", "final", "close", "detach", "exited"
  attached,    \* whether the tracepoint link is open
  printer,     \* printStats of each goroutine: "idle", "drops"
  rx,          \* its argument: received when it was called
  unread,      \* the CPUs whose drops it has still to add
  drops,       \* its sum
  calls,       \* history: the calls so far
  opened,      \* history: the names opened, in the order of the reservations
  lastShown,   \* history: the path the reader printed last
  since        \* history: received and counted drops when printStats was called

program == <<pc, fname, mine, calls, opened, drop_count>>
ring == <<busy, path, produced, consumed>>
reading == <<reader, rec, received, lastShown>>
stats == <<printer, rx, unread, drops, since>>
vars == <<program, ring, reading, main, attached, stats>>

Total == SumFunction(drop_count)
Waiting == produced - consumed

Blank == [i \in 1 .. PathSize |-> NUL]
Chars == UNION {Range(n) : n \in Names}
Paths == [1 .. PathSize -> Chars \cup {NUL}]

TypeOK ==
  /\ pc \in [CPUs -> {"idle", "reserve", "drop", "fill", "submit"}]
  /\ fname \in [CPUs -> Names \cup {NULL}]
  /\ mine \in [CPUs -> Nat \cup {NULL}]
  /\ busy \in [0 .. Slots - 1 -> BOOLEAN]
  /\ path \in [0 .. Slots - 1 -> Paths]
  /\ produced \in Nat
  /\ consumed \in Nat
  /\ Waiting \in 0 .. Slots
  /\ drop_count \in [CPUs -> Nat]
  /\ reader \in {"wait", "sleep", "read", "count", "print", "done"}
  /\ rec \in Paths
  /\ received \in Nat
  /\ main \in {"loop", "final", "close", "detach", "exited"}
  /\ attached \in BOOLEAN
  /\ printer \in [Printers -> {"idle", "drops"}]
  /\ rx \in [Printers -> Nat]
  /\ unread \in [Printers -> SUBSET CPUs]
  /\ drops \in [Printers -> Nat]
  /\ calls \in Nat
  /\ opened \in Seq(Seq(Chars))
  /\ lastShown \in Seq(Chars \cup {NUL})
  /\ since \in [Printers -> Nat]

Init ==
  /\ pc = [c \in CPUs |-> "idle"]
  /\ fname = [c \in CPUs |-> NULL]
  /\ mine = [c \in CPUs |-> NULL]
  /\ busy = [s \in 0 .. Slots - 1 |-> FALSE]
  /\ path = [s \in 0 .. Slots - 1 |-> Blank]
  /\ produced = 0
  /\ consumed = 0
  /\ drop_count = [c \in CPUs |-> 0]
  /\ reader = "wait"
  /\ rec = Blank
  /\ received = 0
  /\ main = "loop"
  /\ attached = TRUE
  /\ printer = [p \in Printers |-> "idle"]
  /\ rx = [p \in Printers |-> 0]
  /\ unread = [p \in Printers |-> {}]
  /\ drops = [p \in Printers |-> 0]
  /\ calls = 0
  /\ opened = <<>>
  /\ lastShown = <<>>
  /\ since = [p \in Printers |-> 0]

----------------------------------------------------------------------------
(* Paths.                                                                  *)

\* What of a name fits: bpf_probe_read_user_str keeps the last byte for the NUL.
\* NULL is a name in memory that cannot be read.
Fitting(n) ==
  IF n = NULL THEN <<>> ELSE SubSeq(n, 1, Min({Len(n), PathSize - 1}))

\* Mutant: bpf_probe_read_user, which copies no NUL after the name.
CopiedOpen(old, n) ==
  [i \in 1 .. PathSize |-> IF i <= Len(Fitting(n)) THEN Fitting(n)[i] ELSE old[i]]

\* The path bytes after the copy: the name and its NUL over what was there, or
\* nothing but NULs if the memory cannot be read.
Copied(old, n) ==
  LET name == Fitting(n) IN
  IF n = NULL THEN Blank
  ELSE [i \in 1 .. PathSize |-> IF i <= Len(name) THEN name[i]
                               ELSE IF i = Len(name) + 1 THEN NUL
                               ELSE old[i]]

\* strings.TrimRight(path, "\x00"): the text up to the last byte that is no NUL.
TrimRight(p) == SubSeq(p, 1, Max({i \in DOMAIN p : p[i] # NUL} \cup {0}))

----------------------------------------------------------------------------
(* trace_openat.                                                           *)

Return(c) ==
  /\ pc' = [pc EXCEPT ![c] = "idle"]
  /\ fname' = [fname EXCEPT ![c] = NULL]
  /\ mine' = [mine EXCEPT ![c] = NULL]

Enter(c, n) ==
  /\ attached
  /\ pc[c] = "idle"
  /\ calls < MaxCalls
  /\ pc' = [pc EXCEPT ![c] = "reserve"]
  /\ fname' = [fname EXCEPT ![c] = n]
  /\ calls' = calls + 1
  /\ UNCHANGED <<mine, opened, drop_count, ring, reading, main, attached, stats>>

\* Mutant: a record is reserved when the ring is full.
ReserveOver(c) ==
  /\ pc[c] = "reserve"
  /\ busy' = [busy EXCEPT ![produced % Slots] = TRUE]
  /\ produced' = produced + 1
  /\ mine' = [mine EXCEPT ![c] = produced]
  /\ opened' = Append(opened, Fitting(fname[c]))
  /\ pc' = [pc EXCEPT ![c] = "fill"]
  /\ UNCHANGED <<fname, calls, drop_count, path, consumed, reading, main, attached, stats>>

\* bpf_ringbuf_reserve returns a record: not cleared of what it held.
Reserve(c) ==
  /\ pc[c] = "reserve"
  /\ Waiting < Slots
  /\ busy' = [busy EXCEPT ![produced % Slots] = TRUE]
  /\ produced' = produced + 1
  /\ mine' = [mine EXCEPT ![c] = produced]
  /\ opened' = Append(opened, Fitting(fname[c]))
  /\ pc' = [pc EXCEPT ![c] = "fill"]
  /\ UNCHANGED <<fname, calls, drop_count, path, consumed, reading, main, attached, stats>>

\* It returns NULL: the ring is full.
ReserveFails(c) ==
  /\ pc[c] = "reserve"
  /\ Waiting = Slots
  /\ pc' = [pc EXCEPT ![c] = "drop"]
  /\ UNCHANGED <<fname, mine, calls, opened, drop_count, ring, reading, main, attached, stats>>

\* Mutant: the record is given up without a count.
DropUncounted(c) ==
  /\ pc[c] = "drop"
  /\ Return(c)
  /\ UNCHANGED <<calls, opened, drop_count, ring, reading, main, attached, stats>>

Drop(c) ==
  /\ pc[c] = "drop"
  /\ drop_count' = [drop_count EXCEPT ![c] = @ + 1]
  /\ Return(c)
  /\ UNCHANGED <<calls, opened, ring, reading, main, attached, stats>>

\* The process's fields are written too; the reader prints them as they are.
Fill(c) ==
  /\ pc[c] = "fill"
  /\ path' = [path EXCEPT ![mine[c] % Slots] = Copied(@, fname[c])]
  /\ pc' = [pc EXCEPT ![c] = "submit"]
  /\ UNCHANGED <<fname, mine, calls, opened, drop_count, busy, produced, consumed,
                 reading, main, attached, stats>>

\* Mutant: bpf_ringbuf_submit(e, BPF_RB_NO_WAKEUP).
SubmitSilently(c) ==
  /\ pc[c] = "submit"
  /\ busy' = [busy EXCEPT ![mine[c] % Slots] = FALSE]
  /\ Return(c)
  /\ UNCHANGED <<calls, opened, drop_count, path, produced, consumed,
                 reading, main, attached, stats>>

\* bpf_ringbuf_submit(e, 0): a sleeping reader wakes for the record it is at.
Submit(c) ==
  /\ pc[c] = "submit"
  /\ busy' = [busy EXCEPT ![mine[c] % Slots] = FALSE]
  /\ reader' = IF reader = "sleep" /\ mine[c] = consumed THEN "read" ELSE reader
  /\ Return(c)
  /\ UNCHANGED <<calls, opened, drop_count, path, produced, consumed,
                 rec, received, lastShown, main, attached, stats>>

----------------------------------------------------------------------------
(* The reading goroutine: rd.Read, received++, and the line it prints.     *)

Runs == main # "exited"

\* rd.Read waits for data, busy or not; a closed reader ends the goroutine.
Wait ==
  /\ Runs
  /\ reader \in {"wait", "sleep"}
  /\ \/ /\ main = "close"
        /\ reader' = "done"
     \/ /\ main # "close"
        /\ reader = "wait"
        /\ reader' = IF Waiting = 0 THEN "sleep" ELSE "read"
  /\ UNCHANGED <<program, ring, rec, received, lastShown, main, attached, stats>>

\* The next record, once it is submitted; it spins on a busy one.
Take ==
  /\ Runs
  /\ reader = "read"
  /\ Waiting > 0
  /\ ~busy[consumed % Slots]
  /\ rec' = path[consumed % Slots]
  /\ consumed' = consumed + 1
  /\ reader' = "count"
  /\ UNCHANGED <<program, busy, path, produced, received, lastShown, main, attached, stats>>

\* No record is left.
Drained ==
  /\ Runs
  /\ reader = "read"
  /\ Waiting = 0
  /\ reader' = "wait"
  /\ UNCHANGED <<program, ring, rec, received, lastShown, main, attached, stats>>

\* Every sample has an Event's size: the check of the length never fails.
Count ==
  /\ Runs
  /\ reader = "count"
  /\ received' = received + 1
  /\ reader' = "print"
  /\ UNCHANGED <<program, ring, rec, lastShown, main, attached, stats>>

PrintEvent ==
  /\ Runs
  /\ reader = "print"
  /\ lastShown' = TrimRight(rec)
  /\ reader' = IF main = "detach" THEN "done" ELSE "read"
  /\ UNCHANGED <<program, ring, rec, received, main, attached, stats>>

----------------------------------------------------------------------------
(* printStats, called by main's ticker and last of all, and by "stats".    *)

\* The argument received is read at the call; no lock orders it with received++.
Call(p) ==
  /\ printer[p] = "idle"
  /\ printer' = [printer EXCEPT ![p] = "drops"]
  /\ rx' = [rx EXCEPT ![p] = received]
  /\ unread' = [unread EXCEPT ![p] = CPUs]
  /\ drops' = [drops EXCEPT ![p] = 0]
  /\ since' = [since EXCEPT ![p] = received + Total]

\* The main loop calls it on a tick, the command goroutine on "stats".
Stats(p) ==
  /\ Runs
  /\ p = Main => main = "loop"
  /\ Call(p)
  /\ UNCHANGED <<program, ring, reading, main, attached>>

\* Mutant: the cell of a CPU is added again.
AddDropsAgain(p, c) ==
  /\ Runs
  /\ printer[p] = "drops"
  /\ c \in unread[p]
  /\ drops' = [drops EXCEPT ![p] = @ + drop_count[c]]
  /\ \/ unread' = [unread EXCEPT ![p] = @ \ {c}]
     \/ unread' = unread
  /\ UNCHANGED <<printer, rx, since, program, ring, reading, main, attached>>

\* One per-CPU lookup reads the cells, one after the other.
AddDrops(p, c) ==
  /\ Runs
  /\ printer[p] = "drops"
  /\ c \in unread[p]
  /\ drops' = [drops EXCEPT ![p] = @ + drop_count[c]]
  /\ unread' = [unread EXCEPT ![p] = @ \ {c}]
  /\ UNCHANGED <<printer, rx, since, program, ring, reading, main, attached>>

\* The lines are printed; main goes on to close the reader after the last ones.
PrintStats(p) ==
  /\ Runs
  /\ printer[p] = "drops"
  /\ unread[p] = {}
  /\ printer' = [printer EXCEPT ![p] = "idle"]
  /\ rx' = [rx EXCEPT ![p] = 0]
  /\ drops' = [drops EXCEPT ![p] = 0]
  /\ since' = [since EXCEPT ![p] = 0]
  /\ main' = IF p = Main /\ main = "final" THEN "close" ELSE main
  /\ UNCHANGED <<unread, program, ring, reading, attached>>

----------------------------------------------------------------------------
(* The end of main: "exit" or a signal.                                    *)

Signal ==
  /\ main = "loop"
  /\ Call(Main)
  /\ main' = "final"
  /\ UNCHANGED <<program, ring, reading, attached>>

\* rd.Close first ends the wait of rd.Read, then waits for its lock.
CloseReader ==
  /\ main = "close"
  /\ reader \in {"count", "print", "done"}
  /\ main' = "detach"
  /\ UNCHANGED <<program, ring, reading, attached, stats>>

\* tp.Close.
Detach ==
  /\ main = "detach"
  /\ attached
  /\ attached' = FALSE
  /\ UNCHANGED <<program, ring, reading, main, stats>>

\* main returns, or the process is killed.
Exit ==
  /\ Runs
  /\ main' = "exited"
  /\ attached' = FALSE
  /\ UNCHANGED <<program, ring, reading, stats>>

----------------------------------------------------------------------------

Program(c) == Reserve(c) \/ ReserveFails(c) \/ Drop(c) \/ Fill(c) \/ Submit(c)

Reader == Wait \/ Take \/ Drained \/ Count \/ PrintEvent

Next ==
  \/ \E c \in CPUs : Program(c) \/ \E n \in Names \cup {NULL} : Enter(c, n)
  \/ Reader
  \/ \E p \in Printers :
       Stats(p) \/ PrintStats(p) \/ \E c \in CPUs : AddDrops(p, c)
  \/ Signal \/ CloseReader \/ Detach \/ Exit

\* A tracepoint program runs to its end and the reading goroutine is scheduled;
\* opens, commands, ticks and signals are the environment's.
Spec ==
  /\ Init
  /\ [][Next]_vars
  /\ \A c \in CPUs : WF_vars(Program(c))
  /\ WF_vars(Reader)

----------------------------------------------------------------------------
(* Properties.                                                             *)

\* A path's text up to its first NUL.
CString(s) == SubSeq(s, 1, Min({i \in DOMAIN s : s[i] = NUL} \cup {Len(s) + 1}) - 1)

Shown == IF reader = "print" THEN received - 1 ELSE received

Stream ==
  INSTANCE OrderedStream WITH
    Names <- {Fitting(n) : n \in Names \cup {NULL}},
    Room  <- Slots + 1,
    queue <- SubSeq(opened, Shown + 1, Len(opened)),
    last  <- CString(lastShown),
    shown <- Shown,
    lost  <- Total

\* Reservations of several CPUs, submitted in any order and read behind a busy
\* record (main.bpf.c:37, :52; main.go:73), come out as one ordered stream: every
\* open that got a record is printed once, in the order of the reservations, and
\* under its own name up to the first NUL.
StreamInOrder == Stream!Spec

\* Where every call is (main.bpf.c:37-43, main.go:80): received, dropped and
\* counted so, in the ring, between the ring and received++, or before either.
CallsAccounted ==
  calls =
    received + Total + Waiting + (IF reader = "count" THEN 1 ELSE 0)
      + Cardinality({c \in CPUs : pc[c] \in {"reserve", "drop"}})

\* The two totals printed together were read at different times (main.go:94,
\* :118): their sum is one the opens really had between the call and the print.
StatsExplained ==
  \A p \in Printers : printer[p] = "drops" /\ unread[p] = {} =>
    rx[p] + drops[p] \in since[p] .. received + Total

\* The wake-up is sent only for the record the reader is at (main.bpf.c:52), and
\* CPUs submit out of order; still no record is left in the ring while main serves
\* (main.go:72-84): the reader catches up again and again, or goes on printing.
NoRecordLeft ==
  []<>(Shown = Len(opened) \/ main # "loop") \/ []<><<PrintEvent>>_vars

=============================================================================
