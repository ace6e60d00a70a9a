------------------------------ MODULE TcEgress ------------------------------
(***************************************************************************)
(* Series 11 and 10 on the egress hook of lo.  The rate limiter's loader   *)
(* sets up the clsact qdisc, the pin and the filter itself, removes them   *)
(* when it is signalled, and leaves them when it is killed or gives up     *)
(* half way; its next start clears what it finds.  Series 10 is attached   *)
(* by hand with tc, and its loader only loads a second copy of it.         *)
(*                                                                         *)
(* Every loader is a process of its own, and several may run.  A tc command*)
(* that was started ends before its loader can be killed.                  *)
(***************************************************************************)
EXTENDS Integers, Sequences, FiniteSets, Functions

CONSTANTS
  Loaders,      \* processes of series 11's loader, each started once
  Attachments,  \* filters of series 10, each with its instance of packet_queue
  Own,          \* the instance of packet_queue that series 10's loader has
  QueueEntries, \* max_entries of packet_queue (512 in the source)
  NoPin         \* no pin file

ASSUME DistinctAssumption ==
  Loaders \cap Attachments = {} /\ Own \notin Attachments /\ NoPin \notin Loaders
ASSUME QueueAssumption == QueueEntries \in Nat \ {0}

VARIABLES
  at,         \* what each loader does next, or how it ended
  qdisc,      \* the clsact qdisc is there
  filters,    \* on egress; the first decides, and its verdict is final
  pinned,     \* whose program /sys/fs/bpf/rate_limiter is, or NoPin
  queued,     \* how many packets are in each instance of packet_queue
  popped,     \* history: a pop has shown a packet
  passed,     \* history: packets that each attachment of series 10 let through
  failed,     \* history: <<l, step>>: the step of loader l failed for no reason here
  disturbed   \* history: loaders behind whose back the hook or the pin was changed

hook == <<qdisc, filters, pinned>>
shaper == <<queued, popped, passed>>
hookVars == <<at, hook, shaper, failed, disturbed>>

Alive == {l \in Loaders : at[l] \notin {"new", "exited", "fatal", "killed"}}
Attached == Range(filters)
Instances == Attachments \cup {Own}

\* What a loader can be about to do.
Stages == {"new", "add", "remove", "pin", "filter", "loop", "undo", "unpin"}

HookTypeOK ==
  /\ at \in [Loaders -> Stages \cup {"exited", "fatal", "killed"}]
  /\ qdisc \in BOOLEAN
  /\ filters \in Seq(Loaders \cup Attachments)
  /\ pinned \in Loaders \cup {NoPin}
  /\ queued \in [Instances -> 0..QueueEntries]
  /\ popped \in BOOLEAN
  /\ passed \in [Attachments -> Nat]
  /\ failed \in SUBSET (Loaders \X Stages)
  /\ disturbed \in SUBSET Loaders
  /\ ~qdisc => filters = <<>>

HookInit ==
  /\ at = [l \in Loaders |-> "new"]
  /\ qdisc = FALSE
  /\ filters = <<>>
  /\ pinned = NoPin
  /\ queued = [i \in Instances |-> 0]
  /\ popped = FALSE
  /\ passed = [a \in Attachments |-> 0]
  /\ failed = {}
  /\ disturbed = {}

----------------------------------------------------------------------------
(* Series 11: the loader.                                                  *)

Step(l, from, to) == at[l] = from /\ at' = [at EXCEPT ![l] = to]

\* A change of the hook or the pin is one behind the backs of the loaders in S.
Noticed(S) == disturbed' = IF hook' = hook THEN disturbed ELSE disturbed \cup (S \cap Alive)

\* A step of l that succeeds, or fails for what it finds.
By(l) ==
  /\ Noticed(Loaders \ {l})
  /\ UNCHANGED <<shaper, failed>>

\* tc qdisc del dev lo clsact, which takes every filter along.
Deleted == qdisc' = FALSE /\ filters' = <<>>

\* Mutant: what is there is left there.
StartInPlace == UNCHANGED <<qdisc, filters>>

StartClean == Deleted

DelQdisc(l) ==
  /\ Step(l, "new", "add")
  /\ StartClean
  /\ UNCHANGED pinned
  /\ By(l)

\* Mutant: a qdisc that is there is good enough.
AddIfMissing(l) ==
  /\ Step(l, "add", "remove")
  /\ qdisc' = TRUE
  /\ UNCHANGED <<filters, pinned>>
  /\ By(l)

\* tc qdisc add: an error, and log.Fatalf, if there is one.
AddQdisc(l) ==
  /\ Step(l, "add", IF qdisc THEN "fatal" ELSE "remove")
  /\ qdisc' = TRUE
  /\ UNCHANGED <<filters, pinned>>
  /\ By(l)

\* os.Remove(pinPath)
RemovePin(l) ==
  /\ Step(l, "remove", "pin")
  /\ pinned' = NoPin
  /\ UNCHANGED <<qdisc, filters>>
  /\ By(l)

\* prog.Pin(pinPath): an error if the file is there.
Pin(l) ==
  /\ Step(l, "pin", IF pinned = NoPin THEN "filter" ELSE "fatal")
  /\ pinned' = IF pinned = NoPin THEN l ELSE pinned
  /\ UNCHANGED <<qdisc, filters>>
  /\ By(l)

\* tc filter add without a preference goes before those that are there.
AddFilter(l) ==
  /\ Step(l, "filter", IF qdisc THEN "loop" ELSE "fatal")
  /\ filters' = IF qdisc THEN <<l>> \o filters ELSE filters
  /\ UNCHANGED <<qdisc, pinned>>
  /\ By(l)

Signal(l) ==
  /\ Step(l, "loop", "undo")
  /\ UNCHANGED <<hook, shaper, failed, disturbed>>

\* Mutant: the loader ends without its deferred calls.
ExitAtOnce(l) ==
  /\ Step(l, "undo", "exited")
  /\ UNCHANGED hook
  /\ By(l)

\* The deferred calls, the last one first.
UndoQdisc(l) ==
  /\ Step(l, "undo", "unpin")
  /\ Deleted
  /\ UNCHANGED pinned
  /\ By(l)

Unpin(l) ==
  /\ Step(l, "unpin", "exited")
  /\ pinned' = NoPin
  /\ UNCHANGED <<qdisc, filters>>
  /\ By(l)

\* A command or call fails, and changes nothing.  The errors of the deletions are not
\* looked at, neither of tc's nor of the two os.Remove's; the others are fatal.
CommandFails(l) ==
  /\ \/ Step(l, "new", "add")
     \/ Step(l, "remove", "pin")
     \/ Step(l, "undo", "unpin")
     \/ Step(l, "unpin", "exited")
     \/ \E from \in {"add", "pin", "filter"} : Step(l, from, "fatal")
  /\ failed' = failed \cup {<<l, at[l]>>}
  /\ UNCHANGED <<hook, shaper, disturbed>>

\* SIGKILL, or SIGINT and SIGTERM before signal.Notify: no deferred call is made.
Kill(l) ==
  /\ l \in Alive
  /\ at' = [at EXCEPT ![l] = "killed"]
  /\ UNCHANGED <<hook, shaper, failed, disturbed>>

----------------------------------------------------------------------------
(* Series 10: the commands of its README, the classifier, and its loader.  *)

\* tc qdisc add dev lo clsact, if there is none; tc filter add ... obj main.bpf.o
Attach(a) ==
  /\ a \notin Attached
  /\ passed[a] = 0
  /\ qdisc' = TRUE
  /\ filters' = <<a>> \o filters
  /\ UNCHANGED pinned
  /\ Noticed(Loaders)
  /\ UNCHANGED <<at, shaper, failed>>

\* tc_shaper: bpf_map_push_elem succeeds, or TC_ACT_SHOT.
Push(a) ==
  /\ filters # <<>>
  /\ Head(filters) = a
  /\ queued[a] < QueueEntries
  /\ queued' = [queued EXCEPT ![a] = @ + 1]
  /\ passed' = [passed EXCEPT ![a] = @ + 1]
  /\ UNCHANGED <<at, hook, popped, failed, disturbed>>

\* Mutant: the instance of the filter that is in force.
PoppedInForce ==
  IF filters # <<>> /\ Head(filters) \in Attachments THEN Head(filters) ELSE Own

\* coll.Maps["packet_queue"] of the collection the loader has loaded itself.
Popped == Own

\* queueMap.LookupAndDelete(nil, &val)
Pop ==
  /\ popped' = (popped \/ queued[Popped] > 0)
  /\ queued' = [queued EXCEPT ![Popped] = IF @ > 0 THEN @ - 1 ELSE @]
  /\ UNCHANGED <<at, hook, passed, failed, disturbed>>

----------------------------------------------------------------------------

Loader(l) ==
  \/ DelQdisc(l) \/ AddQdisc(l) \/ RemovePin(l) \/ Pin(l) \/ AddFilter(l)
  \/ Signal(l) \/ UndoQdisc(l) \/ Unpin(l)
  \/ CommandFails(l) \/ Kill(l)

HookNext ==
  \/ \E l \in Loaders : Loader(l)
  \/ \E a \in Attachments : Attach(a) \/ Push(a)
  \/ Pop

HookSpec == HookInit /\ [][HookNext]_hookVars

----------------------------------------------------------------------------
(* Properties.                                                             *)

\* Loaders with a step of their set-up that failed by itself.
Hindered == {l \in Loaders : \E from \in {"new", "add", "remove", "pin", "filter"} :
                               <<l, from>> \in failed}

\* Whatever an earlier loader left behind, killed or fatal at any point, the next start
\* gets over it (main.go:46-56): it gives up only for a step that failed by itself, or
\* for somebody who changed the hook or the pin meanwhile.
StartRecovers == \A l \in Loaders : at[l] = "fatal" => l \in Hindered \cup disturbed

\* A filter left by a killed loader has nobody to reset its counters (main.go:65, 79):
\* under a loader in its loop that nobody disturbed, its own is the only filter.
OnlyOwnFilter ==
  \A l \in Loaders \ disturbed : at[l] = "loop" => filters = <<l>> /\ pinned = l

\* What stays behind a loader that is gone (main.go:57, 63, 65): a filter only if it was
\* killed or could not delete the qdisc; a pin only if it was killed, gave up, or could
\* not remove it, which nothing tells.
LeftBehind ==
  \A l \in Loaders \ Alive :
    /\ l \in Attached => at[l] = "killed" \/ <<l, "undo">> \in failed
    /\ pinned = l => at[l] \in {"killed", "fatal"} \/ <<l, "unpin">> \in failed

\* Nobody pops the queue the classifier pushes to (series 10, main.go:35, 50): an
\* attachment lets max_entries packets through in all, and pop never shows one.
QueueOnlyFills ==
  /\ \A a \in Attachments : passed[a] <= QueueEntries
  /\ ~popped

=============================================================================
