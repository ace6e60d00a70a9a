---------------------------- MODULE OrderedStream ----------------------------
(***************************************************************************)
(* What series 06 promises of its stream of file opens: "globally ordered" *)
(* (README.md).  One bounded queue takes the opens of every CPU in one     *)
(* order; an open that finds the queue full is counted as lost; the reader *)
(* shows the others in that order, each once, under the name opened.       *)
(***************************************************************************)
EXTENDS Integers, Sequences

CONSTANTS
  Names,
  Room     \* the opens the stream can hold

VARIABLES
  queue,   \* the names accepted and not yet shown
  last,    \* the name shown last; << >> before the first
  shown,   \* how many have been shown
  lost     \* how many found no room

vars == <<queue, last, shown, lost>>

Init ==
  /\ queue = <<>>
  /\ last = <<>>
  /\ shown = 0
  /\ lost = 0

Accept ==
  /\ Len(queue) < Room
  /\ \E n \in Names : queue' = Append(queue, n)
  /\ UNCHANGED <<last, shown, lost>>

Lose ==
  /\ lost' = lost + 1
  /\ UNCHANGED <<queue, last, shown>>

Show ==
  /\ queue # <<>>
  /\ last' = Head(queue)
  /\ queue' = Tail(queue)
  /\ shown' = shown + 1
  /\ UNCHANGED lost

Next == Accept \/ Lose \/ Show

Spec == Init /\ [][Next]_vars

=============================================================================
