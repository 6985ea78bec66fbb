-------------------------------- MODULE Fifo --------------------------------
(***************************************************************************)
(* What the queue between main thread and connection handlers promises     *)
(* them: every item is taken once, first in, first out.                    *)
(***************************************************************************)
EXTENDS Sequences

CONSTANT Items

VARIABLES
  queue,    \* items added and not yet taken
  taken     \* items taken, in the order they were

Init == queue = <<>> /\ taken = <<>>

Add ==
  /\ \E i \in Items : queue' = Append(queue, i)
  /\ UNCHANGED taken

Take ==
  /\ queue # <<>>
  /\ taken' = Append(taken, Head(queue))
  /\ queue' = Tail(queue)

Next == Add \/ Take

Spec == Init /\ [][Next]_<<queue, taken>>
=============================================================================
