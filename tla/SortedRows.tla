----------------------------- MODULE SortedRows -----------------------------
(***************************************************************************)
(* What a table promises to whoever scans it from table_start() to         *)
(* end_of_table: the rows inserted so far, in the order of their keys,     *)
(* each insertion adding its row in its place and disturbing no other,     *)
(* until an insertion throws because the file is full.                     *)
(***************************************************************************)
EXTENDS Integers, SequencesExt

CONSTANTS
  Keys,     \* keys of rows
  Texts,    \* contents of rows
  Ones

VARIABLES
  rows,     \* the rows a scan returns
  threw     \* whether an insertion threw

vars == <<rows, threw>>

Row == [key : Keys, text : Texts, ones : Ones]

Init == rows = <<>> /\ threw = FALSE

InOrder(seq) == IsSorted(seq, LAMBDA a, b : a.key <= b.key)

\* Among rows of one key the new row may come anywhere.
Insert ==
  /\ ~threw /\ ~threw'
  /\ InOrder(rows')
  /\ \E i \in 1 .. Len(rows') :
       /\ rows'[i] \in Row
       /\ rows = RemoveAt(rows', i)

\* Once an insertion has thrown a scan may return some of the rows only.
Throw ==
  /\ threw'
  /\ rows' \in Seq(Row)

Next == Insert \/ Throw

Spec == Init /\ [][Next]_vars
=============================================================================
