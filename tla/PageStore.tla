------------------------------ MODULE PageStore ------------------------------
(***************************************************************************)
(* What the storage layer promises to the B+tree built on it: an array of  *)
(* pages that always returns what was last stored in it, over a durable    *)
(* copy that receives page contents in any order and at any time, and is   *)
(* all that is left after the table is closed or the process dies.         *)
(* The pager with its cache (module Pager) implements this specification.  *)
(***************************************************************************)
CONSTANTS
  Pages,      \* page numbers
  Data,       \* the contents a page can have
  Zero        \* the contents of a page of a new file

VARIABLES
  contents,   \* what a read of each page returns
  durable,    \* what the file holds
  op          \* what happened last, as the user of the pages sees it

vars == <<contents, durable, op>>

TypeOK ==
  /\ contents \in [Pages -> Data]
  /\ durable \in [Pages -> Data]
  /\ op \in {"open", "store", "none"}

Init ==
  /\ contents = [p \in Pages |-> Zero]
  /\ durable = contents
  /\ op = "open"

Write(p, d) ==
  /\ contents' = [contents EXCEPT ![p] = d]
  /\ op' = "store"
  /\ UNCHANGED durable

Persist(S) ==
  /\ durable' = [p \in Pages |-> IF p \in S THEN contents[p] ELSE durable[p]]
  /\ op' = "none"
  /\ UNCHANGED contents

\* Whatever had reached the file before the process died is what remains.
Restart(S) ==
  /\ durable' = [p \in Pages |-> IF p \in S THEN contents[p] ELSE durable[p]]
  /\ contents' = durable'
  /\ op' = "open"

Next ==
  \/ \E p \in Pages, d \in Data : Write(p, d)
  \/ \E S \in SUBSET Pages : Persist(S) \/ Restart(S)

Spec == Init /\ [][Next]_vars
=============================================================================
