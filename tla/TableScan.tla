------------------------------ MODULE TableScan -------------------------------
(***************************************************************************)
(* A scan of a table (class Cursor, src/src/storage/btree.cpp) among       *)
(* insertions: table_start(), then value() and advance() until             *)
(* end_of_table, the tests' loop.  A cursor is a page number and a cell    *)
(* number, which nothing adjusts when an insertion moves rows.             *)
(*                                                                         *)
(* A split leaves the bytes of the rows it moves where they were, past the *)
(* last cell of the old leaf, so a cursor there still reads its row.  When *)
(* the root leaf splits, page 0 becomes an internal node, which the cursor *)
(* reads as a leaf: num_keys where num_cells is, right_child where         *)
(* next_leaf is.                                                           *)
(***************************************************************************)
EXTENDS Table

VARIABLES
  cursor,    \* page, cell and end_of_table
  scanning,  \* where the caller is: "no", "value" or "advance"
  under,     \* the key in the bytes at the cursor as <<key>>; <<>>: no row's
  passed,    \* history: keys of the rows value() returned in this scan
  due,       \* history: what this scan would pass, as the table was when it began
  rooted     \* history: the root leaf has not split under the cursor

scanVars == <<cursor, scanning, under, passed, due, rooted>>

ScanTypeOK ==
  /\ cursor \in [page : Pages, end : BOOLEAN,
                 cell : (0 .. LEAF_NODE_MAX_CELLS) \cup (0 .. INTERNAL_NODE_MAX_CELLS)]
  /\ scanning \in {"no", "value", "advance"}
  /\ under = <<>> \/ under \in {<<k>> : k \in Keys}
  /\ passed \subseteq Keys
  /\ due \subseteq Keys
  /\ rooted \in BOOLEAN

ScanInit ==
  /\ Init
  /\ cursor = [page |-> root_page_num, cell |-> 0, end |-> TRUE]
  /\ scanning = "no"
  /\ under = <<>>
  /\ passed = {}
  /\ due = {}
  /\ rooted = TRUE

\* The key at a position of a leaf, if it has that cell.
KeyAt(node, cell) == IF cell < Len(node.cells) THEN <<node.cells[cell + 1].key>> ELSE <<>>

\* What the bytes at the cursor are after an insertion: the row of that
\* cell, or what they were if the leaf has become too short.
UnderAfter(node) ==
  IF ~IsLeaf(node) THEN <<>>
  ELSE IF cursor.cell < Len(node.cells) THEN KeyAt(node, cursor.cell) ELSE under

InsertRow(key, text) ==
  /\ ~Used(key)
  /\ Insert(key, text)
  /\ IF scanning = "no" \/ stopped' # "none" THEN UNCHANGED <<under, rooted>>
     ELSE /\ under' = UnderAfter(pages'[cursor.page])
          /\ rooted' = (rooted /\ IsLeaf(pages'[cursor.page]))
  /\ UNCHANGED <<cursor, scanning, passed, due>>

\* Mutant: the scan begins after the row found.
StartAfter ==
  LET found == table_find(pages, 0) IN
  [page |-> found.page, cell |-> found.cell + 1, end |-> pages[root_page_num].cells = <<>>]

\* The caller looks at end_of_table before anything else.
table_start ==
  LET found == table_find(pages, 0) IN
  [page |-> found.page, cell |-> found.cell, end |-> pages[root_page_num].cells = <<>>]

Start ==
  /\ stopped = "none" /\ scanning = "no"
  /\ cursor' = table_start
  /\ scanning' = IF cursor'.end THEN "no" ELSE "value"
  /\ under' = KeyAt(pages[cursor'.page], cursor'.cell)
  /\ passed' = {}
  /\ due' = {row.key : row \in ToSet(Scan)}
  /\ rooted' = TRUE
  /\ UNCHANGED vars

value ==
  /\ stopped = "none" /\ scanning = "value"
  /\ passed' = passed \cup ToSet(under)
  /\ scanning' = "advance"
  /\ UNCHANGED <<vars, cursor, under, due, rooted>>

\* The two fields as advance() reads them, on an internal node too.
num_cells(node) == Len(node.cells)
next_leaf(node) == IF IsLeaf(node) THEN node.next ELSE node.right

\* Mutant: the cell number is kept from one leaf to the next.
NextSameCell(node) ==
  IF cursor.cell + 1 < num_cells(node) THEN [cursor EXCEPT !.cell = @ + 1]
  ELSE IF next_leaf(node) = 0 THEN [cursor EXCEPT !.cell = @ + 1, !.end = TRUE]
  ELSE [cursor EXCEPT !.page = next_leaf(node)]

\* Mutant: end_of_table is not looked for until the leaf is full.
NextPastEnd(node) ==
  IF cursor.cell <= num_cells(node) \/ next_leaf(node) = 0 THEN [cursor EXCEPT !.cell = @ + 1]
  ELSE [cursor EXCEPT !.page = next_leaf(node), !.cell = 0]

\* Mutant: the last leaf is not recognized, and page 0 follows it.
NextAround(node) ==
  IF cursor.cell + 1 < num_cells(node) THEN [cursor EXCEPT !.cell = @ + 1]
  ELSE [cursor EXCEPT !.page = next_leaf(node), !.cell = 0]

NextPosition(node) ==
  IF cursor.cell + 1 < num_cells(node) THEN [cursor EXCEPT !.cell = @ + 1]
  ELSE IF next_leaf(node) = 0 THEN [cursor EXCEPT !.cell = @ + 1, !.end = TRUE]
  ELSE [cursor EXCEPT !.page = next_leaf(node), !.cell = 0]

advance ==
  /\ stopped = "none" /\ scanning = "advance"
  /\ cursor' = NextPosition(pages[cursor.page])
  /\ scanning' = IF cursor'.end THEN "no" ELSE "value"
  /\ under' = IF cursor'.end \/ ~IsLeaf(pages[cursor'.page]) THEN <<>>
              ELSE KeyAt(pages[cursor'.page], cursor'.cell)
  /\ UNCHANGED <<vars, passed, due, rooted>>

CallerStep == value \/ advance

ScanNext == Start \/ CallerStep \/ \E key \in Keys, text \in Texts : InsertRow(key, text)

\* A caller goes on with a scan that it began.
ScanSpec == ScanInit /\ [][ScanNext]_<<vars, scanVars>> /\ WF_<<vars, scanVars>>(CallerStep)

-----------------------------------------------------------------------------
(***************************************************************************)
(* Properties.                                                             *)
(***************************************************************************)

Ended == scanning = "no" /\ cursor.end

(* Whatever is inserted while a scan goes on, and whichever leaf splits    *)
(* under the cursor, the scan passes every row it would have passed        *)
(* undisturbed, some of them twice; unless it was the root that split.     *)
NothingMissed == Ended /\ rooted => due \subseteq passed

(* What value() returns is a row that was inserted, even where the cursor  *)
(* is past the last cell of a leaf that became shorter: unless the root    *)
(* split under the cursor, each call returns one.                          *)
RowsPassed ==
  /\ passed \subseteq {row.key : row \in BagToSet(rows (+) refused)}
  /\ rooted /\ scanning # "no" => under # <<>>

(* A scan ends, whatever the root's fields are read as.                    *)
ScanEnds == scanning # "no" ~> scanning = "no"
=============================================================================
