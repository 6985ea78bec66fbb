-------------------------------- MODULE Table --------------------------------
(***************************************************************************)
(* The B+tree of toySQL (class Table, src/src/storage/btree.cpp): rows in  *)
(* leaf pages linked from left to right, internal pages above them, page 0 *)
(* always the root.  A caller inserts a row with table_find() and          *)
(* leaf_node_insert(), as the repository's tests do, and reads the table   *)
(* with table_start() and Cursor::advance().                               *)
(*                                                                         *)
(* Nodes are records rather than bytes; cells are numbered from 0 as in    *)
(* the code, so cell i of a node is cells[i + 1].  A row is its key and a  *)
(* class of texts: "long" texts reach past byte 22, "damaged" is a long    *)
(* text some of whose bytes were overwritten (see SplitStray), and ones    *)
(* says which of a text's bytes are all ones (see InvalidCells).           *)
(***************************************************************************)
EXTENDS PagePointers, Bags

CONSTANTS
  LEAF_NODE_MAX_CELLS,   \* rows in a leaf (15 in the code)
  Keys,                  \* keys a caller inserts
  Texts,                 \* classes of texts it inserts
  Ones,                  \* and which of their bytes may be all ones
  UINT32_MAX,            \* the greatest key there is
  MaxRows                \* bound: rows inserted in a behaviour

ASSUME TableAssumption ==
  /\ LEAF_NODE_MAX_CELLS \in Nat \ {0}
  /\ UINT32_MAX \in Nat
  /\ Keys \subseteq 0 .. UINT32_MAX
  /\ Texts \subseteq {"short", "long"}
  /\ Ones \subseteq SUBSET {1, 2}
  /\ MaxRows \in Nat

INTERNAL_NODE_MAX_CELLS == 3
RIGHT_SPLIT_COUNT == (LEAF_NODE_MAX_CELLS + 1) \div 2
LEFT_SPLIT_COUNT == LEAF_NODE_MAX_CELLS + 1 - RIGHT_SPLIT_COUNT

root_page_num == 0

VARIABLES
  pages,       \* page number -> node, read through the cache
  num_pages,   \* pages handed out
  stopped,     \* the fault the table cannot go on after, or "none"
  rows,        \* history: bag of the rows whose insertion returned
  refused      \* history: bag of the rows whose insertion threw

vars == <<pages, num_pages, stopped, rows, refused>>

Rows == [key : Keys, text : {"short", "long", "damaged"}, ones : Ones]

(* The internal cells whose child number reads as INVALID_PAGE_NUM, that   *)
(* is all ones, in the bytes of a leaf's first row.  Cell 0 begins with    *)
(* the key; cell 1's child number is the size of the text with its first   *)
(* three bytes, cell 2's its bytes 7 to 10.                                *)
InvalidCells(row) == row.ones \cup (IF row.key = UINT32_MAX THEN {0} ELSE {})

\* Those of some row.
MayBeInvalid == UNION {InvalidCells(row) : row \in Rows}

LeafNode == [type : {"LEAF"}, is_root : BOOLEAN, parent : Pages,
             next : Pages, cells : Seq(Rows)]
InternalCell == [child : Pages, key : Nat]
InternalNode == [type : {"INTERNAL"}, is_root : BOOLEAN, parent : Pages,
                 right : Nat, cells : Seq(InternalCell),
                 leftover : SUBSET MayBeInvalid]

\* A page of a new file: zeroes.
ZeroPage == [type |-> "INTERNAL", is_root |-> FALSE, parent |-> 0,
             right |-> 0, cells |-> <<>>, leftover |-> {}]

\* Mutant: a new leaf is linked to no page rather than to page 0.
LeafNodeUnlinked(node) ==
  [type |-> "LEAF", is_root |-> FALSE, parent |-> node.parent,
   next |-> INVALID_PAGE_NUM, cells |-> <<>>]

initialize_leaf_node(node) ==
  [type |-> "LEAF", is_root |-> FALSE, parent |-> node.parent, next |-> 0, cells |-> <<>>]

IsLeaf(node) == node.type = "LEAF"

\* Those among the cells a node does not use: nothing clears their bytes.
Leftover(node) ==
  IF ~IsLeaf(node) THEN node.leftover
  ELSE IF node.cells = <<>> THEN {} ELSE InvalidCells(node.cells[1])

initialize_internal_node(node) ==
  [type |-> "INTERNAL", is_root |-> FALSE, parent |-> node.parent,
   right |-> INVALID_PAGE_NUM, cells |-> <<>>, leftover |-> Leftover(node)]

-----------------------------------------------------------------------------
(***************************************************************************)
(* Searching.                                                              *)
(***************************************************************************)

Children(node) == [i \in 1 .. Len(node.cells) |-> node.cells[i].child] \o <<node.right>>

\* Table::get_node_max_key(): for an internal node its last key, which is
\* not the greatest key below it.  (It asks the right child of a node with
\* no key, which it never meets: see TreeIsBalanced.)  Like every descent it
\* is followed for as many levels as there are pages.
get_node_max_key(tree, p) ==
  LET max_key[n \in 0 .. FILE_PAGES_NUM] ==
        [q \in Pages |->
           IF tree[q].cells # <<>> THEN Last(tree[q].cells).key
           ELSE IF n = 0 \/ IsLeaf(tree[q]) \/ tree[q].right \notin Pages THEN 0
           ELSE max_key[n - 1][tree[q].right]]
  IN max_key[FILE_PAGES_NUM][p]

\* Mutant: a key equal to a child's greatest is sought to its right.
FindChildStrictly(cells, key) ==
  Cardinality({i \in DOMAIN cells : cells[i].key <= key})

\* Mutant: the right child is never the answer.
FindChildWithKey(cells, key) ==
  LET less == Cardinality({i \in DOMAIN cells : cells[i].key < key})
  IN IF less = Len(cells) THEN less - 1 ELSE less

\* What n turns of a loop make of its variables.
Repeat(turn, variables, n) ==
  LET after[i \in 0 .. n] == IF i = 0 THEN variables ELSE turn[after[i - 1]]
  IN after[n]

\* The variables of a binary search, and what they are before its loop,
\* which takes at most as many turns as there are cells.
Searches(cells) == [min : 0 .. Len(cells), max : -1 .. Len(cells) - 1, ans : 0 .. Len(cells)]
Whole(cells) == [min |-> 0, max |-> Len(cells) - 1, ans |-> Len(cells)]

FindChildTurn(cells, key) ==
  [s \in Searches(cells) |->
     LET index == (s.min + s.max) \div 2
     IN IF s.min > s.max THEN s
        ELSE IF key <= cells[index + 1].key
        THEN [s EXCEPT !.max = index - 1, !.ans = index]
        ELSE [s EXCEPT !.min = index + 1]]

\* The binary search of internal_node_find_child(): the first child whose
\* key is not less than the key sought.
internal_node_find_child(cells, key) ==
  Repeat(FindChildTurn(cells, key), Whole(cells), Len(cells)).ans

\* Mutant: a key greater than all is put first, ans having no initial value.
CellSearchFromZero(cells, key) ==
  IF \A i \in DOMAIN cells : cells[i].key < key THEN 0
  ELSE Cardinality({i \in DOMAIN cells : cells[i].key < key})

\* On the key sought the loop is left.
FindCellTurn(cells, key) ==
  [s \in Searches(cells) |->
     LET index == (s.min + s.max) \div 2
     IN IF s.min > s.max THEN s
        ELSE IF key = cells[index + 1].key
        THEN [s EXCEPT !.min = s.max + 1, !.ans = index]
        ELSE IF key < cells[index + 1].key
        THEN [s EXCEPT !.max = index - 1, !.ans = index]
        ELSE [s EXCEPT !.min = index + 1]]

\* The binary search of leaf_node_find(): any cell with the key sought, or
\* the place to insert it.
CellSearch(cells, key) ==
  Repeat(FindCellTurn(cells, key), Whole(cells), Len(cells)).ans

\* internal_node_find(): the leaf under page p where the key belongs; no
\* page when internal_node_child() meets an invalid child and exits, an
\* internal one if the search did not end.  The search requests the pages on
\* its way, uses no pointer across a request, and what it leaves in the
\* cache does not concern a later operation (see PagePointers).
internal_node_find(tree, p, key) ==
  LET leaf[n \in 0 .. FILE_PAGES_NUM] ==
        [q \in Pages \cup {INVALID_PAGE_NUM} |->
           IF n = 0 \/ q = INVALID_PAGE_NUM \/ IsLeaf(tree[q]) THEN q
           ELSE leaf[n - 1][Children(tree[q])[internal_node_find_child(tree[q].cells, key) + 1]]]
  IN leaf[FILE_PAGES_NUM][p]

\* table_find(): the page and the cell of the cursor.
table_find(tree, key) ==
  LET page == IF IsLeaf(tree[root_page_num]) THEN root_page_num
              ELSE internal_node_find(tree, root_page_num, key)
  IN [page |-> page,
      cell |-> IF page = INVALID_PAGE_NUM THEN 0 ELSE CellSearch(tree[page].cells, key)]

-----------------------------------------------------------------------------
(***************************************************************************)
(* Inserting.                                                              *)
(***************************************************************************)

\* Mutant: a moved child keeps its old parent.
RequestChild(o, left, child) == get_page(Use(o, {left}), child)

\* A child of the old internal root is told of its new parent.
AdoptChild(o, left, child) ==
  LET o1 == get_page(Use(o, {left}), child)
  IN SetParent(o1, Pointer(o1, child), left.page)

\* Mutant: the left page still says it is the root.
SameNode(root) == root

LeftCopy(root) == [root EXCEPT !.is_root = FALSE]

CopyRoot(o, root, right, left) ==
  LET old_root == o.pages[root_page_num]
      cleared  == IF IsLeaf(old_root) THEN o
                  ELSE StoreNode(o, right, initialize_internal_node(o.pages[right.page]))
  IN StoreNode(Use(cleared, {root}), left, LeftCopy(old_root))

AdoptChildren(o, left) ==
  LET children == Children(o.pages[left.page])
      adopted[i \in 0 .. Len(children)] ==
        IF i = 0 THEN o ELSE AdoptChild(adopted[i - 1], left, children[i])
  IN IF IsLeaf(o.pages[left.page]) THEN o ELSE adopted[Len(children)]

\* internal_node_child() asked where to write a child number: it looks at
\* the bytes that are there, and exits if they read as INVALID_PAGE_NUM.
TestCell(o, ptr, node, cell) ==
  IF ~Failed(o) /\ ~Dangling(o, ptr) /\ cell \in Leftover(node)
  THEN [o EXCEPT !.fault = "exit on old bytes"]
  ELSE o

RootAbove(o, root, right, left) ==
  LET node == initialize_internal_node(o.pages[root_page_num])
  IN StoreNode(TestCell(o, root, node, 0), root, [node EXCEPT
       !.is_root = TRUE,
       !.cells = <<[child |-> left.page, key |-> get_node_max_key(o.pages, left.page)]>>,
       !.right = right.page,
       !.leftover = @ \ {0}])

GrowRoot(o, root, right, left) ==
  LET above == RootAbove(AdoptChildren(CopyRoot(o, root, right, left), left), root, right, left)
  IN SetParent(SetParent(above, left, root_page_num), right, root_page_num)

\* A full root: its contents move to a new left page, page 0 becomes the
\* internal node above left and right, and the children that moved with an
\* internal root are told, each requested in turn.
create_new_root(o, right_page) ==
  LET o1 == get_page(get_page(o, root_page_num), right_page)
      o2 == get_page(o1, o1.num_pages)
  IN IF Failed(o2) THEN o2
     ELSE GrowRoot(o2, Pointer(o2, root_page_num), Pointer(o2, right_page), Pointer(o2, o1.num_pages))

(***************************************************************************)
(* internal_node_insert() and internal_node_split_and_insert() call each   *)
(* other.  The function insert below is what the nested calls of a split   *)
(* do; a call is a record of its arguments and the operation so far.       *)
(***************************************************************************)

Operations ==
  [pages : [Pages -> LeafNode \cup InternalNode], num_pages : 0 .. FILE_PAGES_NUM,
   recent : Seq(Pages), loads : [Pages -> Nat], fault : Faults]

Calls == [op : Operations, parent : Nat, child : Nat]

Call(o, parent_page, child_page) == [op |-> o, parent |-> parent_page, child |-> child_page]

\* Mutant: the child that becomes the right child is not put there.
OldWithoutRight(node, kept) ==
  [node EXCEPT !.cells = SubSeq(@, 1, kept), !.right = INVALID_PAGE_NUM]

\* Mutant: the places of the children that move are marked as no page.
OldMarked(node, kept) ==
  [node EXCEPT !.cells = SubSeq(@, 1, kept), !.right = node.cells[kept + 1].child,
               !.leftover = MayBeInvalid \ (0 .. kept - 1)]

\* What the old node of an internal split keeps.
OldShortened(node, kept) ==
  [node EXCEPT !.cells = SubSeq(@, 1, kept), !.right = node.cells[kept + 1].child]

\* The steps of an internal split.  First the pages: a new root above a root
\* that splits, whose contents are then in the page left under it; else the
\* parent, and the new page as an empty node.
RequestSplit(o, old, new_page) ==
  IF o.pages[old.page].is_root
  THEN LET grown == get_page(create_new_root(Use(o, {old}), new_page), root_page_num)
       IN get_page(grown, grown.pages[root_page_num].cells[1].child)
  ELSE LET both == get_page(get_page(Use(o, {old}), o.pages[old.page].parent), new_page)
       IN StoreNode(both, Pointer(both, new_page), initialize_internal_node(both.pages[new_page]))

\* The local variables of a split whose pages are at hand.
SplitLocals(o, split_root, parent_page, new_page, child, child_max, old_max) ==
  LET old_page == IF split_root THEN o.pages[root_page_num].cells[1].child ELSE parent_page
      above    == IF split_root THEN root_page_num ELSE o.pages[parent_page].parent
  IN [split_root |-> split_root, child |-> child, child_max |-> child_max, old_max |-> old_max,
      old |-> Pointer(o, old_page), new |-> Pointer(o, new_page), parent |-> Pointer(o, above)]

\* The right child and the children past the middle, the last first, move.
Kept == INTERNAL_NODE_MAX_CELLS \div 2

MoveChild(o, s, page, insert) ==
  LET o1 == get_page(Use(o, {s.old}), page)
  IN SetParent(insert[Call(o1, s.new.page, page)], Pointer(o1, page), s.new.page)

MoveChildren(o, s, insert) ==
  LET children == Children(o.pages[s.old.page])
      moved[i \in 0 .. INTERNAL_NODE_MAX_CELLS - Kept] ==
        IF i = 0 THEN o
        ELSE MoveChild(moved[i - 1], s, children[INTERNAL_NODE_MAX_CELLS + 2 - i], insert)
  IN moved[INTERNAL_NODE_MAX_CELLS - Kept]

ShortenOld(o, s) == StoreNode(o, s.old, OldShortened(o.pages[s.old.page], Kept))

\* The child to insert goes to one of the two.
PlaceChild(o, s, insert) ==
  LET destination == IF s.child_max < get_node_max_key(o.pages, s.old.page)
                     THEN s.old.page ELSE s.new.page
  IN SetParent(insert[Call(o, destination, s.child.page)], s.child, destination)

\* The key of the old node in its parent is written at index old_max, a key,
\* so it is left as it was unless old_max happens to be an index.  (From
\* index 510 on the write is past the page; no property depends on it.)
UpdateKey(o, s) ==
  IF s.old_max < Len(o.pages[s.parent.page].cells)
  THEN StoreNode(Use(o, {s.old}), s.parent,
         [o.pages[s.parent.page] EXCEPT
            !.cells[s.old_max + 1].key = get_node_max_key(o.pages, s.old.page)])
  ELSE Use(o, {s.old, s.parent})

\* A new node beside one that is not the root goes into the node above.
InsertNew(o, s, insert) ==
  LET done == insert[Call(o, o.pages[s.old.page].parent, s.new.page)]
  IN IF s.split_root THEN o
     ELSE SetParent(Use(done, {s.old}), s.new, done.pages[s.old.page].parent)

FinishSplit(o, s, insert) ==
  IF Failed(o) THEN o
  ELSE InsertNew(UpdateKey(PlaceChild(ShortenOld(MoveChildren(o, s, insert), s), s, insert), s), s, insert)

\* A full internal node.
internal_node_split_and_insert(o, parent_page, child_page, insert) ==
  LET o1 == get_page(get_page(o, parent_page), child_page)
      o2 == RequestSplit(o1, Pointer(o1, parent_page), o1.num_pages)
  IN FinishSplit(o2,
       SplitLocals(o2, o1.pages[parent_page].is_root, parent_page, o1.num_pages,
                   Pointer(o1, child_page), get_node_max_key(o1.pages, child_page),
                   get_node_max_key(o1.pages, parent_page)),
       insert)

\* A node with the child after its right child, or before one of its others.
WithLast(node, child_page, right_max) ==
  [node EXCEPT !.cells = Append(@, [child |-> node.right, key |-> right_max]),
               !.right = child_page,
               !.leftover = @ \ {Len(node.cells)}]

WithCell(node, index, child_page, child_max) ==
  [node EXCEPT !.cells = InsertAt(@, index + 1, [child |-> child_page, key |-> child_max]),
               !.leftover = @ \ {Len(node.cells)}]

\* Makes child_page a child of parent_page, by its greatest key.  Of the two
\* places where it is written only the one past the last cell is unused.
InsertChild(o, parent_page, child_page, insert) ==
  LET o1        == get_page(o, parent_page)
      parent    == Pointer(o1, parent_page)
      o2        == Use(get_page(o1, child_page), {parent})
      child_max == get_node_max_key(o2.pages, child_page)
      node      == o2.pages[parent_page]
      index     == internal_node_find_child(node.cells, child_max)
      o3        == get_page(o2, node.right)
      right_max == get_node_max_key(o3.pages, node.right)
      o4        == IF child_max > right_max \/ index = Len(node.cells)
                   THEN TestCell(o3, parent, node, Len(node.cells)) ELSE o3
  IN IF Failed(o2) THEN o2
     ELSE IF Len(node.cells) >= INTERNAL_NODE_MAX_CELLS
     THEN internal_node_split_and_insert(o2, parent_page, child_page, insert)
     ELSE IF node.right = INVALID_PAGE_NUM
     THEN StoreNode(o2, parent, [node EXCEPT !.right = child_page])
     ELSE IF Failed(o3) THEN o3
     ELSE StoreNode(o4, parent, IF child_max > right_max
                                THEN WithLast(node, child_page, right_max)
                                ELSE WithCell(node, index, child_page, child_max))

\* Every nested call is made by a split, which takes a page of the file: the
\* calls are nested at most as deep as there are pages, and where none is
\* left get_page() throws.
internal_node_insert(o, parent_page, child_page) ==
  LET insert[n \in 0 .. FILE_PAGES_NUM] ==
        [call \in Calls |->
           IF n = 0 THEN get_page(call.op, INVALID_PAGE_NUM)
           ELSE InsertChild(call.op, call.parent, call.child, insert[n - 1])]
  IN insert[FILE_PAGES_NUM][Call(o, parent_page, child_page)]

\* The page requested as the parent of a split leaf is the leaf itself, so
\* the key meant for the parent lands, read as a cell of an internal node,
\* in the leaf's first row: in its text when the text is long, else past
\* the text's end, or on the row's id, equal to it, when every old row of
\* the leaf has one key.
SplitStray(cells, old_max) ==
  IF cells[1].text = "short" \/ cells[1].key >= old_max THEN cells
  ELSE [cells EXCEPT ![1].text = "damaged"]

\* Mutant: the leaf that followed is dropped from the chain.
RightHalfLast(node, all) ==
  [initialize_leaf_node(node) EXCEPT !.cells = SubSeq(all, LEFT_SPLIT_COUNT + 1, Len(all))]

\* Mutant: one row falls between the halves.
RightHalfShort(node, all) ==
  [initialize_leaf_node(node) EXCEPT
     !.next = node.next, !.cells = SubSeq(all, LEFT_SPLIT_COUNT + 2, Len(all))]

\* The two halves of a split leaf, the new row among them.
RightHalf(node, all) ==
  [initialize_leaf_node(node) EXCEPT
     !.next = node.next, !.cells = SubSeq(all, LEFT_SPLIT_COUNT + 1, Len(all))]

LeftHalf(node, all, new_page) ==
  [node EXCEPT !.next = new_page, !.cells = SubSeq(all, 1, LEFT_SPLIT_COUNT)]

\* A full leaf: its right half moves to a new page, linked after it.
leaf_node_split_and_insert(o, page, cell, row) ==
  LET o1       == get_page(o, page)
      old      == Pointer(o1, page)
      node     == o1.pages[page]
      new_page == o1.num_pages
      o2       == get_page(o1, new_page)
      new      == Pointer(o2, new_page)
      all      == InsertAt(node.cells, cell + 1, row)
      o3       == StoreNode(o2, new, RightHalf(node, all))
      left     == LeftHalf(node, all, new_page)
      o4       == get_page(StoreNode(o3, old, left), page)
      o5       == StoreNode(o4, Pointer(o4, page), [left EXCEPT !.cells = SplitStray(@, Last(node.cells).key)])
  IN IF Failed(o2) THEN o2
     ELSE IF node.is_root THEN create_new_root(StoreNode(o3, old, left), new_page)
     ELSE internal_node_insert(o5, node.parent, new_page)

leaf_node_insert(o, page, cell, row) ==
  LET o1   == get_page(o, page)
      node == o1.pages[page]
  IN IF Len(node.cells) >= LEAF_NODE_MAX_CELLS
     THEN leaf_node_split_and_insert(o1, page, cell, row)
     ELSE StoreNode(o1, Pointer(o1, page), [node EXCEPT !.cells = InsertAt(@, cell + 1, row)])

-----------------------------------------------------------------------------
(* A table on a new file, its root made an empty leaf as every caller does. *)
Init ==
  /\ pages = [p \in Pages |-> IF p = root_page_num
                THEN [initialize_leaf_node(ZeroPage) EXCEPT !.is_root = TRUE]
                ELSE ZeroPage]
  /\ num_pages = 1
  /\ stopped = "none"
  /\ rows = EmptyBag
  /\ refused = EmptyBag

\* What an operation leaves behind.  A caller that catches the exception of
\* a full file may go on using the table.
Returned(o, row) ==
  /\ pages' = o.pages
  /\ num_pages' = o.num_pages
  /\ stopped' = IF o.fault = "out_of_range" THEN "none" ELSE o.fault
  /\ rows' = IF Failed(o) THEN rows ELSE rows (+) SetToBag({row})
  /\ refused' = IF Failed(o) THEN refused (+) SetToBag({row}) ELSE refused

InsertAtCursor(o, cursor, row) ==
  IF cursor.page \in Pages /\ IsLeaf(o.pages[cursor.page])
  THEN leaf_node_insert(o, cursor.page, cursor.cell, row)
  ELSE [o EXCEPT !.fault = "exit"]

\* table_find(key), then leaf_node_insert() at the cursor.
InsertWith(key, text, ones) ==
  /\ stopped = "none"
  /\ BagCardinality(rows) + BagCardinality(refused) < MaxRows
  /\ text = "short" => 1 \notin ones      \* for 1 it has 255 bytes
  /\ LET row == [key |-> key, text |-> text, ones |-> ones]
     IN Returned(InsertAtCursor(Begin(pages, num_pages), table_find(pages, key), row), row)

Insert(key, text) == \E ones \in Ones : InsertWith(key, text, ones)

Used(key) == \E row \in BagToSet(rows (+) refused) : row.key = key

\* Rows in any order; with no key twice, where what bytes a row has matters
\* only while the root is a leaf; in ascending order.
Next == \E key \in Keys, text \in Texts : Insert(key, text)
UniqueNext ==
  \E key \in Keys, text \in Texts, ones \in Ones :
    /\ ~Used(key)
    /\ ones # {} => IsLeaf(pages[root_page_num])
    /\ InsertWith(key, text, ones)
AscendingNext ==
  \E key \in Keys, text \in Texts :
    /\ \A used \in Keys : Used(used) => used < key
    /\ Insert(key, text)

Spec == Init /\ [][Next]_vars
UniqueSpec == Init /\ [][UniqueNext]_vars
AscendingSpec == Init /\ [][AscendingNext]_vars

-----------------------------------------------------------------------------
(***************************************************************************)
(* What a caller reads back.                                               *)
(***************************************************************************)

\* The rows Cursor::advance() passes from the first cell of leaf p on.
RowsFrom(p) ==
  LET from[n \in 0 .. FILE_PAGES_NUM] ==
        [q \in Pages |->
           IF n = 0 \/ ~IsLeaf(pages[q]) THEN <<>>
           ELSE pages[q].cells \o (IF pages[q].next = 0 THEN <<>> ELSE from[n - 1][pages[q].next])]
  IN from[FILE_PAGES_NUM][p]

\* The rows from table_start() to end_of_table.
Scan ==
  LET start     == table_find(pages, 0)
      rows_from == RowsFrom(start.page)
  IN IF pages[root_page_num].cells = <<>> THEN <<>>
     ELSE SubSeq(rows_from, start.cell + 1, Len(rows_from))

\* The row table_find(key) puts its cursor on has that key.
Finds(key) ==
  LET cursor == table_find(pages, key)
      cells  == pages[cursor.page].cells
  IN cursor.cell < Len(cells) /\ cells[cursor.cell + 1].key = key

-----------------------------------------------------------------------------
(***************************************************************************)
(* Properties.                                                             *)
(***************************************************************************)

Allocated == 0 .. num_pages - 1
Leaves == {p \in Allocated : IsLeaf(pages[p])}

ChildrenOf(p) == IF IsLeaf(pages[p]) THEN {} ELSE ToSet(Children(pages[p]))

\* Page p is child i of page q.
IsChildAt(q, i, p) ==
  ~IsLeaf(pages[q]) /\ i <= Len(pages[q].cells) + 1 /\ Children(pages[q])[i] = p

\* The pages n levels below the root.
Level(n) ==
  LET level[i \in 0 .. n] ==
        IF i = 0 THEN {root_page_num} ELSE UNION {ChildrenOf(p) : p \in level[i - 1]}
  IN level[n]

TypeOK ==
  /\ pages \in [Pages -> LeafNode \cup InternalNode]
  /\ num_pages \in 0 .. FILE_PAGES_NUM
  /\ stopped \in Faults
  /\ IsABag(rows) /\ BagToSet(rows) \subseteq Rows
  /\ IsABag(refused) /\ BagToSet(refused) \subseteq Rows

(* After every insertion that returned, and in whatever order the keys     *)
(* came, the pages handed out form one balanced tree: every page but the   *)
(* root is the child of exactly one internal node, the leaves are all at   *)
(* one depth, only page 0 is marked as root, and a node other than a root  *)
(* leaf is between its least and its greatest fill.                        *)
TreeIsBalanced ==
  stopped = "none" /\ refused = EmptyBag =>
    /\ \A p \in Allocated \ {root_page_num} :
         Cardinality({place \in Allocated \X (1 .. INTERNAL_NODE_MAX_CELLS + 1) :
                        IsChildAt(place[1], place[2], p)}) = 1
    /\ \E n \in 0 .. num_pages : Level(n) = Leaves
    /\ \A p \in Allocated : pages[p].is_root <=> p = root_page_num
    /\ \A p \in Allocated :
         IF IsLeaf(pages[p])
         THEN /\ Len(pages[p].cells) <= LEAF_NODE_MAX_CELLS
              /\ p # root_page_num => Len(pages[p].cells) >= RIGHT_SPLIT_COUNT
         ELSE Len(pages[p].cells) \in 1 .. INTERNAL_NODE_MAX_CELLS

(* Every leaf names as its parent the node it is a child of, whatever      *)
(* splits there were above it: a leaf split goes up the tree by this       *)
(* number.                                                                 *)
LeafParentsAgree ==
  stopped = "none" /\ refused = EmptyBag =>
    \A p \in Allocated : \A c \in ChildrenOf(p) \cap Leaves : pages[c].parent = p

(* The next_leaf links form one chain through every leaf, whatever splits  *)
(* and failures there were: one leaf is no other's successor, and from it  *)
(* the chain passes every leaf once.                                       *)
Successors == {pages[p].next : p \in Leaves} \ {0}

\* The leaf n links after leaf p, page 0 past the last.
LeafAfter(p, n) ==
  LET leaf[i \in 0 .. n] ==
        IF i = 0 THEN p
        ELSE IF IsLeaf(pages[leaf[i - 1]]) THEN pages[leaf[i - 1]].next ELSE 0
  IN leaf[n]

LeavesChained ==
  stopped = "none" =>
    \E head \in Leaves \ Successors :
      /\ Leaves = {LeafAfter(head, n) : n \in 0 .. Cardinality(Leaves) - 1}
      /\ LeafAfter(head, Cardinality(Leaves)) = 0

\* Where the leaves hold a row, as it was inserted.
AsInserted(row) == IF row.text = "damaged" THEN [row EXCEPT !.text = "long"] ELSE row
Copies(row, bag) == IF BagIn(row, bag) THEN bag[row] ELSE 0
HoldsAt(p, i, row) == i <= Len(pages[p].cells) /\ AsInserted(pages[p].cells[i]) = row
Places(row) ==
  {place \in Leaves \X (1 .. LEAF_NODE_MAX_CELLS) : HoldsAt(place[1], place[2], row)}

(* No row is lost or doubled by the splits, in whatever order the keys     *)
(* came, not even by an insertion that threw part way because the file was *)
(* full: the leaves hold every row whose insertion returned, as many times *)
(* as it was inserted, and besides at most rows whose insertion threw.  (A *)
(* long text may be damaged: see SplitStray.)                              *)
RowsKept ==
  stopped = "none" =>
    /\ \A p \in Leaves :
         /\ Len(pages[p].cells) <= LEAF_NODE_MAX_CELLS
         /\ \A i \in DOMAIN pages[p].cells :
              AsInserted(pages[p].cells[i]) \in BagToSet(rows (+) refused)
    /\ \A row \in BagToSet(rows (+) refused) :
         Cardinality(Places(row)) \in Copies(row, rows) .. Copies(row, rows (+) refused)

(* Within a leaf the keys are in order: a search within one finds them.    *)
LeavesSorted ==
  \A p \in Leaves : \A i, j \in DOMAIN pages[p].cells :
    i < j => pages[p].cells[i].key <= pages[p].cells[j].key

(* In whatever order the keys came, a search for a place in the tree that  *)
(* insertions built meets no missing child, and ends at a leaf.            *)
DescentsEnd == stopped # "exit"

(* No insertion ends the process, for a missing child or for left-over     *)
(* bytes: so it is of rows without such bytes (theorem OtherRowsNeverExit).*)
NeverExits == stopped \notin {"exit", "exit on old bytes"}

(* The bytes for which it exits then are those of a row, one of those      *)
(* inserted: whatever a split moves out of an internal node, it leaves     *)
(* none of the kind.                                                       *)
ExitsOnOldBytesOnly ==
  stopped = "exit on old bytes" => \E row \in BagToSet(rows (+) refused) : InvalidCells(row) # {}

(* No operation uses a CacheEntry pointer after the entry was deleted.     *)
NoStalePointer == stopped # "stale pointer"

\* An insertion adds no third level of internal nodes.
StaysWithinTwoLevels ==
  /\ \A p \in Level(2) : IsLeaf(pages[p])
  /\ Level(2) # {} => Len(pages[root_page_num].cells) < INTERNAL_NODE_MAX_CELLS

(* With a cache of eight pages none does as long as the tree stays within  *)
(* two levels of internal nodes, whichever nodes an insertion splits.      *)
EightPagesSuffice == [][StaysWithinTwoLevels => stopped' # "stale pointer"]_vars

(* A scan returns every row inserted, in the order of the keys.            *)
ScanSorted ==
  stopped = "none" /\ refused = EmptyBag =>
    /\ ToBag(Scan) = rows
    /\ IsSorted(Scan, LAMBDA a, b : a.key <= b.key)

Sorted == INSTANCE SortedRows WITH rows <- Scan, threw <- refused # EmptyBag

(* What a scan returns after each insertion is what it returned before,    *)
(* with the new row in its place by key, until an insertion throws.        *)
ImplementsSortedRows == Sorted!Spec

(* table_find() finds every row inserted.                                  *)
FindsRows == stopped = "none" => \A row \in BagToSet(rows) : Finds(row.key)

(* It does as long as the root's children are leaves and no insertion      *)
(* threw.                                                                  *)
FindsRowsWhileShallow ==
  refused = EmptyBag /\ (\A c \in ChildrenOf(root_page_num) : IsLeaf(pages[c])) => FindsRows
=============================================================================
