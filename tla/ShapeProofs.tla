----------------------------- MODULE ShapeProofs -----------------------------
(***************************************************************************)
(* Proofs about the shape of the tree of a Table.                          *)
(***************************************************************************)
EXTENDS TableProofs

-----------------------------------------------------------------------------
(***************************************************************************)
(* The children of a node, a set: their order is by keys, which do not     *)
(* matter to the shape.  A node without a right child is one a split is    *)
(* about to fill.                                                          *)
(***************************************************************************)

Firsts(cells) == {cells[i].child : i \in 1 .. Len(cells)}

Kids(node) ==
  IF IsLeaf(node) THEN {} ELSE Firsts(node.cells) \cup ({node.right} \ {INVALID_PAGE_NUM})

Open(node) == ~IsLeaf(node) /\ node.right = INVALID_PAGE_NUM

\* No child is in two places of a node.
FirstsApart(cells) == \A i, j \in 1 .. Len(cells) : cells[i].child = cells[j].child => i = j
Apart(node) == FirstsApart(node.cells) /\ node.right \notin Firsts(node.cells)

\* Node b is the internal node a with one more child.
NodeJoined(a, b, c) ==
  /\ b \in InternalNode /\ b.parent = a.parent /\ b.is_root = a.is_root
  /\ b.right \in Pages
  /\ Kids(b) = Kids(a) \cup {c}
  /\ Len(b.cells) = IF Open(a) THEN Len(a.cells) ELSE Len(a.cells) + 1
  /\ Apart(a) /\ c \notin Kids(a) => Apart(b)

LEMMA InternalFields ==
  ASSUME NEW node \in InternalNode
  PROVE  /\ ~IsLeaf(node) /\ node \in Node /\ node.right \in Nat /\ node.parent \in Pages
         /\ node.cells \in Seq(InternalCell) /\ Len(node.cells) \in Nat
         /\ \A i \in 1 .. Len(node.cells) : /\ node.cells[i] \in InternalCell
                                            /\ node.cells[i].child \in Pages
         /\ Firsts(node.cells) \subseteq Pages
<1>1. /\ ~IsLeaf(node) /\ node \in Node /\ node.right \in Nat /\ node.parent \in Pages
      /\ node.cells \in Seq(InternalCell) /\ Len(node.cells) \in Nat
  BY DEF InternalNode, IsLeaf, Node
<1>2. \A i \in 1 .. Len(node.cells) : node.cells[i] \in InternalCell
  BY <1>1
<1>3. \A i \in 1 .. Len(node.cells) : node.cells[i].child \in Pages
  BY <1>2 DEF InternalCell
<1> QED BY <1>1, <1>2, <1>3 DEF Firsts

\* The first child of a node without any.
LEMMA JoinedFirst ==
  ASSUME NEW node \in InternalNode, Open(node), node.cells = <<>>, NEW c \in Pages
  PROVE  NodeJoined(node, [node EXCEPT !.right = c], c)
<1> DEFINE b == [node EXCEPT !.right = c]
<1>1. /\ b \in InternalNode /\ b.parent = node.parent /\ b.is_root = node.is_root
      /\ b.right = c /\ b.cells = node.cells
  BY PageNumbers DEF InternalNode
<1>2. Firsts(node.cells) = {} /\ Len(node.cells) = 0 /\ c # INVALID_PAGE_NUM
  BY PageNumbers DEF Firsts
<1> HIDE DEF b
<1>3. Kids(node) = {} /\ Kids(b) = {c} /\ Apart(b)
  BY <1>1, <1>2, InternalFields DEF Kids, Open, Apart, FirstsApart
<1> QED BY <1>1, <1>2, <1>3 DEF NodeJoined, b

\* A child past all others.
LEMMA JoinedLast ==
  ASSUME NEW node \in InternalNode, node.right \in Pages, NEW c \in Pages, NEW key \in Nat
  PROVE  NodeJoined(node, WithLast(node, c, key), c)
<1> DEFINE cell == [child |-> node.right, key |-> key]
           cells == node.cells
           n == Len(cells)
           more == Append(cells, cell)
           b == [node EXCEPT !.cells = more, !.right = c, !.leftover = @ \ {n}]
<1>1. cells \in Seq(InternalCell) /\ n \in Nat /\ Firsts(cells) \subseteq Pages /\ ~IsLeaf(node)
  BY InternalFields
<1>2. cell \in InternalCell /\ cell.child = node.right
  BY DEF InternalCell
<1> HIDE DEF cell
<1>3. /\ more \in Seq(InternalCell) /\ Len(more) = n + 1
      /\ \A i \in 1 .. n : more[i] = cells[i]
      /\ more[n + 1] = cell
  BY <1>1, <1>2, AppendProperties
<1>4. /\ b \in InternalNode /\ b.parent = node.parent /\ b.is_root = node.is_root
      /\ b.right = c /\ b.cells = more /\ ~IsLeaf(b)
  <2> HIDE DEF more
  <2> QED BY <1>3, PageNumbers DEF InternalNode, IsLeaf
<1> HIDE DEF more, b, n
<1>5. Firsts(more) = Firsts(cells) \cup {node.right}
  <2>1. \A i \in 1 .. n + 1 : i \in 1 .. n \/ i = n + 1
    BY <1>1 DEF n
  <2>2. \A i \in 1 .. n : i \in 1 .. n + 1
    BY <1>1 DEF n
  <2>3. n + 1 \in 1 .. n + 1
    BY <1>1 DEF n
  <2>4. Firsts(cells) = {cells[i].child : i \in 1 .. n} /\ Firsts(more) = {more[i].child : i \in 1 .. n + 1}
    BY <1>3 DEF Firsts, n
  <2> QED BY <1>2, <1>3, <2>1, <2>2, <2>3, <2>4
<1>6. INVALID_PAGE_NUM \notin Pages
  BY PageNumbers
<1>7. Kids(b) = Kids(node) \cup {c}
  BY <1>1, <1>4, <1>5, <1>6 DEF Kids
<1>8. ASSUME Apart(node), c \notin Kids(node) PROVE Apart(b)
  <2>1. c \notin Firsts(more)
    BY <1>1, <1>5, <1>6, <1>8 DEF Kids
  <2>2. FirstsApart(more)
    <3>1. \A i \in 1 .. n : cells[i].child # node.right
      BY <1>8 DEF Apart, Firsts, n
    <3>2. \A i, j \in 1 .. n : cells[i].child = cells[j].child => i = j
      BY <1>8 DEF Apart, FirstsApart, n
    <3>3. \A i \in 1 .. n + 1 : i \in 1 .. n \/ i = n + 1
      BY <1>1 DEF n
    <3>4. \A i, j \in 1 .. n + 1 : more[i].child = more[j].child => i = j
      BY <1>2, <1>3, <3>1, <3>2, <3>3
    <3> QED BY <1>3, <3>4 DEF FirstsApart
  <2> QED BY <1>4, <2>1, <2>2 DEF Apart
<1>9. ~Open(node)
  BY <1>6 DEF Open
<1>10. WithLast(node, c, key) = b
  BY DEF WithLast, b, more, cell, n
<1> HIDE DEF cells
<1> QED BY <1>3, <1>4, <1>7, <1>8, <1>9, <1>10 DEF NodeJoined, cells, n

\* The cells with one more at k.
LEMMA CellInserted ==
  ASSUME NEW cells \in Seq(InternalCell), NEW k \in 1 .. Len(cells) + 1, NEW cell \in InternalCell
  PROVE  /\ InsertAt(cells, k, cell) \in Seq(InternalCell)
         /\ Len(InsertAt(cells, k, cell)) = Len(cells) + 1
         /\ \A i \in 1 .. k - 1 : InsertAt(cells, k, cell)[i] = cells[i]
         /\ InsertAt(cells, k, cell)[k] = cell
         /\ \A i \in k + 1 .. Len(cells) + 1 : InsertAt(cells, k, cell)[i] = cells[i - 1]
BY InsertAtElements

\* A child before another.
LEMMA JoinedInside ==
  ASSUME NEW node \in InternalNode, node.right \in Pages, NEW c \in Pages, NEW key \in Nat,
         NEW index \in 0 .. Len(node.cells)
  PROVE  NodeJoined(node, WithCell(node, index, c, key), c)
<1> DEFINE cell == [child |-> c, key |-> key]
           cells == node.cells
           n == Len(cells)
           k == index + 1
           more == InsertAt(cells, k, cell)
           b == [node EXCEPT !.cells = more, !.leftover = @ \ {n}]
<1>1. cells \in Seq(InternalCell) /\ n \in Nat /\ Firsts(cells) \subseteq Pages /\ ~IsLeaf(node)
  BY InternalFields
<1>2. cell \in InternalCell /\ cell.child = c
  BY DEF InternalCell
<1>a. k \in 1 .. Len(cells) + 1
  BY <1>1
<1> HIDE DEF cell, k
<1>3. /\ more \in Seq(InternalCell) /\ Len(more) = n + 1
      /\ \A i \in 1 .. k - 1 : more[i] = cells[i]
      /\ more[k] = cell
      /\ \A i \in k + 1 .. n + 1 : more[i] = cells[i - 1]
  <2>1. cells \in Seq(InternalCell) /\ cell \in InternalCell
    BY <1>1, <1>2
  <2> HIDE DEF cells
  <2> HIDE DEF more
  <2>2. k \in 1 .. Len(cells) + 1
    BY <1>a
  <2>3. more = InsertAt(cells, k, cell) /\ n = Len(cells)
    BY DEF more, n
  <2>4. /\ InsertAt(cells, k, cell) \in Seq(InternalCell)
        /\ Len(InsertAt(cells, k, cell)) = Len(cells) + 1
        /\ \A i \in 1 .. k - 1 : InsertAt(cells, k, cell)[i] = cells[i]
        /\ InsertAt(cells, k, cell)[k] = cell
        /\ \A i \in k + 1 .. Len(cells) + 1 : InsertAt(cells, k, cell)[i] = cells[i - 1]
    BY ONLY <2>1, <2>2, CellInserted
  <2> QED BY ONLY <2>3, <2>4, Zenon
<1>4. /\ b \in InternalNode /\ b.parent = node.parent /\ b.is_root = node.is_root
      /\ b.right = node.right /\ b.cells = more /\ ~IsLeaf(b)
  <2> HIDE DEF more
  <2> QED BY <1>3, PageNumbers DEF InternalNode, IsLeaf
<1> HIDE DEF more, b
<1>5. Firsts(cells) = {cells[i].child : i \in 1 .. n} /\ Firsts(more) = {more[i].child : i \in 1 .. n + 1}
  BY <1>3 DEF Firsts
<1>b. k \in 1 .. n + 1
  BY <1>a
<1> HIDE DEF n
<1>c. /\ \A i \in 1 .. n + 1 : i \in 1 .. k - 1 \/ i = k \/ (i \in k + 1 .. n + 1 /\ i - 1 \in 1 .. n)
      /\ \A i \in 1 .. k - 1 : i \in 1 .. n /\ i \in 1 .. n + 1
      /\ \A i \in 1 .. n : i \in 1 .. k - 1 \/ (i + 1 \in k + 1 .. n + 1 /\ (i + 1) - 1 = i)
      /\ \A i \in k + 1 .. n + 1 : i \in 1 .. n + 1
  BY <1>1, <1>b DEF n
<1>6. Firsts(more) = Firsts(cells) \cup {c}
  <2>1. ASSUME NEW i \in 1 .. n + 1 PROVE more[i].child \in Firsts(cells) \cup {c}
    <3>1. CASE i \in 1 .. k - 1
      BY <1>3, <1>5, <1>c, <3>1
    <3>2. CASE i = k
      BY <1>2, <1>3, <3>2
    <3>3. CASE i \in k + 1 .. n + 1 /\ i - 1 \in 1 .. n
      BY <1>3, <1>5, <3>3
    <3> QED BY <1>c, <3>1, <3>2, <3>3
  <2>2. ASSUME NEW i \in 1 .. n PROVE cells[i].child \in Firsts(more)
    <3>1. CASE i \in 1 .. k - 1
      BY <1>3, <1>5, <1>c, <3>1
    <3>2. CASE i + 1 \in k + 1 .. n + 1 /\ (i + 1) - 1 = i
      BY <1>3, <1>5, <1>c, <3>2
    <3> QED BY <1>c, <3>1, <3>2
  <2>3. c \in Firsts(more)
    BY <1>2, <1>3, <1>5, <1>b
  <2> QED BY <1>5, <2>1, <2>2, <2>3
<1>7. INVALID_PAGE_NUM \notin Pages
  BY PageNumbers
<1>8. Kids(b) = Kids(node) \cup {c}
  BY <1>1, <1>4, <1>6, <1>7 DEF Kids
<1>9. ASSUME Apart(node), c \notin Kids(node) PROVE Apart(b)
  <2>1. c # node.right /\ c \notin Firsts(cells)
    BY <1>1, <1>7, <1>9 DEF Kids
  <2>2. \A i \in 1 .. n : cells[i].child # c
    BY <1>5, <2>1
  <2>3. \A i, j \in 1 .. n : cells[i].child = cells[j].child => i = j
    BY <1>9 DEF Apart, FirstsApart, n
  <2>4. ASSUME NEW i \in 1 .. n + 1, NEW j \in 1 .. n + 1, more[i].child = more[j].child PROVE i = j
    <3> DEFINE At(m) == IF m < k THEN m ELSE m - 1
    <3>1. \A m \in 1 .. n + 1 : m # k => At(m) \in 1 .. n /\ more[m] = cells[At(m)]
      <4> SUFFICES ASSUME NEW m \in 1 .. n + 1, m # k
                   PROVE  At(m) \in 1 .. n /\ more[m] = cells[At(m)]
        OBVIOUS
      <4>1. n \in Nat /\ k \in 1 .. n + 1 /\ m \in 1 .. n + 1 /\ m # k
        BY <1>1, <1>b DEF n
      <4>2. CASE m < k
        <5>1. m \in 1 .. k - 1 /\ m \in 1 .. n /\ At(m) = m
          BY ONLY <4>1, <4>2
        <5> QED BY <1>3, <5>1
      <4>3. CASE ~(m < k)
        <5>1. m \in k + 1 .. n + 1 /\ m - 1 \in 1 .. n /\ At(m) = m - 1
          BY ONLY <4>1, <4>3
        <5> QED BY <1>3, <5>1
      <4> QED BY <4>2, <4>3
    <3>2. CASE i = k \/ j = k
      BY <1>2, <1>3, <2>2, <2>4, <3>1, <3>2
    <3>3. CASE i # k /\ j # k
      <4>1. At(i) = At(j)
        <5> HIDE DEF At, cells, more, n, k
        <5>1. /\ At(i) \in 1 .. n /\ more[i] = cells[At(i)]
              /\ At(j) \in 1 .. n /\ more[j] = cells[At(j)]
          BY <3>1, <3>3
        <5> QED BY <2>3, <2>4, <5>1
      <4> QED BY <1>1, <1>b, <3>3, <4>1 DEF n
    <3> QED BY <3>2, <3>3
  <2>5. FirstsApart(more)
    BY <1>3, <2>4 DEF FirstsApart, n
  <2>6. node.right \notin Firsts(more)
    BY <1>6, <1>9, <2>1 DEF Apart
  <2> QED BY <1>4, <2>5, <2>6 DEF Apart
<1>10. ~Open(node)
  BY <1>7 DEF Open
<1>11. WithCell(node, index, c, key) = b
  BY DEF WithCell, b, more, cell, n, k
<1> QED BY <1>3, <1>4, <1>8, <1>9, <1>10, <1>11 DEF NodeJoined, n

LEMMA ChildrenElements ==
  ASSUME NEW node \in InternalNode
  PROVE  /\ Len(Children(node)) = Len(node.cells) + 1
         /\ \A i \in 1 .. Len(node.cells) : Children(node)[i] = node.cells[i].child
         /\ Children(node)[Len(node.cells) + 1] = node.right
<1> DEFINE n == Len(node.cells)
           firsts == [i \in 1 .. n |-> node.cells[i].child]
<1>1. n \in Nat /\ node.right \in Nat /\ \A i \in 1 .. n : node.cells[i].child \in Nat
  BY InternalFields, PageNumbers
<1>2. /\ firsts \in Seq(Nat) /\ Len(firsts) = n /\ <<node.right>> \in Seq(Nat)
      /\ Len(<<node.right>>) = 1 /\ <<node.right>>[1] = node.right
      /\ \A i \in 1 .. n : firsts[i] = node.cells[i].child
  BY <1>1
<1>3. Children(node) = firsts \o <<node.right>>
  BY DEF Children
<1> HIDE DEF firsts, n
<1>4. /\ Len(firsts \o <<node.right>>) = n + 1
      /\ \A i \in 1 .. n : (firsts \o <<node.right>>)[i] = firsts[i]
      /\ (firsts \o <<node.right>>)[n + 1] = node.right
  <2> DEFINE last == <<node.right>>
  <2>1. /\ firsts \in Seq(Nat) /\ last \in Seq(Nat) /\ n \in Nat
        /\ Len(firsts) = n /\ Len(last) = 1 /\ last[1] = node.right
    BY <1>1, <1>2
  <2> HIDE DEF last
  <2>2. /\ Len(firsts \o last) = Len(firsts) + Len(last)
        /\ \A i \in 1 .. Len(firsts) + Len(last) :
             (firsts \o last)[i] = IF i <= Len(firsts) THEN firsts[i] ELSE last[i - Len(firsts)]
    BY <2>1, ConcatProperties
  <2>3. \A i \in 1 .. n : i \in 1 .. n + 1 /\ i <= n
    BY <2>1
  <2>4. n + 1 \in 1 .. n + 1 /\ ~(n + 1 <= n) /\ (n + 1) - n = 1
    BY <2>1
  <2> QED BY <2>1, <2>2, <2>3, <2>4 DEF last
<1> QED BY <1>2, <1>3, <1>4 DEF n

\* A full node and what a split leaves of it, its third child being moved
\* after its fourth.
Quarters(node, k1, k2, k3, k4) ==
  /\ {k1, k2, k3, k4} \subseteq Pages
  /\ Kids(node) = {k1, k2, k3, k4}
  /\ Apart(node) => /\ k1 # k2 /\ k1 # k3 /\ k1 # k4
                    /\ k2 # k3 /\ k2 # k4 /\ k3 # k4

LEMMA Shortened ==
  ASSUME NEW node \in InternalNode, node.right \in Pages, Len(node.cells) = INTERNAL_NODE_MAX_CELLS
  PROVE  LET b  == OldShortened(node, Kept)
             k1 == node.cells[1].child
             k2 == node.cells[2].child
             k3 == Children(node)[3]
             k4 == Children(node)[4]
         IN /\ Quarters(node, k1, k2, k3, k4)
            /\ b \in InternalNode /\ b.parent = node.parent /\ b.is_root = node.is_root
            /\ b.right \in Pages /\ Kids(b) = {k1, k2} /\ Len(b.cells) = 1
            /\ Apart(node) => Apart(b)
<1> DEFINE b  == OldShortened(node, Kept)
           cells == node.cells
           k1 == cells[1].child
           k2 == cells[2].child
           k3 == Children(node)[3]
           k4 == Children(node)[4]
           less == SubSeq(cells, 1, 1)
<1>1. /\ cells \in Seq(InternalCell) /\ Len(cells) = 3 /\ ~IsLeaf(node)
      /\ \A i \in 1 .. 3 : cells[i].child \in Pages
  BY InternalFields DEF INTERNAL_NODE_MAX_CELLS
<1>2. k3 = cells[3].child /\ k4 = node.right
  <2>1. 3 \in 1 .. Len(cells) /\ Len(cells) + 1 = 4
    BY <1>1
  <2> HIDE DEF cells
  <2>2. k3 = cells[3].child
    BY <2>1, ChildrenElements DEF cells
  <2>3. k4 = node.right
    BY <2>1, ChildrenElements DEF cells
  <2> QED BY <2>2, <2>3
<1>3. k1 \in Pages /\ k2 \in Pages /\ k3 \in Pages /\ k4 \in Pages
  BY <1>1, <1>2
<1>4. less \in Seq(InternalCell) /\ Len(less) = 1 /\ less[1] = cells[1]
  BY <1>1
<1>5. Kept = 1
  BY DEF Kept, INTERNAL_NODE_MAX_CELLS
<1>6. /\ b \in InternalNode /\ b.parent = node.parent /\ b.is_root = node.is_root
      /\ b.cells = less /\ b.right = k2
  <2>1. b = [node EXCEPT !.cells = less, !.right = k2]
    BY <1>5 DEF OldShortened
  <2> HIDE DEF b, less, k2
  <2> QED BY <1>3, <1>4, <2>1, PageNumbers DEF InternalNode
<1> HIDE DEF b, less, k3, k4
<1>7. Firsts(less) = {k1}
  BY <1>4 DEF Firsts
<1>8. Firsts(cells) = {k1, k2, k3}
  <2>1. Firsts(cells) = {cells[i].child : i \in 1 .. 3}
    BY <1>1 DEF Firsts
  <2>2. \A i : i \in 1 .. 3 <=> i = 1 \/ i = 2 \/ i = 3
    OBVIOUS
  <2> HIDE DEF cells
  <2> QED BY ONLY <1>2, <2>1, <2>2 DEF k1, k2
<1>9. INVALID_PAGE_NUM \notin Pages
  BY PageNumbers
<1>10. Kids(b) = {k1, k2} /\ ~IsLeaf(b)
  BY <1>3, <1>6, <1>7, <1>9, InternalFields DEF Kids
<1>11. Kids(node) = {k1, k2, k3, k4}
  BY <1>1, <1>2, <1>3, <1>8, <1>9 DEF Kids
<1>12. ASSUME Apart(node)
       PROVE  /\ k1 # k2 /\ k1 # k3 /\ k1 # k4 /\ k2 # k3 /\ k2 # k4 /\ k3 # k4
              /\ Apart(b)
  <2>1. k1 # k2 /\ k1 # k3 /\ k2 # k3
    <3>1. \A i, j \in 1 .. 3 : cells[i].child = cells[j].child => i = j
      BY <1>1, <1>12 DEF Apart, FirstsApart
    <3> QED BY <1>2, <3>1
  <2>2. k1 # k4 /\ k2 # k4 /\ k3 # k4
    BY <1>2, <1>8, <1>12 DEF Apart
  <2>3. FirstsApart(less)
    BY <1>4 DEF FirstsApart
  <2> QED BY <1>6, <1>7, <2>1, <2>2, <2>3 DEF Apart
<1> QED BY <1>3, <1>4, <1>6, <1>10, <1>11, <1>12 DEF b, k1, k2, k3, k4, Quarters

-----------------------------------------------------------------------------
(***************************************************************************)
(* What the parts of an insertion do to the children.  A part that keeps   *)
(* going wrong only by stale pointers says so with FailsHalted.             *)
(***************************************************************************)

LEMMA RequestFailsHalted ==
  ASSUME NEW o \in Operations, NEW p \in Pages
  PROVE  FailsHalted(o, get_page(o, p))
<1> DEFINE r == get_page(o, p)
<1>1. r.fault = o.fault /\ (Failed(o) => r = o)
  BY PageGranted, PageRequested
<1> HIDE DEF r
<1> QED BY <1>1 DEF FailsHalted, Failed, r

LEMMA UseFailsHalted ==
  ASSUME NEW o \in Operations, NEW ptrs
  PROVE  FailsHalted(o, Use(o, ptrs))
<1>1. Use(o, ptrs) = o \/ (~Failed(o) /\ Use(o, ptrs) = [o EXCEPT !.fault = "stale pointer"])
  BY DEF Use
<1>2. [o EXCEPT !.fault = "stale pointer"].fault = "stale pointer"
  BY DEF Operations
<1>3. CASE Use(o, ptrs) = o
  BY <1>3 DEF FailsHalted
<1>4. CASE ~Failed(o) /\ Use(o, ptrs) = [o EXCEPT !.fault = "stale pointer"]
  BY <1>2, <1>4 DEF FailsHalted, Halted
<1> QED BY <1>1, <1>3, <1>4

LEMMA StoredExactly ==
  ASSUME NEW o \in Operations, NEW ptr, ptr.page \in Pages, NEW node \in Node, NEW r,
         r = StoreNode(o, ptr, node)
  PROVE  /\ r \in Operations /\ r.num_pages = o.num_pages /\ FailsHalted(o, r)
         /\ ~Failed(r) => /\ ~Failed(o)
                          /\ \A q \in Pages : r.pages[q] = IF q = ptr.page THEN node ELSE o.pages[q]
<1> DEFINE t == StoreNode(o, ptr, node)
<1>1. /\ t \in Operations /\ t.num_pages = o.num_pages
      /\ ~Failed(t) => ~Failed(o) /\ t.pages = [o.pages EXCEPT ![ptr.page] = node]
  BY NodeStored
<1>2. FailsHalted(o, t)
  BY StoreFailsHalted
<1>3. o.pages \in [Pages -> Node]
  BY OperationFields
<1> HIDE DEF t
<1>4. r = t
  BY DEF t
<1> QED BY <1>1, <1>2, <1>3, <1>4

\* A page's parent and nothing else.
Reparented(a, p, parent) == [a EXCEPT ![p] = [a[p] EXCEPT !.parent = parent]]

LEMMA ParentSetExactly ==
  ASSUME NEW o \in Operations, NEW ptr, NEW parent \in Pages, ptr.page \in Pages
  PROVE  LET r == SetParent(o, ptr, parent)
         IN /\ FailsHalted(o, r) /\ r \in Operations /\ r.num_pages = o.num_pages
            /\ ~Failed(r) => ~Failed(o) /\ r.pages = Reparented(o.pages, ptr.page, parent)
<1> DEFINE node == o.pages[ptr.page]
           new == [node EXCEPT !.parent = parent]
           r == StoreNode(o, ptr, new)
<1>1. CASE Failed(o)
  <2>1. SetParent(o, ptr, parent) = o
    BY <1>1 DEF SetParent
  <2> QED BY <1>1, <2>1 DEF FailsHalted
<1>2. CASE ~Failed(o)
  <2>1. SetParent(o, ptr, parent) = r
    BY <1>2 DEF SetParent
  <2>2. node \in Node
    BY OperationFields
  <2> HIDE DEF node
  <2>3. new \in Node
    BY <2>2, NodeReparented
  <2>4. Reparented(o.pages, ptr.page, parent) = [o.pages EXCEPT ![ptr.page] = new]
    BY DEF Reparented, node
  <2> HIDE DEF new
  <2>5. /\ r \in Operations /\ r.num_pages = o.num_pages
        /\ ~Failed(r) => r.pages = [o.pages EXCEPT ![ptr.page] = new]
    BY <2>3, NodeStored
  <2>6. FailsHalted(o, r)
    BY <1>2, StoreFails DEF FailsHalted
  <2> HIDE DEF r
  <2> QED BY <1>2, <2>1, <2>4, <2>5, <2>6
<1> QED BY <1>1, <1>2

\* Tree b is tree a with one more child of page p.
Joined(a, b, p, c) == NodeJoined(a[p], b[p], c) /\ \A q \in Pages \ {p} : b[q] = a[q]

Adds(o, p, c, r) ==
  /\ FailsHalted(o, r) /\ r.num_pages = o.num_pages
  /\ ~Failed(r) => ~Failed(o) /\ Joined(o.pages, r.pages, p, c)

\* An internal node takes a child without being split.
Room(o, p) ==
  /\ Len(o.pages[p].cells) < INTERNAL_NODE_MAX_CELLS
  /\ o.pages[p].right < o.num_pages \/ (Open(o.pages[p]) /\ o.pages[p].cells = <<>>)

LEMMA RoomFilled ==
  ASSUME NEW insert, NEW o, Good(o), Grown(o), NEW p, Inner(o, p), Room(o, p),
         NEW c \in Pages, c < o.num_pages
  PROVE  Adds(o, p, c, InsertChild(o, p, c, insert))
<1> DEFINE o1 == get_page(o, p)
           parent == Pointer(o1, p)
           o11 == get_page(o1, c)
           o2 == Use(o11, {parent})
           child_max == get_node_max_key(o2.pages, c)
           node == o2.pages[p]
           index == internal_node_find_child(node.cells, child_max)
           o3 == get_page(o2, node.right)
           right_max == get_node_max_key(o3.pages, node.right)
           first == [node EXCEPT !.right = c]
           last == WithLast(node, c, right_max)
           inside == WithCell(node, index, c, child_max)
           o4 == IF child_max > right_max \/ index = Len(node.cells)
                 THEN TestCell(o3, parent, node, Len(node.cells)) ELSE o3
           new == IF child_max > right_max THEN last ELSE inside
           r == InsertChild(o, p, c, insert)
<1> SUFFICES Adds(o, p, c, r)
  OBVIOUS
<1>1. /\ o \in Operations /\ p \in Pages /\ o.pages \in [Pages -> Node] /\ o.num_pages \in Nat
      /\ FILE_PAGES_NUM \in Nat /\ o.num_pages <= FILE_PAGES_NUM /\ p # o.num_pages /\ c # o.num_pages
      /\ o.pages[p] \in InternalNode /\ Len(o.pages[p].cells) \in Nat
  <2>1. /\ o \in Operations /\ p \in Pages /\ o.pages \in [Pages -> Node]
        /\ o.pages[p] \in InternalNode /\ Len(o.pages[p].cells) \in Nat
    BY InnerNode DEF Good
  <2>2. o.num_pages \in 1 .. FILE_PAGES_NUM
    BY DEF Good, Shaped
  <2>3. p < o.num_pages /\ p \in Nat /\ c \in Nat /\ FILE_PAGES_NUM \in Nat
    BY <2>1, PageNumbers, PagePointersAssumption DEF Inner, PagePointersAssumption
  <2> QED BY <2>1, <2>2, <2>3
<1>2. r = IF Failed(o2) THEN o2
          ELSE IF Len(node.cells) >= INTERNAL_NODE_MAX_CELLS
          THEN internal_node_split_and_insert(o2, p, c, insert)
          ELSE IF node.right = INVALID_PAGE_NUM THEN StoreNode(o2, parent, first)
          ELSE IF Failed(o3) THEN o3
          ELSE StoreNode(o4, parent, new)
  BY DEF InsertChild
<1> HIDE DEF r
<1>3. /\ o1 \in Operations /\ o1.pages = o.pages /\ o1.num_pages = o.num_pages /\ FailsHalted(o, o1)
  BY <1>1, RequestKeeps, RequestFailsHalted DEF Keeps, Good
<1>4. parent.page = p
  BY DEF Pointer
<1> HIDE DEF o1, parent
<1>5. /\ o11 \in Operations /\ o11.pages = o.pages /\ o11.num_pages = o.num_pages /\ FailsHalted(o1, o11)
  <2>1. Good(o1)
    BY <1>3 DEF Good
  <2> QED BY <1>1, <1>3, <2>1, RequestKeeps, RequestFailsHalted DEF Keeps, Good
<1> HIDE DEF o11
<1>6. /\ o2 \in Operations /\ o2.pages = o.pages /\ o2.num_pages = o.num_pages /\ FailsHalted(o11, o2)
  <2>1. Good(o11)
    BY <1>5 DEF Good
  <2> QED BY <1>5, <2>1, UseKeeps, StoreFailsHalted DEF Keeps, Good
<1> HIDE DEF o2
<1>7. FailsHalted(o, o2) /\ Good(o2)
  BY <1>3, <1>5, <1>6, FailsHaltedTransitive DEF Good
<1>8. CASE Failed(o2)
  BY <1>2, <1>6, <1>7, <1>8 DEF Adds
<1>9. CASE ~Failed(o2)
  <2>1. ~Failed(o)
    BY <1>7, <1>9 DEF FailsHalted
  <2>2. node = o.pages[p]
    BY <1>6
  <2> HIDE DEF node
  <2>3. /\ node \in InternalNode /\ Len(node.cells) < INTERNAL_NODE_MAX_CELLS /\ Len(node.cells) \in Nat
        /\ ~(Len(node.cells) >= INTERNAL_NODE_MAX_CELLS) /\ node.cells \in Seq(InternalCell)
        /\ \/ node.right < o.num_pages
           \/ Open(node) /\ node.cells = <<>>
    BY <1>1, <2>2, InternalFields DEF Room, INTERNAL_NODE_MAX_CELLS
  <2>4. child_max \in Nat
    BY <1>1, <1>6, MaxKeyIsNat
  <2> HIDE DEF child_max
  <2>5. index \in 0 .. Len(node.cells)
    BY <2>3, <2>4, ChildFound
  <2> HIDE DEF index
  \* What is stored has one child more.
  <2>6. ASSUME NEW x \in Operations, x.pages = o.pages, x.num_pages = o.num_pages, FailsHalted(o, x),
               NEW to, NodeJoined(node, to, c), r = StoreNode(x, parent, to)
        PROVE  Adds(o, p, c, r)
    <3>1. to \in Node
      BY <2>6 DEF NodeJoined, Node
    <3>2. p = parent.page /\ parent.page \in Pages
      BY <1>1, <1>4
    <3>a. /\ r.num_pages = x.num_pages /\ FailsHalted(x, r)
          /\ ~Failed(r) => /\ ~Failed(x)
                           /\ \A q \in Pages : r.pages[q] = IF q = p THEN to ELSE x.pages[q]
      BY ONLY <2>6, <3>1, <3>2, StoredExactly
    <3>3. FailsHalted(o, r)
      BY <2>6, <3>a, FailsHaltedTransitive
    <3>4. ~Failed(r) => Joined(o.pages, r.pages, p, c)
      BY <1>1, <2>2, <2>6, <3>a DEF Joined
    <3> QED BY <2>1, <2>6, <3>a, <3>3, <3>4 DEF Adds
  <2>7. CASE node.right = INVALID_PAGE_NUM
    <3>1. Open(node) /\ node.cells = <<>>
      BY <1>1, <2>3, <2>7 DEF INVALID_PAGE_NUM
    <3>2. NodeJoined(node, first, c)
      BY <2>3, <3>1, JoinedFirst
    <3>3. r = StoreNode(o2, parent, first)
      BY <1>2, <1>9, <2>3, <2>7
    <3> HIDE DEF first
    <3> QED BY <1>6, <1>7, <2>6, <3>2, <3>3
  <2>8. CASE node.right # INVALID_PAGE_NUM
    <3>1. node.right \in Pages /\ node.right # o.num_pages
      <4>1. node.right \in Nat /\ node.right < o.num_pages
        BY <2>3, <2>8, InternalFields DEF Open
      <4> QED BY <1>1, <4>1 DEF Pages
    <3>2. /\ o3 \in Operations /\ o3.pages = o.pages /\ o3.num_pages = o.num_pages /\ FailsHalted(o2, o3)
      BY <1>6, <1>7, <3>1, RequestKeeps, RequestFailsHalted DEF Keeps, Good
    <3> HIDE DEF o3
    <3>3. FailsHalted(o, o3)
      BY <1>7, <3>2, FailsHaltedTransitive
    <3>4. CASE Failed(o3)
      <4>1. r = o3
        BY <1>2, <1>9, <2>3, <2>8, <3>4
      <4> QED BY <3>2, <3>3, <3>4, <4>1 DEF Adds
    <3>5. CASE ~Failed(o3)
      <4>1. right_max \in Nat
        BY <1>1, <3>1, <3>2, MaxKeyIsNat
      <4>2. r = StoreNode(o4, parent, new)
        BY <1>2, <1>9, <2>3, <2>8, <3>5
      <4>6. /\ o4 \in Operations /\ o4.pages = o.pages /\ o4.num_pages = o.num_pages
            /\ FailsHalted(o3, o4)
        <5> DEFINE tested == TestCell(o3, parent, node, Len(node.cells))
        <5>1. /\ tested \in Operations /\ tested.pages = o3.pages /\ tested.num_pages = o3.num_pages
              /\ FailsHalted(o3, tested)
          BY <2>3, <3>2, TestFailsHalted
        <5>2. FailsHalted(o3, o3)
          BY DEF FailsHalted
        <5>3. o4 = tested \/ o4 = o3
          OBVIOUS
        <5> HIDE DEF o4, tested
        <5> QED BY <3>2, <5>1, <5>2, <5>3
      <4> HIDE DEF right_max, o4
      <4>7. FailsHalted(o, o4)
        BY <3>3, <4>6, FailsHaltedTransitive
      <4>3. NodeJoined(node, last, c)
        BY <2>3, <3>1, <4>1, JoinedLast
      <4>4. NodeJoined(node, inside, c)
        BY <2>3, <2>4, <2>5, <3>1, JoinedInside
      <4> HIDE DEF last, inside
      <4>5. NodeJoined(node, new, c)
        BY <4>3, <4>4
      <4> HIDE DEF new
      <4> QED BY <2>6, <4>2, <4>5, <4>6, <4>7
    <3> QED BY <3>4, <3>5
  <2> QED BY <2>7, <2>8
<1> QED BY <1>8, <1>9

(***************************************************************************)
(* The steps of a split until the new node is to be inserted: nothing but  *)
(* a fault that ends the program can stop them.                            *)
(***************************************************************************)

\* A part that cannot fail but for good, and takes no page.
Steady(o, r) == Keeps(o, r) /\ FailsHalted(o, r) /\ r.num_pages = o.num_pages

LEMMA SteadyTransitive ==
  ASSUME NEW o1, NEW o2, NEW o3, Good(o1), Steady(o1, o2), Steady(o2, o3)
  PROVE  Steady(o1, o3)
<1>1. Keeps(o1, o3)
  BY KeepsTransitive DEF Steady
<1>2. FailsHalted(o1, o3)
  BY FailsHaltedTransitive DEF Steady
<1> QED BY <1>1, <1>2 DEF Steady

\* What nested calls do: whatever happens they change no leaf, and into a
\* node with room they put the child.
Fills(insert) ==
  /\ Contract(insert)
  /\ \A call \in Calls :
       /\ Good(call.op) /\ Grown(call.op) /\ Inner(call.op, call.parent) /\ Room(call.op, call.parent)
       /\ call.child \in Pages /\ call.child < call.op.num_pages
       => Adds(call.op, call.parent, call.child, insert[call])

LEMMA RoomCalled ==
  ASSUME NEW insert, Fills(insert), NEW o, Good(o), Grown(o), NEW p, Inner(o, p),
         Failed(o) \/ Room(o, p), NEW c \in Pages, c < o.num_pages
  PROVE  LET r == insert[Call(o, p, c)]
         IN Steady(o, r) /\ (~Failed(r) => ~Failed(o) /\ Joined(o.pages, r.pages, p, c))
<1> DEFINE call == Call(o, p, c)
<1>1. call \in Calls /\ call.op = o /\ call.parent = p /\ call.child = c /\ c \in Nat
  BY PageNumbers DEF Call, Calls, Good, Inner
<1> HIDE DEF call
<1>2. Room(o, p) => Adds(o, p, c, insert[call])
  BY <1>1 DEF Fills
<1>3. Keeps(o, insert[call]) /\ (Failed(o) => insert[call] = o)
  BY <1>1, Called DEF Fills, Inserts, call
<1>4. CASE Failed(o)
  BY <1>3, <1>4 DEF Steady, FailsHalted, call
<1>5. CASE Room(o, p)
  BY <1>2, <1>3, <1>5 DEF call, Adds, Steady
<1> QED BY <1>4, <1>5

\* Tree b is tree a with one more child of page p, which is told so.
Fostered(a, b, p, c) ==
  /\ NodeJoined(a[p], b[p], c)
  /\ b[c] = [a[c] EXCEPT !.parent = p]
  /\ \A q \in Pages \ {p, c} : b[q] = a[q]

LEMMA ChildFostered ==
  ASSUME NEW insert, Fills(insert), NEW o, Good(o), Grown(o), NEW p, Inner(o, p),
         Failed(o) \/ Room(o, p), NEW c \in Pages \ {p}, c < o.num_pages, NEW ptr, ptr.page = c
  PROVE  LET r == SetParent(insert[Call(o, p, c)], ptr, p)
         IN Steady(o, r) /\ (~Failed(r) => ~Failed(o) /\ Fostered(o.pages, r.pages, p, c))
<1> DEFINE x == insert[Call(o, p, c)]
           r == SetParent(x, ptr, p)
<1>1. Steady(o, x) /\ (~Failed(x) => ~Failed(o) /\ Joined(o.pages, x.pages, p, c))
  BY RoomCalled
<1> HIDE DEF x
<1>2. Good(x) /\ Grown(x) /\ Inner(x, p) /\ x \in Operations /\ p \in Pages
  BY <1>1, KeepsContext DEF Steady, Good, Inner
<1>3. Keeps(x, r)
  BY <1>2, ParentSet
<1>4. /\ FailsHalted(x, r) /\ r.num_pages = x.num_pages
      /\ ~Failed(r) => ~Failed(x) /\ r.pages = Reparented(x.pages, c, p)
  BY <1>2, ParentSetExactly
<1> HIDE DEF r
<1>5. Steady(o, r)
  BY <1>1, <1>3, <1>4, SteadyTransitive DEF Steady
<1>6. ASSUME ~Failed(r) PROVE ~Failed(o) /\ Fostered(o.pages, r.pages, p, c)
  <2>1. /\ ~Failed(o) /\ NodeJoined(o.pages[p], x.pages[p], c)
        /\ \A q \in Pages \ {p} : x.pages[q] = o.pages[q]
    BY <1>1, <1>4, <1>6 DEF Joined
  <2>2. x.pages \in [Pages -> Node]
    BY <1>2, OperationFields
  <2>3. /\ r.pages[c] = [x.pages[c] EXCEPT !.parent = p]
        /\ \A q \in Pages \ {c} : r.pages[q] = x.pages[q]
    BY <1>4, <1>6, <2>2 DEF Reparented
  <2> QED BY <1>2, <2>1, <2>3 DEF Fostered
<1> QED BY <1>5, <1>6 DEF r, x

\* Two nodes of one kind with the same children.
Alike(a, b) ==
  /\ IsLeaf(b) <=> IsLeaf(a)
  /\ Kids(b) = Kids(a) /\ Len(b.cells) = Len(a.cells)
  /\ Open(b) <=> Open(a)
  /\ Apart(a) => Apart(b)

LEMMA KeyKeepsChildren ==
  ASSUME NEW o, Good(o), Grown(o), NEW s, Ready(o, s)
  PROVE  LET r == UpdateKey(o, s)
         IN /\ Steady(o, r)
            /\ ~Failed(r) => /\ ~Failed(o)
                             /\ \A q \in Pages : Alike(o.pages[q], r.pages[q])
                             /\ \A q \in Pages : r.pages[q].parent = o.pages[q].parent
<1> DEFINE p == s.parent.page
           node == o.pages[p]
           key == get_node_max_key(o.pages, s.old.page)
           n == s.old_max + 1
           cell == [node.cells[n] EXCEPT !.key = key]
           cells == [node.cells EXCEPT ![n] = cell]
           new == [node EXCEPT !.cells = cells]
           used == Use(o, {s.old})
           r == UpdateKey(o, s)
<1> SUFFICES /\ Steady(o, r)
             /\ ~Failed(r) => /\ ~Failed(o)
                              /\ \A q \in Pages : Alike(o.pages[q], r.pages[q])
                              /\ \A q \in Pages : r.pages[q].parent = o.pages[q].parent
  OBVIOUS
<1>0. /\ o \in Operations /\ Keeps(o, r) /\ o.pages \in [Pages -> Node]
  BY KeyUpdated, OperationFields DEF Good
<1>1. CASE s.old_max < Len(node.cells)
  <2>1. /\ node \in InternalNode /\ p \in Pages /\ ~IsLeaf(node)
        /\ node.cells \in Seq(InternalCell) /\ Len(node.cells) \in Nat
        /\ s.old.page \in Pages
    BY InnerNode DEF Ready, Inner
  <2>2. key \in Nat
    BY <1>0, <2>1, MaxKeyIsNat
  <2>3. n \in 1 .. Len(node.cells)
    BY <1>1, <2>1 DEF Ready
  <2>4. r = StoreNode(used, s.parent, new)
    BY <1>1 DEF UpdateKey
  <2>5. used \in Operations /\ used.pages = o.pages /\ used.num_pages = o.num_pages /\ FailsHalted(o, used)
    BY <1>0, UseKeeps, StoreFailsHalted DEF Keeps, Good
  <2> HIDE DEF node, key, n, used, r
  <2>6. cell \in InternalCell /\ cell.child = node.cells[n].child
    <3>1. node.cells[n] \in InternalCell
      BY <2>1, <2>3
    <3> QED BY <2>2, <3>1 DEF InternalCell
  <2> HIDE DEF cell
  <2>7. /\ cells \in Seq(InternalCell) /\ Len(cells) = Len(node.cells)
        /\ \A i \in 1 .. Len(node.cells) : cells[i].child = node.cells[i].child
    BY <2>1, <2>3, <2>6
  <2> HIDE DEF cells
  <2>8. /\ new \in InternalNode /\ new.parent = node.parent /\ new.right = node.right /\ new.cells = cells
    BY <2>1, <2>7 DEF InternalNode
  <2> HIDE DEF new
  <2>9. ~IsLeaf(new) /\ new \in Node
    BY <2>8, InternalFields
  <2>10. Alike(node, new)
    <3>1. Firsts(cells) = Firsts(node.cells)
      BY <2>7 DEF Firsts
    <3>2. FirstsApart(node.cells) => FirstsApart(cells)
      BY <2>7 DEF FirstsApart
    <3> QED BY <2>1, <2>7, <2>8, <2>9, <3>1, <3>2 DEF Alike, Kids, Open, Apart
  <2>11. p = s.parent.page
    OBVIOUS
  <2> HIDE DEF p
  <2>12. /\ r.num_pages = used.num_pages
         /\ ~Failed(r) => /\ ~Failed(used)
                          /\ \A q \in Pages : r.pages[q] = IF q = p THEN new ELSE used.pages[q]
         /\ FailsHalted(used, r)
    BY <2>1, <2>4, <2>5, <2>9, <2>11, StoredExactly
  <2>13. FailsHalted(o, r)
    BY <2>5, <2>12, FailsHaltedTransitive
  <2>14. ASSUME ~Failed(r)
         PROVE  /\ ~Failed(o)
                /\ \A q \in Pages : Alike(o.pages[q], r.pages[q])
                /\ \A q \in Pages : r.pages[q].parent = o.pages[q].parent
    <3>1. \A q \in Pages : r.pages[q] = IF q = p THEN new ELSE o.pages[q]
      BY <1>0, <2>5, <2>12, <2>14
    <3>2. o.pages[p] = node
      BY DEF node, p
    <3>3. ~Failed(o)
      BY <2>5, <2>12, <2>14 DEF FailsHalted
    <3>4. \A q \in Pages : Alike(o.pages[q], o.pages[q])
      BY DEF Alike
    <3> QED BY <2>8, <2>10, <3>1, <3>2, <3>3, <3>4
  <2> QED BY <1>0, <2>5, <2>12, <2>13, <2>14 DEF Steady, r
<1>2. CASE ~(s.old_max < Len(node.cells))
  <2>1. r = Use(o, {s.old, s.parent})
    BY <1>2 DEF UpdateKey
  <2> HIDE DEF r
  <2>2. r.pages = o.pages /\ r.num_pages = o.num_pages /\ FailsHalted(o, r)
    BY <1>0, <2>1, UseKeeps, StoreFailsHalted
  <2>3. \A q \in Pages : Alike(o.pages[q], o.pages[q])
    BY DEF Alike
  <2> QED BY <1>0, <2>2, <2>3 DEF Steady, FailsHalted, r
<1> QED BY <1>1, <1>2

LEMMA MovedExactly ==
  ASSUME NEW insert, Fills(insert), NEW o, Good(o), Grown(o), NEW s, Ready(o, s),
         Failed(o) \/ Room(o, s.new.page), NEW page \in Pages \ {s.new.page}, page < o.num_pages
  PROVE  LET r == MoveChild(o, s, page, insert)
         IN Steady(o, r) /\ (~Failed(r) => ~Failed(o) /\ Fostered(o.pages, r.pages, s.new.page, page))
<1> DEFINE new == s.new.page
           o1 == Use(o, {s.old})
           o2 == get_page(o1, page)
           ptr == Pointer(o2, page)
           r == SetParent(insert[Call(o2, new, page)], ptr, new)
<1>1. MoveChild(o, s, page, insert) = r
  BY DEF MoveChild
<1>2. o \in Operations /\ page # o.num_pages
  <2>1. o.num_pages \in Nat /\ page \in Nat
    BY PageNumbers DEF Good, Shaped
  <2> QED BY <2>1 DEF Good
<1>3. Steady(o, o1) /\ o1.pages = o.pages
  BY <1>2, UseKeeps, StoreFailsHalted DEF Steady
<1> HIDE DEF o1
<1>4. Good(o1) /\ o1 \in Operations /\ page # o1.num_pages
  BY <1>2, <1>3 DEF Steady, Keeps, Good
<1>5. Steady(o1, o2) /\ o2.pages = o1.pages
  BY <1>4, RequestKeeps, RequestFailsHalted DEF Steady
<1>6. ptr.page = page
  BY DEF Pointer
<1> HIDE DEF o2, ptr
<1>7. Steady(o, o2) /\ o2.pages = o.pages
  BY <1>3, <1>5, SteadyTransitive
<1>8. /\ Good(o2) /\ Grown(o2) /\ Inner(o2, new) /\ page < o2.num_pages
      /\ page \in Pages \ {new}
      /\ Failed(o2) \/ Room(o2, new)
  <2>1. Failed(o) => Failed(o2)
    BY <1>7 DEF Steady, FailsHalted
  <2> QED BY <1>7, <2>1, KeepsContext DEF Steady, Ready, Room
<1>9. Steady(o2, r) /\ (~Failed(r) => ~Failed(o2) /\ Fostered(o2.pages, r.pages, new, page))
  BY ONLY Fills(insert), <1>6, <1>8, ChildFostered
<1> HIDE DEF r
<1>10. Steady(o, r)
  BY <1>7, <1>9, SteadyTransitive
<1>11. ~Failed(r) => ~Failed(o)
  BY <1>7, <1>9 DEF Steady, FailsHalted
<1> QED BY <1>1, <1>7, <1>9, <1>10, <1>11

LEMMA ShortenedExactly ==
  ASSUME NEW o, Good(o), Grown(o), NEW s, Ready(o, s),
         \/ Failed(o)
         \/ /\ Len(o.pages[s.old.page].cells) = INTERNAL_NODE_MAX_CELLS
            /\ o.pages[s.old.page].right \in Pages
  PROVE  LET r == ShortenOld(o, s)
         IN /\ Steady(o, r)
            /\ ~Failed(r) =>
                 /\ ~Failed(o)
                 /\ r.pages[s.old.page] = OldShortened(o.pages[s.old.page], Kept)
                 /\ \A q \in Pages \ {s.old.page} : r.pages[q] = o.pages[q]
<1> DEFINE old == s.old.page
           node == OldShortened(o.pages[old], Kept)
           r == StoreNode(o, s.old, node)
<1>1. ShortenOld(o, s) = r
  BY DEF ShortenOld
<1>2. Keeps(o, r)
  <2>1. Failed(o) \/ Len(o.pages[old].cells) >= INTERNAL_NODE_MAX_CELLS
    <3>1. \A n : n = 3 => n >= 3
      OBVIOUS
    <3> QED BY <3>1, Zenon DEF INTERNAL_NODE_MAX_CELLS
  <2> QED BY <1>1, <2>1, OldIsShortened
<1>3. o \in Operations /\ o.pages \in [Pages -> Node] /\ old \in Pages
  BY OperationFields DEF Good, Ready, Inner
<1>4. /\ FailsHalted(o, r) /\ r.num_pages = o.num_pages
      /\ ~Failed(r) => ~Failed(o) /\ r.pages = [o.pages EXCEPT ![old] = node]
  <2>1. Failed(o) \/ node \in Node
    <3>1. o.pages[old] \in InternalNode
      BY InnerNode DEF Ready
    <3>2. ASSUME ~Failed(o) PROVE node \in InternalNode
      BY <3>1, <3>2, Shortened
    <3> QED BY <3>2, InternalFields
  <2> HIDE DEF node
  <2>2. FailsHalted(o, r)
    BY <1>3, StoreFailsHalted
  <2>3. /\ r.num_pages = o.num_pages
        /\ ~Failed(r) => ~Failed(o) /\ r.pages = [o.pages EXCEPT ![s.old.page] = node]
    BY ONLY <1>3, <2>1, NodeStored
  <2> QED BY <2>2, <2>3
<1> HIDE DEF node, r
<1>5. ~Failed(r) => r.pages[old] = node /\ \A q \in Pages \ {old} : r.pages[q] = o.pages[q]
  BY <1>3, <1>4
<1> QED BY <1>1, <1>2, <1>4, <1>5 DEF Steady, node

LEMMA AlikeTransitive ==
  ASSUME NEW a, NEW b, NEW c, Alike(a, b), Alike(b, c)
  PROVE  Alike(a, c)
BY DEF Alike

LEMMA FosteredPages ==
  ASSUME NEW a \in [Pages -> Node], NEW b, NEW p \in Pages, NEW c \in Pages \ {p}, Fostered(a, b, p, c)
  PROVE  /\ \A q \in Pages \ {p} : Alike(a[q], b[q])
         /\ \A q \in Pages : b[q].parent = IF q = c THEN p ELSE a[q].parent
<1>1. /\ b[p].parent = a[p].parent /\ b[c] = [a[c] EXCEPT !.parent = p]
      /\ \A q \in Pages \ {p, c} : b[q] = a[q]
  BY DEF Fostered, NodeJoined
<1>2. Alike(a[c], b[c]) /\ b[c].parent = p
  <2> DEFINE node == a[c]
             new == [node EXCEPT !.parent = p]
  <2>1. node \in Node
    OBVIOUS
  <2>2. b[c] = new
    BY <1>1
  <2> HIDE DEF node
  <2>3. new \in Node /\ new.parent = p /\ new.cells = node.cells /\ (IsLeaf(new) <=> IsLeaf(node))
    BY <2>1, NodeReparented
  <2>4. ~IsLeaf(node) => new.right = node.right
    BY <2>1, NodeFields DEF InternalNode
  <2>5. IsLeaf(node) => (Apart(node) => Apart(new))
    <3>1. IsLeaf(node) => new.right = node.right
      BY <2>1, NodeFields DEF LeafNode
    <3> QED BY <2>3, <3>1 DEF Apart
  <2> HIDE DEF new
  <2>6. Alike(node, new)
    BY <2>3, <2>4, <2>5 DEF Alike, Kids, Open, Apart
  <2> QED BY <2>2, <2>3, <2>6 DEF node
<1>3. \A q \in Pages : Alike(a[q], a[q])
  BY DEF Alike
<1> QED BY <1>1, <1>2, <1>3

-----------------------------------------------------------------------------
(***************************************************************************)
(* A split: the children are shared between the old node and the new.      *)
(***************************************************************************)

\* What a split starts from: a full node with its pages, an empty one, and
\* children that are neither.
Parting(o, s) ==
  LET old == s.old.page
      new == s.new.page
  IN /\ Ready(o, s) /\ ~Failed(o) /\ old # new
     /\ Open(o.pages[new]) /\ o.pages[new].cells = <<>>
     /\ Len(o.pages[old].cells) = INTERNAL_NODE_MAX_CELLS /\ o.pages[old].right \in Pages
     /\ \A k \in Kids(o.pages[old]) \cup {s.child.page} : k < o.num_pages /\ k \notin {old, new}

\* An internal node with two children, which are two where they were.
Pair(a, b, k, l) ==
  /\ ~IsLeaf(b) /\ ~Open(b) /\ b.right \in Pages
  /\ Kids(b) = {k, l} /\ Len(b.cells) = 1
  /\ Apart(a) => Apart(b)

HalvedNode(a, b, old, new, k1, k2, k3, k4) ==
  /\ Quarters(a[old], k1, k2, k3, k4)
  /\ Pair(a[old], b[old], k1, k2) /\ Pair(a[old], b[new], k3, k4)
  /\ \A q \in Pages \ {old, new} : Alike(a[q], b[q])
  /\ \A q \in Pages : b[q].parent = IF q \in {k3, k4} THEN new ELSE a[q].parent

\* The two children past the middle move to the new node.
LEMMA TwoMoved ==
  ASSUME NEW insert, Fills(insert), NEW o, Good(o), Grown(o), NEW s, Parting(o, s),
         NEW k3 \in Kids(o.pages[s.old.page]), NEW k4 \in Kids(o.pages[s.old.page]),
         NEW r, r = MoveChild(MoveChild(o, s, k4, insert), s, k3, insert)
  PROVE  LET new == s.new.page
         IN /\ Steady(o, r)
            /\ ~Failed(r) =>
                 /\ r.pages[s.old.page] = o.pages[s.old.page]
                 /\ ~IsLeaf(r.pages[new]) /\ ~Open(r.pages[new]) /\ r.pages[new].right \in Pages
                 /\ Kids(r.pages[new]) = {k3, k4} /\ Len(r.pages[new].cells) = 1
                 /\ k3 # k4 => Apart(r.pages[new])
                 /\ \A q \in Pages \ {new} : Alike(o.pages[q], r.pages[q])
                 /\ \A q \in Pages : r.pages[q].parent = IF q \in {k3, k4} THEN new ELSE o.pages[q].parent
<1> DEFINE old == s.old.page
           new == s.new.page
           m == MoveChild(o, s, k4, insert)
<1>1. r = MoveChild(m, s, k3, insert)
  OBVIOUS
<1>2. /\ old \in Pages /\ new \in Pages /\ old # new /\ Ready(o, s) /\ Inner(o, new) /\ ~Failed(o)
      /\ o.num_pages \in Nat /\ o.pages \in [Pages -> Node] /\ o.pages[old] \in InternalNode
      /\ o.pages[new] \in InternalNode
  BY InnerNode DEF Parting, Ready, Inner, Good, Shaped
<1>3. /\ {k3, k4} \subseteq Pages \ {old, new} /\ k3 < o.num_pages /\ k4 < o.num_pages
  <2>1. k3 < o.num_pages /\ k4 < o.num_pages /\ k3 \notin {old, new} /\ k4 \notin {old, new}
    BY DEF Parting
  <2>2. Kids(o.pages[old]) \subseteq Nat
    BY <1>2, InternalFields, PageNumbers DEF Kids
  <2>3. o.num_pages <= FILE_PAGES_NUM /\ FILE_PAGES_NUM \in Nat
    BY PagePointersAssumption DEF PagePointersAssumption, Good, Shaped
  <2> QED BY <1>2, <2>1, <2>2, <2>3 DEF Pages
<1>4. /\ Open(o.pages[new]) /\ o.pages[new].cells = <<>> /\ Room(o, new)
      /\ Len(o.pages[new].cells) = 0 /\ Kids(o.pages[new]) = {} /\ Apart(o.pages[new])
  <2>1. Open(o.pages[new]) /\ o.pages[new].cells = <<>>
    BY DEF Parting
  <2>2. Firsts(<<>>) = {} /\ FirstsApart(<<>>)
    BY DEF Firsts, FirstsApart
  <2> QED BY <2>1, <2>2 DEF Room, Open, Kids, Apart, INTERNAL_NODE_MAX_CELLS
<1>5. Steady(o, m) /\ (~Failed(m) => Fostered(o.pages, m.pages, new, k4))
  BY <1>2, <1>3, <1>4, MovedExactly
<1> HIDE DEF m
<1>6. Good(m) /\ Grown(m) /\ Ready(m, s) /\ m.num_pages = o.num_pages /\ m.pages \in [Pages -> Node]
  BY <1>2, <1>5, ReadyKept, OperationFields DEF Steady, Good
<1>7. ASSUME ~Failed(m)
      PROVE  /\ m.pages[old] = o.pages[old]
             /\ ~IsLeaf(m.pages[new]) /\ ~Open(m.pages[new]) /\ m.pages[new].right \in Pages
             /\ Kids(m.pages[new]) = {k4} /\ Len(m.pages[new].cells) = 0 /\ Apart(m.pages[new])
             /\ Room(m, new)
             /\ \A q \in Pages \ {new} : Alike(o.pages[q], m.pages[q])
             /\ \A q \in Pages : m.pages[q].parent = IF q = k4 THEN new ELSE o.pages[q].parent
  <2>1. Fostered(o.pages, m.pages, new, k4)
    BY <1>5, <1>7
  <2>2. /\ \A q \in Pages \ {new} : Alike(o.pages[q], m.pages[q])
        /\ \A q \in Pages : m.pages[q].parent = IF q = k4 THEN new ELSE o.pages[q].parent
    BY <1>2, <1>3, <2>1, FosteredPages
  <2>3. m.pages[old] = o.pages[old] /\ NodeJoined(o.pages[new], m.pages[new], k4)
    BY <1>2, <1>3, <2>1 DEF Fostered
  <2>4. /\ m.pages[new] \in InternalNode /\ m.pages[new].right \in Pages
        /\ Kids(m.pages[new]) = {k4} /\ Len(m.pages[new].cells) = 0 /\ Apart(m.pages[new])
    BY <1>4, <2>3 DEF NodeJoined
  <2>5. ~IsLeaf(m.pages[new]) /\ ~Open(m.pages[new])
    BY <2>4, InternalFields, PageNumbers DEF Open
  <2>6. m.pages[new].right = k4
    BY <2>4, <2>5, PageNumbers DEF Kids
  <2>7. Room(m, new)
    BY <1>3, <1>6, <2>4, <2>6 DEF Room, INTERNAL_NODE_MAX_CELLS
  <2> QED BY <2>2, <2>3, <2>4, <2>5, <2>7
<1>8. Steady(m, r) /\ (~Failed(r) => ~Failed(m) /\ Fostered(m.pages, r.pages, new, k3))
  <2>1. (Failed(m) \/ Room(m, s.new.page)) /\ k3 \in Pages \ {s.new.page} /\ k3 < m.num_pages
    BY <1>3, <1>6, <1>7
  <2> QED BY ONLY Fills(insert), <1>1, <1>6, <2>1, MovedExactly
<1>9. Steady(o, r)
  BY <1>5, <1>8, SteadyTransitive
<1>10. ASSUME ~Failed(r)
       PROVE  /\ r.pages[old] = o.pages[old]
              /\ ~IsLeaf(r.pages[new]) /\ ~Open(r.pages[new]) /\ r.pages[new].right \in Pages
              /\ Kids(r.pages[new]) = {k3, k4} /\ Len(r.pages[new].cells) = 1
              /\ k3 # k4 => Apart(r.pages[new])
              /\ \A q \in Pages \ {new} : Alike(o.pages[q], r.pages[q])
              /\ \A q \in Pages : r.pages[q].parent = IF q \in {k3, k4} THEN new ELSE o.pages[q].parent
  <2>1. ~Failed(m) /\ Fostered(m.pages, r.pages, new, k3)
    BY <1>8, <1>10
  <2>2. /\ \A q \in Pages \ {new} : Alike(m.pages[q], r.pages[q])
        /\ \A q \in Pages : r.pages[q].parent = IF q = k3 THEN new ELSE m.pages[q].parent
    BY <1>2, <1>3, <1>6, <2>1, FosteredPages
  <2>3. r.pages[old] = m.pages[old] /\ NodeJoined(m.pages[new], r.pages[new], k3)
    BY <1>2, <1>3, <2>1 DEF Fostered
  <2>4. /\ r.pages[new] \in InternalNode /\ r.pages[new].right \in Pages
        /\ Kids(r.pages[new]) = {k3, k4} /\ Len(r.pages[new].cells) = 1
        /\ k3 # k4 => Apart(r.pages[new])
    <3>1. {k4} \cup {k3} = {k3, k4} /\ (k3 # k4 => k3 \notin {k4})
      OBVIOUS
    <3>2. /\ ~Open(m.pages[new]) /\ Kids(m.pages[new]) = {k4} /\ Len(m.pages[new].cells) = 0
          /\ Apart(m.pages[new])
      BY <1>7, <2>1
    <3> HIDE DEF new
    <3> QED BY ONLY <2>3, <3>1, <3>2 DEF NodeJoined
  <2>5. ~IsLeaf(r.pages[new]) /\ ~Open(r.pages[new])
    BY <2>4, InternalFields, PageNumbers DEF Open
  <2>6. \A q \in Pages \ {new} : Alike(o.pages[q], r.pages[q])
    BY <1>7, <2>1, <2>2, AlikeTransitive
  <2>7. \A q \in Pages : r.pages[q].parent = IF q \in {k3, k4} THEN new ELSE o.pages[q].parent
    BY <1>7, <2>1, <2>2
  <2> QED BY <1>7, <2>1, <2>3, <2>4, <2>5, <2>6, <2>7
<1> QED BY <1>1, <1>9, <1>10

LEMMA ChildrenHalved ==
  ASSUME NEW insert, Fills(insert), NEW o, Good(o), Grown(o), NEW s, Parting(o, s)
  PROVE  LET r == ShortenOld(MoveChildren(o, s, insert), s)
         IN /\ Steady(o, r)
            /\ ~Failed(r) => \E k1, k2, k3, k4 \in Pages :
                               HalvedNode(o.pages, r.pages, s.old.page, s.new.page, k1, k2, k3, k4)
<1> DEFINE old == s.old.page
           new == s.new.page
           node == o.pages[old]
           k1 == node.cells[1].child
           k2 == node.cells[2].child
           k3 == Children(node)[3]
           k4 == Children(node)[4]
           m == MoveChildren(o, s, insert)
           r == ShortenOld(m, s)
           short == OldShortened(node, Kept)
<1>1. /\ old \in Pages /\ new \in Pages /\ old # new /\ Ready(o, s) /\ ~Failed(o)
      /\ o.pages \in [Pages -> Node] /\ node \in InternalNode
      /\ node.right \in Pages /\ Len(node.cells) = INTERNAL_NODE_MAX_CELLS
  BY InnerNode DEF Parting, Ready, Inner, Good
<1>2. /\ Quarters(node, k1, k2, k3, k4)
      /\ short \in InternalNode /\ short.right \in Pages /\ Kids(short) = {k1, k2} /\ Len(short.cells) = 1
      /\ short.parent = node.parent /\ (Apart(node) => Apart(short))
  <2> HIDE DEF node
  <2> QED BY <1>1, Shortened
<1>0. k3 = Children(o.pages[s.old.page])[3] /\ k4 = Children(o.pages[s.old.page])[4]
  OBVIOUS
<1> HIDE DEF k1, k2, k3, k4, short
<1>3. k3 \in Kids(node) /\ k4 \in Kids(node)
  BY <1>2 DEF Quarters
<1>4. /\ Steady(o, m)
      /\ ~Failed(m) =>
           /\ m.pages[old] = node
           /\ ~IsLeaf(m.pages[new]) /\ ~Open(m.pages[new]) /\ m.pages[new].right \in Pages
           /\ Kids(m.pages[new]) = {k3, k4} /\ Len(m.pages[new].cells) = 1
           /\ k3 # k4 => Apart(m.pages[new])
           /\ \A q \in Pages \ {new} : Alike(o.pages[q], m.pages[q])
           /\ \A q \in Pages : m.pages[q].parent = IF q \in {k3, k4} THEN new ELSE o.pages[q].parent
  <2>1. m = MoveChild(MoveChild(o, s, k4, insert), s, k3, insert)
    BY <1>0, MovedInTurn
  <2> HIDE DEF m
  <2> QED BY ONLY Fills(insert), Good(o), Grown(o), Parting(o, s), <1>3, <2>1, TwoMoved
<1> HIDE DEF m
<1>5. Good(m) /\ Grown(m) /\ Ready(m, s)
  BY <1>1, <1>4, ReadyKept DEF Steady
<1>6. /\ Steady(m, r)
      /\ ~Failed(r) => /\ ~Failed(m)
                       /\ r.pages[old] = OldShortened(m.pages[old], Kept)
                       /\ \A q \in Pages \ {old} : r.pages[q] = m.pages[q]
  <2>1. \/ Failed(m)
        \/ /\ Len(m.pages[s.old.page].cells) = INTERNAL_NODE_MAX_CELLS
           /\ m.pages[s.old.page].right \in Pages
    BY <1>1, <1>4
  <2> QED BY <1>5, <2>1, ShortenedExactly
<1> HIDE DEF r
<1>7. Steady(o, r)
  BY <1>4, <1>6, SteadyTransitive
<1>8. ASSUME ~Failed(r) PROVE HalvedNode(o.pages, r.pages, old, new, k1, k2, k3, k4)
  <2>1. /\ ~Failed(m) /\ r.pages[old] = short
        /\ \A q \in Pages \ {old} : r.pages[q] = m.pages[q]
    BY <1>4, <1>6, <1>8 DEF short
  <2>2. Pair(node, r.pages[old], k1, k2)
    BY <1>2, <2>1, InternalFields, PageNumbers DEF Pair, Open
  <2>3. Pair(node, r.pages[new], k3, k4)
    <3>1. Apart(node) => k3 # k4
      BY <1>2 DEF Quarters
    <3> QED BY <1>1, <1>4, <2>1, <3>1 DEF Pair
  <2>4. \A q \in Pages \ {old, new} : Alike(o.pages[q], r.pages[q])
    BY <1>4, <2>1
  <2>5. \A q \in Pages : r.pages[q].parent = IF q \in {k3, k4} THEN new ELSE o.pages[q].parent
    <3>1. r.pages[old].parent = m.pages[old].parent
      BY <1>2, <1>4, <2>1
    <3> QED BY <1>4, <2>1, <3>1
  <2> QED BY <1>2, <2>2, <2>3, <2>4, <2>5 DEF HalvedNode
<1>9. {k1, k2, k3, k4} \subseteq Pages
  BY <1>2 DEF Quarters
<1> QED BY <1>7, <1>8, <1>9 DEF m, r

\* Tree b is tree a with the children of page old, and child c, shared
\* between pages old and new.
Parted(a, b, old, new, c) ==
  \E k1, k2, k3, k4 \in Pages, to \in {old, new} :
    /\ Quarters(a[old], k1, k2, k3, k4)
    /\ Kids(b[old]) = {k1, k2} \cup (IF to = old THEN {c} ELSE {})
    /\ Kids(b[new]) = {k3, k4} \cup (IF to = new THEN {c} ELSE {})
    /\ \A p \in {old, new} : /\ ~IsLeaf(b[p]) /\ ~Open(b[p]) /\ Len(b[p].cells) \in 1 .. 2
                             /\ Apart(a[old]) /\ c \notin Kids(a[old]) => Apart(b[p])
    /\ \A q \in Pages \ {old, new} : Alike(a[q], b[q])
    /\ \A q \in Pages : b[q].parent = IF q = c THEN to
                                      ELSE IF q \in {k3, k4} THEN new ELSE a[q].parent

LEMMA SplitMade ==
  ASSUME NEW insert, Fills(insert), NEW o, Good(o), Grown(o), NEW s, Parting(o, s)
  PROVE  LET r == UpdateKey(PlaceChild(ShortenOld(MoveChildren(o, s, insert), s), s, insert), s)
         IN /\ Steady(o, r)
            /\ ~Failed(r) => Parted(o.pages, r.pages, s.old.page, s.new.page, s.child.page)
<1> DEFINE old == s.old.page
           new == s.new.page
           c == s.child.page
           h == ShortenOld(MoveChildren(o, s, insert), s)
           to == IF s.child_max < get_node_max_key(h.pages, old) THEN old ELSE new
           g == SetParent(insert[Call(h, to, c)], s.child, to)
           r == UpdateKey(g, s)
<1>1. PlaceChild(h, s, insert) = g
  BY DEF PlaceChild
<1>2. /\ Steady(o, h)
      /\ ~Failed(h) => \E k1, k2, k3, k4 \in Pages : HalvedNode(o.pages, h.pages, old, new, k1, k2, k3, k4)
  BY ChildrenHalved
<1>3. to \in {old, new}
  OBVIOUS
<1> HIDE DEF h, to
<1>4. /\ old \in Pages /\ new \in Pages /\ old # new /\ Ready(o, s) /\ ~Failed(o)
      /\ o.num_pages \in Nat /\ o.pages \in [Pages -> Node]
      /\ \A k \in Kids(o.pages[old]) \cup {c} : k < o.num_pages /\ k \notin {old, new}
      /\ c \in Pages /\ c < o.num_pages /\ c \notin {old, new}
  BY InnerNode DEF Parting, Ready, Inner, Good, Shaped
<1>5. Good(h) /\ Grown(h) /\ Ready(h, s) /\ h.num_pages = o.num_pages /\ h.pages \in [Pages -> Node]
  BY <1>2, <1>4, ReadyKept, OperationFields DEF Steady, Good
<1>6. ASSUME NEW k1 \in Pages, NEW k2 \in Pages, NEW k3 \in Pages, NEW k4 \in Pages,
             HalvedNode(o.pages, h.pages, old, new, k1, k2, k3, k4)
      PROVE  Room(h, to)
  <2>1. \E k, l \in {k1, k2, k3, k4} : Pair(o.pages[old], h.pages[to], k, l)
    BY <1>3, <1>6 DEF HalvedNode
  <2>2. {k1, k2, k3, k4} = Kids(o.pages[old])
    BY <1>6 DEF HalvedNode, Quarters
  <2>3. /\ Len(h.pages[to].cells) = 1 /\ h.pages[to].right \in Pages /\ ~IsLeaf(h.pages[to])
        /\ Kids(h.pages[to]) \subseteq Kids(o.pages[old])
    BY <2>1, <2>2 DEF Pair
  <2>4. h.pages[to].right \in Kids(h.pages[to])
    BY <2>3, PageNumbers DEF Kids
  <2> QED BY <1>4, <1>5, <2>3, <2>4 DEF Room, INTERNAL_NODE_MAX_CELLS
<1>7. Failed(h) \/ Room(h, to)
  BY <1>2, <1>6
<1>8. Steady(h, g) /\ (~Failed(g) => ~Failed(h) /\ Fostered(h.pages, g.pages, to, c))
  <2>1. Inner(h, to) /\ c \in Pages \ {to} /\ c < h.num_pages
    BY <1>3, <1>4, <1>5 DEF Ready
  <2> QED BY ONLY Fills(insert), <1>5, <1>7, <2>1, ChildFostered
<1> HIDE DEF g
<1>9. Good(g) /\ Grown(g) /\ Ready(g, s)
  BY <1>5, <1>8, ReadyKept DEF Steady
<1>10. /\ Steady(g, r)
       /\ ~Failed(r) => /\ ~Failed(g)
                        /\ \A q \in Pages : Alike(g.pages[q], r.pages[q])
                        /\ \A q \in Pages : r.pages[q].parent = g.pages[q].parent
  BY <1>9, KeyKeepsChildren
<1> HIDE DEF r
<1>11. Steady(o, r)
  BY <1>2, <1>5, <1>8, <1>10, SteadyTransitive
<1>12. ASSUME ~Failed(r) PROVE Parted(o.pages, r.pages, old, new, c)
  <2>1. PICK k1, k2, k3, k4 \in Pages : HalvedNode(o.pages, h.pages, old, new, k1, k2, k3, k4)
    BY <1>2, <1>8, <1>10, <1>12
  <2>2. /\ Fostered(h.pages, g.pages, to, c)
        /\ \A q \in Pages : Alike(g.pages[q], r.pages[q])
        /\ \A q \in Pages : r.pages[q].parent = g.pages[q].parent
    BY <1>8, <1>10, <1>12
  <2>3. /\ \A q \in Pages \ {to} : Alike(h.pages[q], g.pages[q])
        /\ \A q \in Pages : g.pages[q].parent = IF q = c THEN to ELSE h.pages[q].parent
    <3>1. to \in Pages /\ c \in Pages \ {to}
      BY <1>3, <1>4
    <3> QED BY ONLY <1>5, <2>2, <3>1, FosteredPages
  <2>4. /\ \A q \in Pages \ {old, new} : Alike(o.pages[q], h.pages[q])
        /\ \A q \in Pages : h.pages[q].parent = IF q \in {k3, k4} THEN new ELSE o.pages[q].parent
        /\ Quarters(o.pages[old], k1, k2, k3, k4)
        /\ Pair(o.pages[old], h.pages[old], k1, k2) /\ Pair(o.pages[old], h.pages[new], k3, k4)
    BY <2>1 DEF HalvedNode
  <2>5. \A q \in Pages \ {old, new} : Alike(o.pages[q], r.pages[q])
    BY <1>3, <2>2, <2>3, <2>4, AlikeTransitive
  <2>6. \A q \in Pages : r.pages[q].parent = IF q = c THEN to
                                      ELSE IF q \in {k3, k4} THEN new ELSE o.pages[q].parent
    BY <2>2, <2>3, <2>4
  <2>7. ASSUME NEW p \in {old, new}, NEW k \in Pages, NEW l \in Pages,
               Pair(o.pages[old], h.pages[p], k, l), {k, l} \subseteq Kids(o.pages[old])
        PROVE  /\ Kids(r.pages[p]) = {k, l} \cup (IF to = p THEN {c} ELSE {})
               /\ ~IsLeaf(r.pages[p]) /\ ~Open(r.pages[p]) /\ Len(r.pages[p].cells) \in 1 .. 2
               /\ Apart(o.pages[old]) /\ c \notin Kids(o.pages[old]) => Apart(r.pages[p])
    <3>1. p \in Pages /\ Alike(g.pages[p], r.pages[p])
      BY <1>4, <2>2
    <3>2. CASE to = p
      <4>1. NodeJoined(h.pages[p], g.pages[p], c)
        BY <2>2, <3>2 DEF Fostered
      <4>2. g.pages[p] \in InternalNode /\ ~IsLeaf(g.pages[p]) /\ ~Open(g.pages[p])
        BY <4>1, InternalFields, PageNumbers DEF NodeJoined, Open
      <4>3. /\ Kids(g.pages[p]) = {k, l} \cup {c} /\ Len(g.pages[p].cells) = 2
            /\ Apart(o.pages[old]) /\ c \notin Kids(o.pages[old]) => Apart(g.pages[p])
        BY <2>7, <4>1 DEF NodeJoined, Pair
      <4> QED BY <3>1, <3>2, <4>2, <4>3 DEF Alike
    <3>3. CASE to # p
      <4>1. Alike(h.pages[p], g.pages[p])
        BY <2>3, <3>1, <3>3
      <4>2. Alike(h.pages[p], r.pages[p])
        BY <3>1, <4>1, AlikeTransitive
      <4> QED BY <2>7, <3>3, <4>2 DEF Alike, Pair
    <3> QED BY <3>2, <3>3
  <2>8. {k1, k2, k3, k4} = Kids(o.pages[old])
    BY <2>4 DEF Quarters
  <2>9. /\ Kids(r.pages[old]) = {k1, k2} \cup (IF to = old THEN {c} ELSE {})
        /\ Kids(r.pages[new]) = {k3, k4} \cup (IF to = new THEN {c} ELSE {})
        /\ \A p \in {old, new} : /\ ~IsLeaf(r.pages[p]) /\ ~Open(r.pages[p]) /\ Len(r.pages[p].cells) \in 1 .. 2
                                 /\ Apart(o.pages[old]) /\ c \notin Kids(o.pages[old]) => Apart(r.pages[p])
    BY <2>4, <2>7, <2>8
  <2> HIDE DEF old, new, c
  <2> QED BY ONLY <1>3, <2>4, <2>5, <2>6, <2>9 DEF Parted
<1> QED BY <1>1, <1>11, <1>12 DEF h, to, g, r

-----------------------------------------------------------------------------
(***************************************************************************)
(* A new root: the children of the old one are told of the page it moved   *)
(* to.                                                                     *)
(***************************************************************************)

LEMMA AdoptedExactly ==
  ASSUME NEW o \in Operations, NEW left, left.page \in Pages, NEW child \in Pages, child < o.num_pages
  PROVE  LET r == AdoptChild(o, left, child)
         IN /\ r \in Operations /\ r.num_pages = o.num_pages /\ FailsHalted(o, r)
            /\ ~Failed(r) => ~Failed(o) /\ r.pages = Reparented(o.pages, child, left.page)
<1> DEFINE o1 == Use(o, {left})
           o2 == get_page(o1, child)
           ptr == Pointer(o2, child)
           r == SetParent(o2, ptr, left.page)
<1>1. AdoptChild(o, left, child) = r
  BY DEF AdoptChild
<1>2. o1 \in Operations /\ o1.pages = o.pages /\ o1.num_pages = o.num_pages /\ FailsHalted(o, o1)
  BY PointersUsed, StoreFailsHalted
<1> HIDE DEF o1
<1>3. child # o1.num_pages
  <2>1. o.num_pages \in Nat /\ child \in Nat
    BY OperationFields, PageNumbers
  <2> QED BY <1>2, <2>1
<1>4. o2 \in Operations /\ o2.pages = o1.pages /\ o2.num_pages = o1.num_pages /\ FailsHalted(o1, o2)
  BY <1>2, <1>3, PageRequested, RequestFailsHalted
<1>5. ptr.page = child
  BY DEF Pointer
<1> HIDE DEF o2, ptr
<1>6. /\ FailsHalted(o2, r) /\ r \in Operations /\ r.num_pages = o2.num_pages
      /\ ~Failed(r) => ~Failed(o2) /\ r.pages = Reparented(o2.pages, child, left.page)
  BY <1>4, <1>5, ParentSetExactly
<1> HIDE DEF r
<1>7. FailsHalted(o, r)
  BY <1>2, <1>4, <1>6, FailsHaltedTransitive
<1> QED BY <1>1, <1>2, <1>4, <1>6, <1>7 DEF FailsHalted

\* Pages told of a new parent.
Told(a, told, parent) ==
  [q \in Pages |-> IF q \in told THEN [a[q] EXCEPT !.parent = parent] ELSE a[q]]

LEMMA ToldOneMore ==
  ASSUME NEW a \in [Pages -> Node], NEW told \in SUBSET Pages, NEW c \in Pages, NEW p \in Pages
  PROVE  Reparented(Told(a, told, p), c, p) = Told(a, told \cup {c}, p)
<1> DEFINE b == Told(a, told, p)
           new == [b[c] EXCEPT !.parent = p]
<1>1. new = [a[c] EXCEPT !.parent = p]
  <2> DEFINE node == a[c]
             once == [node EXCEPT !.parent = p]
  <2>1. node \in Node
    OBVIOUS
  <2>2. b[c] = IF c \in told THEN once ELSE node
    BY DEF Told
  <2> HIDE DEF node
  <2>3. [once EXCEPT !.parent = p] = once
    BY <2>1 DEF Node, LeafNode, InternalNode
  <2> HIDE DEF once, b
  <2>4. CASE c \in told
    BY <2>2, <2>3, <2>4 DEF once, node
  <2>5. CASE c \notin told
    BY <2>2, <2>5 DEF once, node
  <2> QED BY <2>4, <2>5
<1>2. Reparented(b, c, p) = [b EXCEPT ![c] = new]
  BY DEF Reparented
<1> HIDE DEF new
<1> QED BY <1>1, <1>2 DEF Told

LEMMA AdoptedInTurn ==
  ASSUME NEW o \in Operations, NEW left, left.page \in Pages, ~IsLeaf(o.pages[left.page]),
         NEW children, children = Children(o.pages[left.page]), NEW n \in Nat, n = Len(children)
  PROVE  \E adopted : /\ adopted[0] = o
                      /\ \A i \in 1 .. n : adopted[i] = AdoptChild(adopted[i - 1], left, children[i])
                      /\ AdoptChildren(o, left) = adopted[n]
<1> DEFINE Turn(f, i) == IF i = 0 THEN o ELSE AdoptChild(f[i - 1], left, children[i])
           adopted == CHOOSE f : f = [i \in 0 .. n |-> Turn(f, i)]
<1>1. ASSUME NEW x \in Operations, NEW child PROVE AdoptChild(x, left, child) \in Operations
  <2> DEFINE o1 == Use(x, {left})
             o2 == get_page(o1, child)
             ptr == Pointer(o2, child)
             old == o2.pages[ptr.page]
             new == [old EXCEPT !.parent = left.page]
  <2>1. o1 \in Operations
    BY PointersUsed
  <2> HIDE DEF o1
  <2>2. o2 \in Operations /\ (~Failed(o2) => child \in Pages)
    BY <2>1, PageRequested
  <2>3. ptr.page = child
    BY DEF Pointer
  <2> HIDE DEF o2, ptr
  <2>4. ASSUME ~Failed(o2) PROVE ptr.page \in Pages /\ new \in Node
    <3>1. old \in Node
      BY <2>2, <2>3, <2>4, OperationFields
    <3> HIDE DEF old
    <3> QED BY <2>2, <2>3, <2>4, <3>1, NodeReparented
  <2>5. StoreNode(o2, ptr, new) \in Operations
    <3> HIDE DEF new
    <3> QED BY <2>2, <2>4, NodeStored
  <2>6. AdoptChild(x, left, child) = IF Failed(o2) THEN o2 ELSE StoreNode(o2, ptr, new)
    BY DEF AdoptChild, SetParent, o2, o1, ptr
  <2> QED BY <2>2, <2>5, <2>6
<1>2. \E f : f = [i \in 0 .. n |-> Turn(f, i)]
  <2> DEFINE step == [i \in 1 .. n |-> [x \in Operations |-> AdoptChild(x, left, children[i])]]
  <2>1. step \in [1 .. n -> [Operations -> Operations]]
    BY <1>1
  <2> HIDE DEF step
  <2>2. PICK f \in [0 .. n -> Operations] : f[0] = o /\ \A i \in 1 .. n : f[i] = step[i][f[i - 1]]
    <3> DEFINE S == Operations
    <3>1. o \in S /\ step \in [1 .. n -> [S -> S]] /\ n \in Nat
      BY <2>1
    <3> HIDE DEF S
    <3>2. \E f \in [0 .. n -> S] : f[0] = o /\ \A i \in 1 .. n : f[i] = step[i][f[i - 1]]
      BY ONLY <3>1, Loop
    <3> QED BY <3>2 DEF S
  <2>3. ASSUME NEW i \in 0 .. n PROVE f[i] = Turn(f, i)
    <3>1. CASE i = 0
      BY <2>2, <3>1
    <3>2. CASE i # 0
      <4>1. i \in 1 .. n /\ i - 1 \in 0 .. n
        BY <3>2
      <4>2. f[i - 1] \in Operations /\ f[i] = step[i][f[i - 1]]
        BY <2>2, <4>1
      <4> QED BY <3>2, <4>1, <4>2 DEF step
    <3> QED BY <3>1, <3>2
  <2>4. f = [i \in 0 .. n |-> Turn(f, i)]
    <3> HIDE DEF Turn
    <3> QED BY <2>2, <2>3
  <2> QED BY <2>4
<1>3. AdoptChildren(o, left) = adopted[n]
  BY DEF AdoptChildren
<1>4. adopted = [i \in 0 .. n |-> Turn(adopted, i)]
  <2> HIDE DEF Turn
  <2> QED BY <1>2
<1> HIDE DEF adopted
<1>5. \A i \in 0 .. n : adopted[i] = Turn(adopted, i)
  <2> HIDE DEF Turn
  <2> QED BY <1>4
<1>6. adopted[0] = o /\ \A i \in 1 .. n : adopted[i] = AdoptChild(adopted[i - 1], left, children[i])
  BY <1>5
<1> QED BY <1>3, <1>6

LEMMA ChildrenTold ==
  ASSUME NEW o \in Operations, NEW left, left.page \in Pages, ~IsLeaf(o.pages[left.page]),
         ~Open(o.pages[left.page]),
         \A k \in Kids(o.pages[left.page]) : k \in Pages /\ k < o.num_pages
  PROVE  LET r == AdoptChildren(o, left)
         IN /\ r \in Operations /\ r.num_pages = o.num_pages /\ FailsHalted(o, r)
            /\ ~Failed(r) => /\ ~Failed(o)
                             /\ r.pages = Told(o.pages, Kids(o.pages[left.page]), left.page)
<1> DEFINE node == o.pages[left.page]
           kids == Kids(node)
           children == Children(node)
           n == Len(children)
           p == left.page
           First(i) == {children[j] : j \in 1 .. i}
           r == AdoptChildren(o, left)
<1>1. /\ o.pages \in [Pages -> Node] /\ node \in InternalNode /\ p \in Pages
  BY OperationFields, NodeFields
<1>2. /\ n \in Nat /\ \A j \in 1 .. n : children[j] \in kids
      /\ kids \subseteq First(n)
  <2> HIDE DEF node
  <2>1. /\ Len(node.cells) \in Nat /\ n = Len(node.cells) + 1
        /\ \A i \in 1 .. Len(node.cells) : children[i] = node.cells[i].child
        /\ children[n] = node.right
    BY <1>1, InternalFields, ChildrenElements
  <2>2. kids = Firsts(node.cells) \cup {node.right}
    BY DEF Kids, Open, node
  <2> HIDE DEF n, children, kids
  <2>3. n \in Nat
    BY <2>1
  <2>4. ASSUME NEW j \in 1 .. n PROVE children[j] \in kids
    <3>1. CASE j = n
      BY <2>1, <2>2, <3>1
    <3>2. CASE j \in 1 .. Len(node.cells)
      BY <2>1, <2>2, <3>2 DEF Firsts
    <3> QED BY <2>1, <3>1, <3>2
  <2>5. ASSUME NEW k \in kids PROVE k \in First(n)
    <3>1. CASE k = node.right
      BY <2>1, <3>1
    <3>2. CASE k \in Firsts(node.cells)
      <4>1. PICK i \in 1 .. Len(node.cells) : k = node.cells[i].child
        BY <3>2 DEF Firsts
      <4>2. i \in 1 .. n /\ k = children[i]
        BY <2>1, <4>1
      <4> QED BY <4>2
    <3> QED BY <2>2, <2>5, <3>1, <3>2
  <2> QED BY <2>3, <2>4, <2>5
<1>3. PICK adopted : /\ adopted[0] = o
                     /\ \A i \in 1 .. n : adopted[i] = AdoptChild(adopted[i - 1], left, children[i])
                     /\ r = adopted[n]
  BY <1>2, AdoptedInTurn
<1> HIDE DEF r, n, children
<1> DEFINE Done(i) == LET x == adopted[i]
                      IN /\ x \in Operations /\ x.num_pages = o.num_pages /\ FailsHalted(o, x)
                         /\ ~Failed(x) => ~Failed(o) /\ x.pages = Told(o.pages, First(i), p)
           D == {i \in 0 .. n : Done(i)}
<1>4. 0 \in D
  <2>1. First(0) = {}
    OBVIOUS
  <2>2. Told(o.pages, {}, p) = o.pages
    BY <1>1 DEF Told
  <2> HIDE DEF First
  <2> QED BY <1>2, <1>3, <2>1, <2>2 DEF FailsHalted
<1>5. ASSUME NEW i \in 0 .. n, i \in D, i + 1 <= n PROVE i + 1 \in D
  <2> DEFINE x == adopted[i]
             y == adopted[i + 1]
             c == children[i + 1]
  <2>1. i + 1 \in 0 .. n /\ i + 1 \in 1 .. n /\ (i + 1) - 1 = i
    BY <1>2, <1>5
  <2>2. y = AdoptChild(x, left, c) /\ c \in kids
    BY <1>2, <1>3, <2>1
  <2>3. /\ x \in Operations /\ x.num_pages = o.num_pages /\ FailsHalted(o, x)
        /\ ~Failed(x) => ~Failed(o) /\ x.pages = Told(o.pages, First(i), p)
    BY <1>5
  <2>4. First(i + 1) = First(i) \cup {c} /\ First(i) \subseteq Pages /\ c \in Pages
    <3>1. First(i) \subseteq kids /\ kids \subseteq Pages
      BY <1>2
    <3>2. \A j : j \in 1 .. (i + 1) <=> j \in 1 .. i \/ j = i + 1
      OBVIOUS
    <3> QED BY <2>2, <3>1, <3>2
  <2> HIDE DEF x, y, c, First
  <2>5. /\ y \in Operations /\ y.num_pages = x.num_pages /\ FailsHalted(x, y)
        /\ ~Failed(y) => ~Failed(x) /\ y.pages = Reparented(x.pages, c, p)
    <3>1. c < x.num_pages
      BY <2>2, <2>3
    <3> QED BY <2>2, <2>3, <2>4, <3>1, AdoptedExactly
  <2>6. FailsHalted(o, y)
    BY <2>3, <2>5, FailsHaltedTransitive
  <2>7. ~Failed(y) => ~Failed(o) /\ y.pages = Told(o.pages, First(i + 1), p)
    BY <1>1, <2>3, <2>4, <2>5, ToldOneMore
  <2> QED BY <2>1, <2>3, <2>5, <2>6, <2>7 DEF y
<1> HIDE DEF D
<1>6. n \in D
  <2>1. \A i \in 0 .. n : i \in D
    BY <1>2, <1>4, <1>5, InductionTo
  <2> QED BY <1>2, <2>1
<1>7. First(n) = kids
  BY <1>2
<1> HIDE DEF First, kids
<1> QED BY <1>3, <1>6, <1>7 DEF D, r, kids

\* Tree b is tree a with the contents of the root moved to page left, under
\* a root whose children are pages left and right.
RootGrew(a, b, left, right) ==
  /\ ~IsLeaf(b[root_page_num]) /\ ~Open(b[root_page_num]) /\ Len(b[root_page_num].cells) = 1
  /\ Kids(b[root_page_num]) = {left, right} /\ Apart(b[root_page_num])
  /\ Alike(a[root_page_num], b[left])
  /\ IF IsLeaf(a[root_page_num]) THEN Alike(a[right], b[right])
     ELSE Open(b[right]) /\ b[right].cells = <<>>
  /\ \A q \in Pages \ {root_page_num, left, right} : Alike(a[q], b[q])
  /\ \A q \in Pages : b[q].parent = IF q \in {left, right} THEN root_page_num
                                    ELSE IF q \in Kids(a[root_page_num]) THEN left ELSE a[q].parent

LEMMA AlikeParent ==
  ASSUME NEW node \in Node, NEW p \in Pages
  PROVE  LET new == [node EXCEPT !.parent = p]
         IN new \in Node /\ new.parent = p /\ new.cells = node.cells /\ Alike(node, new)
<1> DEFINE new == [node EXCEPT !.parent = p]
<1>1. new \in Node /\ new.parent = p /\ new.cells = node.cells /\ (IsLeaf(new) <=> IsLeaf(node))
  BY NodeReparented
<1>2. ~IsLeaf(node) => new.right = node.right
  BY NodeFields DEF InternalNode
<1>3. IsLeaf(node) => (Apart(node) => Apart(new))
  <2>1. IsLeaf(node) => new.right = node.right
    BY NodeFields DEF LeafNode
  <2> QED BY <1>1, <2>1 DEF Apart
<1> HIDE DEF new
<1>4. Alike(node, new)
  BY <1>1, <1>2, <1>3 DEF Alike, Kids, Open, Apart
<1> QED BY <1>1, <1>4 DEF new

\* The root's contents in the left page, a right page that is empty when
\* the root was an internal node.
LEMMA CopiedExactly ==
  ASSUME NEW o \in Operations, NEW root, NEW right, NEW left,
         root.page = root_page_num, right.page \in Pages, left.page \in Pages, left.page # right.page
  PROVE  LET r == CopyRoot(o, root, right, left)
             old == o.pages[root_page_num]
         IN /\ r \in Operations /\ r.num_pages = o.num_pages /\ FailsHalted(o, r)
            /\ ~Failed(r) =>
                 /\ ~Failed(o)
                 /\ r.pages[left.page] = LeftCopy(old) /\ Alike(old, LeftCopy(old))
                 /\ LeftCopy(old).parent = old.parent
                 /\ r.pages[right.page] = IF IsLeaf(old) THEN o.pages[right.page]
                                          ELSE initialize_internal_node(o.pages[right.page])
                 /\ \A q \in Pages \ {left.page, right.page} : r.pages[q] = o.pages[q]
<1> DEFINE old == o.pages[root_page_num]
           node == o.pages[right.page]
           empty == initialize_internal_node(node)
           o1 == IF IsLeaf(old) THEN o ELSE StoreNode(o, right, empty)
           o2 == Use(o1, {root})
           copy == LeftCopy(old)
           r == StoreNode(o2, left, copy)
<1>1. CopyRoot(o, root, right, left) = r
  BY DEF CopyRoot
<1>2. old \in Node /\ node \in Node /\ o.pages \in [Pages -> Node]
  BY OperationFields, PageNumbers
<1>3. empty \in Node
  BY <1>2, NodeInitialized DEF Node
<1>4. copy \in Node /\ Alike(old, copy) /\ copy.parent = old.parent
  <2> HIDE DEF old
  <2>1. copy = [old EXCEPT !.is_root = FALSE]
    BY DEF LeftCopy
  <2> HIDE DEF copy
  <2>2. copy \in Node /\ copy.type = old.type /\ copy.cells = old.cells /\ copy.parent = old.parent
    BY <1>2, <2>1 DEF Node, LeafNode, InternalNode
  <2>3. copy.right = old.right
    BY <1>2, <2>1 DEF Node, LeafNode, InternalNode
  <2>4. Alike(old, copy)
    BY <2>2, <2>3 DEF Alike, IsLeaf, Kids, Open, Apart
  <2> QED BY <2>2, <2>4
<1> HIDE DEF copy, empty
<1>5. /\ o1 \in Operations /\ o1.num_pages = o.num_pages /\ FailsHalted(o, o1)
      /\ ~Failed(o1) =>
           /\ ~Failed(o)
           /\ o1.pages[right.page] = IF IsLeaf(old) THEN node ELSE empty
           /\ \A q \in Pages \ {right.page} : o1.pages[q] = o.pages[q]
  <2>1. CASE IsLeaf(old)
    BY <2>1 DEF FailsHalted
  <2>2. CASE ~IsLeaf(old)
    <3> DEFINE t == StoreNode(o, right, empty)
    <3>1. o1 = t
      BY <2>2
    <3> HIDE DEF o1
    <3>2. /\ t \in Operations /\ t.num_pages = o.num_pages /\ FailsHalted(o, t)
          /\ ~Failed(t) => /\ ~Failed(o)
                           /\ \A q \in Pages : t.pages[q] = IF q = right.page THEN empty ELSE o.pages[q]
      BY <1>3, StoredExactly
    <3> QED BY <2>2, <3>1, <3>2
  <2> QED BY <2>1, <2>2
<1> HIDE DEF o1
<1>6. /\ o2 \in Operations /\ o2.num_pages = o1.num_pages /\ FailsHalted(o1, o2) /\ o2.pages = o1.pages
  BY <1>5, PointersUsed, StoreFailsHalted
<1> HIDE DEF o2
<1>7. /\ r \in Operations /\ r.num_pages = o2.num_pages /\ FailsHalted(o2, r)
      /\ ~Failed(r) => /\ ~Failed(o2)
                       /\ \A q \in Pages : r.pages[q] = IF q = left.page THEN copy ELSE o2.pages[q]
  BY <1>4, <1>6, StoredExactly
<1> HIDE DEF r
<1>8. FailsHalted(o, r)
  BY <1>5, <1>6, <1>7, FailsHaltedTransitive
<1>9. ASSUME ~Failed(r)
      PROVE  /\ ~Failed(o) /\ r.pages[left.page] = copy
             /\ r.pages[right.page] = IF IsLeaf(old) THEN node ELSE empty
             /\ \A q \in Pages \ {left.page, right.page} : r.pages[q] = o.pages[q]
  <2>1. ~Failed(o2) /\ ~Failed(o1)
    BY <1>6, <1>7, <1>9 DEF FailsHalted
  <2> QED BY <1>5, <1>6, <1>7, <1>9, <2>1
<1> QED BY <1>1, <1>4, <1>5, <1>6, <1>7, <1>8, <1>9 DEF copy, empty

LEMMA FailedAdopts ==
  ASSUME NEW o \in Operations, Failed(o), NEW left, left.page \in Pages
  PROVE  AdoptChildren(o, left) = o
<1>1. CASE IsLeaf(o.pages[left.page])
  BY <1>1 DEF AdoptChildren
<1>2. CASE ~IsLeaf(o.pages[left.page])
  <2> DEFINE children == Children(o.pages[left.page])
             n == Len(children)
  <2>1. n \in Nat
    BY <1>2, OperationFields, NodeFields, InternalFields, ChildrenElements
  <2> HIDE DEF n, children
  <2>2. PICK adopted : /\ adopted[0] = o
                       /\ \A i \in 1 .. n : adopted[i] = AdoptChild(adopted[i - 1], left, children[i])
                       /\ AdoptChildren(o, left) = adopted[n]
    BY <1>2, <2>1, AdoptedInTurn DEF n, children
  <2>3. ASSUME NEW child PROVE AdoptChild(o, left, child) = o
    <3>1. Use(o, {left}) = o
      BY DEF Use
    <3>2. get_page(o, child) = o
      BY Zenon DEF get_page
    <3>3. SetParent(o, Pointer(o, child), left.page) = o
      BY DEF SetParent
    <3> QED BY <3>1, <3>2, <3>3 DEF AdoptChild
  <2> DEFINE D == {i \in 0 .. n : adopted[i] = o}
  <2>4. 0 \in D
    BY <2>1, <2>2
  <2>5. ASSUME NEW i \in 0 .. n, i \in D, i + 1 <= n PROVE i + 1 \in D
    <3>1. i + 1 \in 1 .. n /\ i + 1 \in 0 .. n /\ (i + 1) - 1 = i
      BY <2>1, <2>5
    <3> QED BY <2>2, <2>3, <2>5, <3>1
  <2> HIDE DEF D
  <2>6. \A i \in 0 .. n : i \in D
    BY <2>1, <2>4, <2>5, InductionTo
  <2> QED BY <2>1, <2>2, <2>6 DEF D
<1> QED BY <1>1, <1>2

LEMMA AboveIsPair ==
  ASSUME NEW o \in Operations, NEW right, NEW left, right.page \in Pages, left.page \in Pages,
         left.page # right.page, NEW b,
         b = [initialize_internal_node(o.pages[root_page_num]) EXCEPT
                !.is_root = TRUE,
                !.cells = <<[child |-> left.page, key |-> get_node_max_key(o.pages, left.page)]>>,
                !.right = right.page,
                !.leftover = @ \ {0}]
  PROVE  /\ b \in Node /\ b.parent = o.pages[root_page_num].parent
         /\ ~IsLeaf(b) /\ ~Open(b) /\ Len(b.cells) = 1
         /\ Kids(b) = {left.page, right.page} /\ Apart(b)
<1> DEFINE key == get_node_max_key(o.pages, left.page)
           node == initialize_internal_node(o.pages[root_page_num])
           cell == [child |-> left.page, key |-> key]
<1>1. o.pages \in [Pages -> Node] /\ o.pages[root_page_num] \in Node
  BY OperationFields, PageNumbers
<1>2. key \in Nat
  BY <1>1, MaxKeyIsNat
<1> HIDE DEF key
<1>3. node \in InternalNode /\ node.parent = o.pages[root_page_num].parent
  BY <1>1, NodeInitialized DEF initialize_internal_node
<1>4. <<cell>> \in Seq(InternalCell) /\ <<cell>>[1].child = left.page /\ Len(<<cell>>) = 1
  BY <1>2 DEF InternalCell
<1>5. right.page \in Nat
  BY PageNumbers
<1>6. b = [node EXCEPT !.is_root = TRUE, !.cells = <<cell>>, !.right = right.page,
                       !.leftover = @ \ {0}]
  BY DEF key
<1> HIDE DEF node, cell
<1>7. /\ b \in InternalNode /\ b.parent = node.parent /\ b.cells = <<cell>> /\ b.right = right.page
  BY <1>3, <1>4, <1>5, <1>6 DEF InternalNode
<1>8. ~IsLeaf(b) /\ b \in Node
  BY <1>7, InternalFields
<1>9. Firsts(b.cells) = {left.page} /\ FirstsApart(b.cells)
  <2>1. 1 .. Len(b.cells) = {1}
    BY <1>4, <1>7
  <2> QED BY <1>4, <1>7, <2>1 DEF Firsts, FirstsApart
<1> QED BY <1>3, <1>4, <1>7, <1>8, <1>9, PageNumbers DEF Kids, Open, Apart

LEMMA RootGrownExactly ==
  ASSUME NEW o \in Operations, NEW root, NEW right, NEW left,
         root.page = root_page_num, right.page \in Pages, left.page \in Pages,
         right.page # root_page_num, left.page # root_page_num, left.page # right.page,
         ~Open(o.pages[root_page_num]),
         \A k \in Kids(o.pages[root_page_num]) :
           k \in Pages /\ k < o.num_pages /\ k \notin {root_page_num, left.page, right.page}
  PROVE  LET r == GrowRoot(o, root, right, left)
         IN /\ r \in Operations /\ r.num_pages = o.num_pages /\ FailsHalted(o, r)
            /\ ~Failed(r) => ~Failed(o) /\ RootGrew(o.pages, r.pages, left.page, right.page)
<1> DEFINE L == left.page
           R == right.page
           old == o.pages[root_page_num]
           kids == Kids(old)
           copy == LeftCopy(old)
           o1 == CopyRoot(o, root, right, left)
           o2 == AdoptChildren(o1, left)
           blank == initialize_internal_node(o2.pages[root_page_num])
           above == [blank EXCEPT
                       !.is_root = TRUE,
                       !.cells = <<[child |-> left.page, key |-> get_node_max_key(o2.pages, left.page)]>>,
                       !.right = right.page,
                       !.leftover = @ \ {0}]
           tested == TestCell(o2, root, blank, 0)
           o3 == StoreNode(tested, root, above)
           o4 == SetParent(o3, left, root_page_num)
           r == SetParent(o4, right, root_page_num)
<1>0. GrowRoot(o, root, right, left) = r
  BY DEF GrowRoot, RootAbove
<1>1. /\ o1 \in Operations /\ o1.num_pages = o.num_pages /\ FailsHalted(o, o1)
      /\ ~Failed(o1) =>
           /\ ~Failed(o)
           /\ o1.pages[L] = copy /\ Alike(old, copy) /\ copy.parent = old.parent
           /\ o1.pages[R] = IF IsLeaf(old) THEN o.pages[R]
                            ELSE initialize_internal_node(o.pages[R])
           /\ \A q \in Pages \ {L, R} : o1.pages[q] = o.pages[q]
  BY CopiedExactly
<1> HIDE DEF o1, copy
<1>2. root_page_num \in Pages /\ o.pages \in [Pages -> Node] /\ o1.pages \in [Pages -> Node]
  BY <1>1, OperationFields, PageNumbers
<1>3. ASSUME ~Failed(o1)
      PROVE  /\ o2 \in Operations /\ o2.num_pages = o1.num_pages /\ FailsHalted(o1, o2)
             /\ ~Failed(o2) => o2.pages = Told(o1.pages, kids, L)
  <2>1. o1.pages[L] = copy /\ Alike(old, copy)
    BY <1>1, <1>3
  <2>2. CASE IsLeaf(old)
    <3>1. IsLeaf(copy) /\ kids = {}
      BY <2>1, <2>2 DEF Alike, Kids
    <3>2. o2 = o1
      BY <2>1, <3>1 DEF AdoptChildren
    <3>3. Told(o1.pages, {}, L) = o1.pages
      BY <1>2 DEF Told
    <3> HIDE DEF o2, kids
    <3> QED BY <1>1, <3>1, <3>2, <3>3 DEF FailsHalted
  <2>3. CASE ~IsLeaf(old)
    <3>1. ~IsLeaf(copy) /\ ~Open(copy) /\ Kids(copy) = kids
      BY <2>1, <2>3 DEF Alike
    <3>2. \A k \in kids : k \in Pages /\ k < o1.num_pages
      BY <1>1
    <3> HIDE DEF kids
    <3> QED BY <1>1, <2>1, <3>1, <3>2, ChildrenTold
  <2> QED BY <2>2, <2>3
<1>4. /\ o2 \in Operations /\ o2.num_pages = o1.num_pages /\ FailsHalted(o1, o2)
  <2>1. Failed(o1) => o2 = o1
    BY <1>1, FailedAdopts
  <2> QED BY <1>1, <1>3, <2>1 DEF FailsHalted
<1> HIDE DEF o2
<1>5. FailsHalted(o, o2)
  BY <1>1, <1>4, FailsHaltedTransitive
<1>6. /\ above \in Node /\ above.parent = o2.pages[root_page_num].parent
      /\ ~IsLeaf(above) /\ ~Open(above) /\ Len(above.cells) = 1
      /\ Kids(above) = {L, R} /\ Apart(above)
  BY <1>4, AboveIsPair
<1> HIDE DEF above
<1>7. /\ o3 \in Operations /\ o3.num_pages = o2.num_pages /\ FailsHalted(o2, o3)
      /\ ~Failed(o3) => /\ ~Failed(o2)
                        /\ \A q \in Pages : o3.pages[q] = IF q = root_page_num THEN above ELSE o2.pages[q]
  <2>1. o3 = StoreNode(tested, root, above) /\ root.page = root_page_num /\ root.page \in Pages
    BY <1>2
  <2>3. /\ tested \in Operations /\ tested.pages = o2.pages /\ tested.num_pages = o2.num_pages
        /\ FailsHalted(o2, tested)
    <3>1. blank \in InternalNode
      BY <1>4, OperationFields, PageNumbers, NodeInitialized
    <3> HIDE DEF blank
    <3> QED BY <1>4, <3>1, TestFailsHalted
  <2> HIDE DEF o3, tested
  <2>2. /\ o3 \in Operations /\ o3.num_pages = tested.num_pages /\ FailsHalted(tested, o3)
        /\ ~Failed(o3) => /\ ~Failed(tested)
                          /\ \A q \in Pages : o3.pages[q] = IF q = root.page THEN above ELSE tested.pages[q]
    BY ONLY <1>6, <2>1, <2>3, StoredExactly
  <2>4. FailsHalted(o2, o3)
    BY <2>2, <2>3, FailsHaltedTransitive
  <2>5. ~Failed(tested) => ~Failed(o2)
    BY <2>3 DEF FailsHalted
  <2> QED BY ONLY <2>1, <2>2, <2>3, <2>4, <2>5
<1> HIDE DEF o3
<1>8. /\ FailsHalted(o3, o4) /\ o4 \in Operations /\ o4.num_pages = o3.num_pages
      /\ ~Failed(o4) => ~Failed(o3) /\ o4.pages = Reparented(o3.pages, L, root_page_num)
  BY <1>2, <1>7, ParentSetExactly
<1> HIDE DEF o4
<1>9. /\ FailsHalted(o4, r) /\ r \in Operations /\ r.num_pages = o4.num_pages
      /\ ~Failed(r) => ~Failed(o4) /\ r.pages = Reparented(o4.pages, R, root_page_num)
  BY <1>2, <1>8, ParentSetExactly
<1> HIDE DEF r
<1>10. FailsHalted(o, r) /\ r.num_pages = o.num_pages
  <2>1. FailsHalted(o, o3)
    BY <1>5, <1>7, FailsHaltedTransitive
  <2>2. FailsHalted(o, o4)
    BY <1>8, <2>1, FailsHaltedTransitive
  <2> QED BY <1>1, <1>4, <1>7, <1>8, <1>9, <2>2, FailsHaltedTransitive
<1>11. ASSUME ~Failed(r) PROVE ~Failed(o) /\ RootGrew(o.pages, r.pages, L, R)
  <2> DEFINE a == o.pages
             b == o2.pages
             d == o3.pages
             e == r.pages
  <2>1. ~Failed(o4) /\ ~Failed(o3) /\ ~Failed(o2) /\ ~Failed(o1) /\ ~Failed(o)
    BY <1>1, <1>4, <1>7, <1>8, <1>9, <1>11 DEF FailsHalted
  <2>2. b = Told(o1.pages, kids, L)
    BY <1>3, <2>1
  <2>3. \A q \in Pages : d[q] = IF q = root_page_num THEN above ELSE b[q]
    BY <1>7, <2>1
  <2>4. e = Reparented(Reparented(d, L, root_page_num), R, root_page_num)
    BY <1>8, <1>9, <1>11, <2>1
  <2>5. b \in [Pages -> Node] /\ d \in [Pages -> Node]
    BY <1>4, <1>7, OperationFields
  <2>6. /\ o1.pages[L] = copy /\ Alike(old, copy) /\ copy.parent = old.parent
        /\ o1.pages[R] = IF IsLeaf(old) THEN a[R] ELSE initialize_internal_node(a[R])
        /\ \A q \in Pages \ {L, R} : o1.pages[q] = a[q]
    BY <1>1, <2>1
  <2>7. /\ root_page_num \notin kids /\ L \notin kids /\ R \notin kids /\ kids \subseteq Pages
    OBVIOUS
  <2> HIDE DEF a, d, e
  <2>8. /\ e[root_page_num] = d[root_page_num]
        /\ e[L] = [d[L] EXCEPT !.parent = root_page_num]
        /\ e[R] = [d[R] EXCEPT !.parent = root_page_num]
        /\ \A q \in Pages \ {L, R} : e[q] = d[q]
    BY <1>2, <2>4, <2>5 DEF Reparented
  <2>9. /\ Alike(d[L], e[L]) /\ e[L].parent = root_page_num
        /\ Alike(d[R], e[R]) /\ e[R].parent = root_page_num
    BY <1>2, <2>5, <2>8, AlikeParent
  <2> HIDE DEF b
  <2>10. \A q \in Pages : b[q] = IF q \in kids THEN [o1.pages[q] EXCEPT !.parent = L] ELSE o1.pages[q]
    <3> HIDE DEF kids
    <3> QED BY <1>2, <2>2 DEF Told
  <2> HIDE DEF old, kids
  <2>11. d[L] = copy /\ d[R] = o1.pages[R]
    BY <2>3, <2>6, <2>7, <2>10
  <2>12. \A q \in Pages \ {root_page_num, L, R} :
           /\ Alike(a[q], e[q])
           /\ e[q].parent = IF q \in kids THEN L ELSE a[q].parent
    <3> TAKE q \in Pages \ {root_page_num, L, R}
    <3>1. e[q] = b[q] /\ o1.pages[q] = a[q] /\ a[q] \in Node
      BY <1>2, <2>3, <2>6, <2>8 DEF a
    <3>2. CASE q \in kids
      <4>1. e[q] = [a[q] EXCEPT !.parent = L]
        BY <2>10, <3>1, <3>2
      <4> DEFINE node == a[q]
      <4> HIDE DEF node
      <4>2. LET new == [node EXCEPT !.parent = L]
            IN new.parent = L /\ Alike(node, new)
        BY <3>1, AlikeParent DEF node
      <4> QED BY <3>2, <4>1, <4>2 DEF node
    <3>3. CASE q \notin kids
      BY <2>10, <3>1, <3>3 DEF Alike
    <3> QED BY <3>2, <3>3
  <2>13. e[root_page_num] = above /\ above.parent = a[root_page_num].parent
    <3>1. b[root_page_num] = a[root_page_num]
      BY <1>2, <2>6, <2>7, <2>10
    <3> QED BY <1>2, <1>6, <2>3, <2>8, <3>1 DEF b
  <2>14. Alike(old, e[L])
    BY <2>6, <2>9, <2>11, AlikeTransitive
  <2>15. IF IsLeaf(old) THEN Alike(a[R], e[R]) ELSE Open(e[R]) /\ e[R].cells = <<>>
    <3>1. CASE IsLeaf(old)
      BY <2>6, <2>9, <2>11, <3>1
    <3>2. CASE ~IsLeaf(old)
      <4> DEFINE empty == initialize_internal_node(a[R])
                 new == [empty EXCEPT !.parent = root_page_num]
      <4>1. a[R] \in Node
        BY <1>2 DEF a
      <4>2. empty \in InternalNode /\ empty.cells = <<>> /\ empty.right = INVALID_PAGE_NUM
        BY <4>1, NodeInitialized DEF initialize_internal_node
      <4>3. empty \in Node /\ Open(empty)
        BY <4>2, InternalFields DEF Open
      <4>4. e[R] = new
        BY <2>6, <2>8, <2>11, <3>2
      <4> HIDE DEF empty
      <4>5. new.cells = empty.cells /\ Alike(empty, new)
        BY <1>2, <4>3, AlikeParent
      <4> HIDE DEF new
      <4> QED BY <3>2, <4>2, <4>3, <4>4, <4>5 DEF Alike
    <3> QED BY <3>1, <3>2
  <2>16. \A q \in Pages : e[q].parent = IF q \in {L, R} THEN root_page_num
                                        ELSE IF q \in kids THEN L ELSE a[q].parent
    BY <2>7, <2>9, <2>12, <2>13
  <2> QED BY <1>6, <2>1, <2>12, <2>13, <2>14, <2>15, <2>16 DEF RootGrew, old, kids, a, e
<1> QED BY <1>0, <1>9, <1>10, <1>11 DEF r, o4, o3, tested, above, o2, o1

LEMMA NoExitYet ==
  ASSUME NEW o, ~Failed(o) \/ Halted(o)
  PROVE  ~Exited(o)
<1>1. /\ "none" # "exit" /\ "stale pointer" # "exit" /\ "exit on old bytes" # "exit"
      /\ "none" # "exit on old bytes" /\ "stale pointer" # "exit on old bytes"
  BY Zenon
<1> QED BY <1>1, Zenon DEF Failed, Halted, Exited

LEMMA FailsNoExit ==
  ASSUME NEW o, NEW r, ~Failed(o), FailsHalted(o, r)
  PROVE  ~Exited(r)
<1>1. ~Failed(r) \/ Halted(r)
  BY Zenon DEF FailsHalted
<1> QED BY <1>1, NoExitYet

\* What create_new_root() does.  A file that is full stops it before it
\* changes a page.
LEMMA NewRootExactly ==
  ASSUME NEW o \in Operations, NEW right, right \in Nat, right # root_page_num, right <= o.num_pages,
         o.num_pages # 0, ~Open(o.pages[root_page_num]),
         \A k \in Kids(o.pages[root_page_num]) :
           k \in Pages /\ k < o.num_pages /\ k \notin {root_page_num, right}
  PROVE  LET r == create_new_root(o, right)
             left == IF right = o.num_pages THEN right + 1 ELSE o.num_pages
         IN /\ r \in Operations /\ o.num_pages <= r.num_pages
            /\ Exited(r) => Exited(o)
            /\ Failed(r) => Halted(r) \/ r.pages = o.pages
            /\ ~Failed(r) => /\ ~Failed(o) /\ left \in Pages /\ right \in Pages /\ left # root_page_num
                             /\ r.num_pages = left + 1
                             /\ RootGrew(o.pages, r.pages, left, right)
<1> DEFINE o0 == get_page(o, root_page_num)
           o1 == get_page(o0, right)
           o2 == get_page(o1, o1.num_pages)
           left == IF right = o.num_pages THEN right + 1 ELSE o.num_pages
           root_ptr == Pointer(o2, root_page_num)
           right_ptr == Pointer(o2, right)
           left_ptr == Pointer(o2, o1.num_pages)
           g == GrowRoot(o2, root_ptr, right_ptr, left_ptr)
           r == create_new_root(o, right)
<1>0. r = IF Failed(o2) THEN o2 ELSE g
  BY DEF create_new_root
<1>1. root_ptr.page = root_page_num /\ right_ptr.page = right /\ left_ptr.page = o1.num_pages
  BY DEF Pointer
<1> HIDE DEF root_ptr, right_ptr, left_ptr, r
<1>2. o.num_pages \in Nat /\ root_page_num \in Nat /\ root_page_num # o.num_pages
  BY OperationFields, PageNumbers DEF root_page_num
<1>3. /\ o0 \in Operations /\ o0.pages = o.pages /\ o0.num_pages = o.num_pages
      /\ Exited(o0) => Exited(o)
      /\ ~Failed(o0) => ~Failed(o)
  BY <1>2, PageRequested
<1> HIDE DEF o0
<1>4. /\ o1 \in Operations /\ o1.pages = o0.pages /\ o0.num_pages <= o1.num_pages
      /\ Exited(o1) => Exited(o0)
      /\ ~Failed(o1) => /\ ~Failed(o0) /\ right \in Pages
                        /\ right = o0.num_pages => o1.num_pages = o0.num_pages + 1
      /\ right # o0.num_pages => o1.num_pages = o0.num_pages
  BY <1>3, PageRequested
<1> HIDE DEF o1
<1>5. /\ o2 \in Operations /\ o2.pages = o1.pages /\ o1.num_pages <= o2.num_pages
      /\ Exited(o2) => Exited(o1)
      /\ ~Failed(o2) => /\ ~Failed(o1) /\ o1.num_pages \in Pages
                        /\ o2.num_pages = o1.num_pages + 1
  BY <1>4, PageRequested
<1> HIDE DEF o2
<1>6. o2.pages = o.pages /\ o.num_pages <= o2.num_pages
  <2>1. o0.num_pages \in Nat /\ o1.num_pages \in Nat /\ o2.num_pages \in Nat
    BY <1>3, <1>4, <1>5, OperationFields
  <2> QED BY <1>2, <1>3, <1>4, <1>5, <2>1
<1>7. CASE Failed(o2)
  BY <1>0, <1>3, <1>4, <1>5, <1>6, <1>7 DEF r
<1>8. CASE ~Failed(o2)
  <2>1. /\ ~Failed(o1) /\ ~Failed(o0) /\ ~Failed(o) /\ right \in Pages
        /\ o1.num_pages = left /\ left \in Pages /\ o2.num_pages = left + 1 /\ o.num_pages <= left
        /\ left # right /\ left # root_page_num
    <3>1. /\ ~Failed(o1) /\ ~Failed(o0) /\ ~Failed(o) /\ right \in Pages
          /\ o1.num_pages \in Pages /\ o2.num_pages = o1.num_pages + 1
      BY <1>3, <1>4, <1>5, <1>8
    <3>2. o1.num_pages = left
      BY <1>2, <1>3, <1>4, <3>1
    <3>3. o.num_pages <= left /\ left # right /\ left # root_page_num
      BY <1>2 DEF root_page_num
    <3> QED BY <3>1, <3>2, <3>3
  <2> HIDE DEF left
  <2>2. \A k \in Kids(o2.pages[root_page_num]) :
          k \in Pages /\ k < o2.num_pages /\ k \notin {root_page_num, left_ptr.page, right_ptr.page}
    <3> SUFFICES ASSUME NEW k \in Kids(o2.pages[root_page_num])
                 PROVE  k \in Pages /\ k < o2.num_pages /\ k \notin {root_page_num, left_ptr.page, right_ptr.page}
      OBVIOUS
    <3>1. k \in Pages /\ k < o.num_pages /\ k \notin {root_page_num, right}
      BY <1>6
    <3>2. k \in Nat /\ left \in Nat
      BY <2>1, <3>1, PageNumbers
    <3> QED BY <1>1, <1>2, <2>1, <3>1, <3>2
  <2>3. ~Open(o2.pages[root_page_num])
    BY <1>6
  <2>4. /\ right_ptr.page \in Pages /\ left_ptr.page \in Pages
        /\ right_ptr.page # root_page_num /\ left_ptr.page # root_page_num /\ left_ptr.page # right_ptr.page
    BY <1>1, <2>1
  <2>5. /\ g \in Operations /\ g.num_pages = o2.num_pages /\ FailsHalted(o2, g)
        /\ ~Failed(g) => ~Failed(o2) /\ RootGrew(o2.pages, g.pages, left_ptr.page, right_ptr.page)
    BY ONLY <1>1, <1>5, <2>2, <2>3, <2>4, RootGrownExactly
  <2>6. r = g
    BY <1>0, <1>8
  <2> HIDE DEF g
  <2>7. ~Exited(r)
    BY <1>8, <2>5, <2>6, FailsNoExit
  <2> QED BY <1>1, <1>6, <1>8, <2>1, <2>5, <2>6, <2>7 DEF FailsHalted, r, left
<1> QED BY <1>7, <1>8

\* Tree b is tree a with page new made an empty internal node.
Opened(a, b, new) ==
  /\ Open(b[new]) /\ b[new].cells = <<>> /\ b[new].parent = a[new].parent
  /\ \A q \in Pages \ {new} : b[q] = a[q]

LEMMA NewNodeOpened ==
  ASSUME NEW o, Good(o), Grown(o), NEW old, Inner(o, old.page), ~o.pages[old.page].is_root,
         NEW new, new = o.num_pages
  PROVE  LET r == RequestSplit(o, old, new)
         IN /\ Failed(r) => Halted(r) \/ r.pages = o.pages
            /\ ~Failed(r) => /\ new \in Pages /\ r.num_pages = new + 1
                             /\ Opened(o.pages, r.pages, new)
<1> DEFINE above == o.pages[old.page].parent
           o1 == Use(o, {old})
           o2 == get_page(o1, above)
           o3 == get_page(o2, new)
           ptr == Pointer(o3, new)
           empty == initialize_internal_node(o3.pages[new])
           r == StoreNode(o3, ptr, empty)
<1>0. RequestSplit(o, old, new) = r
  BY DEF RequestSplit
<1>1. o \in Operations /\ o.pages \in [Pages -> Node] /\ o.num_pages \in Nat
  BY OperationFields DEF Good
<1>2. o1 \in Operations /\ o1.pages = o.pages /\ o1.num_pages = o.num_pages
  BY <1>1, PointersUsed
<1>3. above \in Nat /\ above # o.num_pages
  <2>1. Inner(o, above)
    BY ParentIsInner DEF Inner
  <2> HIDE DEF above
  <2> QED BY <1>1, <2>1, PageNumbers DEF Inner
<1> HIDE DEF above, o1
<1>4. o2 \in Operations /\ o2.pages = o.pages /\ o2.num_pages = o.num_pages
  BY <1>2, <1>3, PageRequested
<1> HIDE DEF o2
<1>5. /\ o3 \in Operations /\ o3.pages = o.pages
      /\ ~Failed(o3) => new \in Pages /\ o3.num_pages = new + 1
  BY <1>4, PageRequested
<1>6. ptr.page = new
  BY DEF Pointer
<1> HIDE DEF o3, ptr
<1>7. CASE Failed(o3)
  <2>1. r = o3
    BY <1>7 DEF StoreNode
  <2> HIDE DEF r
  <2> QED BY <1>0, <1>5, <1>7, <2>1
<1>8. CASE ~Failed(o3)
  <2>1. new \in Pages /\ o3.num_pages = new + 1 /\ o3.pages[new] \in Node
    BY <1>1, <1>5, <1>8
  <2>2. /\ empty \in InternalNode /\ empty.cells = <<>> /\ empty.right = INVALID_PAGE_NUM
        /\ empty.parent = o.pages[new].parent
    BY <1>5, <2>1, NodeInitialized DEF initialize_internal_node
  <2>3. empty \in Node /\ Open(empty)
    BY <2>2, InternalFields DEF Open
  <2> HIDE DEF empty
  <2>4. /\ r \in Operations /\ r.num_pages = o3.num_pages /\ FailsHalted(o3, r)
        /\ ~Failed(r) => \A q \in Pages : r.pages[q] = IF q = ptr.page THEN empty ELSE o3.pages[q]
    BY <1>5, <1>6, <2>1, <2>3, StoredExactly
  <2> HIDE DEF r
  <2> QED BY <1>0, <1>5, <1>6, <1>8, <2>1, <2>2, <2>3, <2>4 DEF FailsHalted, Opened
<1> QED BY <1>7, <1>8

LEMMA OldRootMoved ==
  ASSUME NEW o, Good(o), Grown(o), NEW old, Inner(o, old.page), o.pages[old.page].is_root,
         NEW new, new = o.num_pages, Len(o.pages[old.page].cells) >= INTERNAL_NODE_MAX_CELLS,
         ~Open(o.pages[root_page_num]),
         \A k \in Kids(o.pages[root_page_num]) : k \in Pages /\ k < o.num_pages /\ k # root_page_num
  PROVE  LET r == RequestSplit(o, old, new)
             page == SplitPage(o, old, r)
         IN /\ Failed(r) => Halted(r) \/ r.pages = o.pages
            /\ ~Failed(r) => /\ new \in Pages /\ page = new + 1 /\ r.num_pages = page + 1
                             /\ RootGrew(o.pages, r.pages, page, new)
<1> DEFINE o1 == Use(o, {old})
           o2 == create_new_root(o1, new)
           o3 == get_page(o2, root_page_num)
           child == o3.pages[root_page_num].cells[1].child
           r == get_page(o3, child)
           page == SplitPage(o, old, r)
<1>0. RequestSplit(o, old, new) = r
  BY DEF RequestSplit
<1>1. /\ Keeps(o, r)
      /\ ~Failed(r) => Inner(r, page) /\ page # new
  BY <1>0, SplitRequested
<1>2. page = r.pages[root_page_num].cells[1].child
  BY DEF SplitPage
<1> HIDE DEF page
<1>3. o \in Operations /\ o.pages \in [Pages -> Node] /\ o.num_pages \in 1 .. FILE_PAGES_NUM
  BY OperationFields DEF Good, Shaped
<1>4. o1 \in Operations /\ o1.pages = o.pages /\ o1.num_pages = o.num_pages
  BY <1>3, PointersUsed
<1> HIDE DEF o1
<1>5. /\ o2 \in Operations /\ o1.num_pages <= o2.num_pages
      /\ Failed(o2) => Halted(o2) \/ o2.pages = o1.pages
      /\ ~Failed(o2) => /\ new + 1 \in Pages /\ new \in Pages /\ o2.num_pages = new + 1 + 1
                        /\ RootGrew(o1.pages, o2.pages, new + 1, new)
  <2>1. /\ new \in Nat /\ new # root_page_num /\ new <= o1.num_pages /\ o1.num_pages # 0
        /\ new = o1.num_pages
    BY <1>3, <1>4 DEF root_page_num
  <2>2. /\ ~Open(o1.pages[root_page_num])
        /\ \A k \in Kids(o1.pages[root_page_num]) :
             k \in Pages /\ k < o1.num_pages /\ k \notin {root_page_num, new}
    <3> SUFFICES ASSUME NEW k \in Kids(o.pages[root_page_num])
                 PROVE  k \in Pages /\ k < o.num_pages /\ k \notin {root_page_num, new}
      BY <1>4
    <3>1. k \in Pages /\ k < o.num_pages /\ k # root_page_num
      OBVIOUS
    <3>2. k \in Nat
      BY <3>1, PageNumbers
    <3> QED BY <1>3, <3>1, <3>2
  <2> QED BY ONLY <1>4, <2>1, <2>2, NewRootExactly
<1> HIDE DEF o2
<1>6. /\ o3 \in Operations /\ o3.pages = o2.pages /\ (Failed(o2) => o3 = o2)
      /\ root_page_num # o2.num_pages => o3.num_pages = o2.num_pages
      /\ o3.fault = o2.fault
  <2>1. root_page_num \in Pages
    BY PageNumbers
  <2> QED BY <1>5, <2>1, PageRequested
<1> HIDE DEF o3
<1>7. /\ r \in Operations /\ r.pages = o3.pages /\ (Failed(o3) => r = o3)
      /\ child # o3.num_pages => r.num_pages = o3.num_pages
      /\ child \in Pages => r.fault = o3.fault
  BY <1>6, PageRequested
<1>8. child = page
  BY <1>2, <1>7
<1> HIDE DEF child, r
<1>9. CASE Failed(o2)
  <2>1. o3 = o2 /\ Failed(o3) /\ r = o3
    BY <1>6, <1>7, <1>9
  <2> QED BY <1>0, <1>4, <1>5, <1>9, <2>1
<1>10. CASE ~Failed(o2)
  <2>1. /\ new + 1 \in Pages /\ new \in Pages /\ o2.num_pages = new + 1 + 1
        /\ RootGrew(o.pages, o2.pages, new + 1, new)
    BY <1>4, <1>5, <1>10
  <2>2. ~Failed(o3)
    BY <1>6, <1>10 DEF Failed
  <2>3. page \in Kids(o2.pages[root_page_num])
    <3> DEFINE node == o2.pages[root_page_num]
    <3>1. ~IsLeaf(node) /\ Len(node.cells) = 1
      BY <2>1 DEF RootGrew
    <3>2. page = node.cells[1].child
      BY <1>2, <1>6, <1>7
    <3> HIDE DEF node
    <3>3. 1 \in 1 .. Len(node.cells)
      BY <3>1
    <3>4. page \in Firsts(node.cells)
      BY <3>2, <3>3 DEF Firsts
    <3> QED BY <3>1, <3>4 DEF Kids, node
  <2>4. page \in {new + 1, new}
    BY <2>1, <2>3 DEF RootGrew
  <2>5. page \in Pages
    BY <2>1, <2>4
  <2>6. ~Failed(r)
    BY <1>7, <1>8, <2>2, <2>5 DEF Failed
  <2>7. page = new + 1
    BY <1>1, <2>4, <2>6
  <2>8. o3.num_pages = o2.num_pages /\ r.num_pages = o3.num_pages
    BY <1>3, <1>6, <1>7, <1>8, <2>1, <2>7 DEF root_page_num
  <2> QED BY <1>0, <1>6, <1>7, <2>1, <2>6, <2>7, <2>8 DEF page
<1> QED BY <1>9, <1>10

-----------------------------------------------------------------------------
(***************************************************************************)
(* What a split of a full node p comes to, with child c: it stops before   *)
(* it changed a page; or the root was split; or p was, and then the new    *)
(* page is inserted above.                                                 *)
(***************************************************************************)

RootParted(o, c, r) ==
  LET new  == o.num_pages
      page == new + 1
  IN /\ {new, page} \subseteq Pages /\ r.num_pages = page + 1
     /\ \E g \in [Pages -> Node] : RootGrew(o.pages, g, page, new) /\ Parted(g, r.pages, page, new, c)

\* After the old node and the new were made, in u.
NodeParted(o, p, c, u) ==
  LET new == o.num_pages
  IN /\ Good(u) /\ Grown(u) /\ ~Failed(u) /\ new \in Pages /\ u.num_pages = new + 1
     /\ \E g \in [Pages -> Node] : Opened(o.pages, g, new) /\ Parted(g, u.pages, p, new, c)

NewPut(o, p, u, insert, r) ==
  LET new  == o.num_pages
      done == insert[Call(u, u.pages[p].parent, new)]
  IN \E ptrs, ptr : ptr.page = new /\ r = SetParent(Use(done, ptrs), ptr, done.pages[p].parent)

Splits(o, p, c, insert, r) ==
  \/ Failed(r) /\ (Halted(r) \/ r.pages = o.pages)
  \/ o.pages[p].is_root /\ ~Failed(r) /\ RootParted(o, c, r)
  \/ ~o.pages[p].is_root /\ \E u : NodeParted(o, p, c, u) /\ NewPut(o, p, u, insert, r)

\* A full node whose children, and the child to be inserted, are other
\* pages in use.
Splittable(o, p, c) ==
  /\ Len(o.pages[p].cells) = INTERNAL_NODE_MAX_CELLS /\ ~Open(o.pages[p])
  /\ \A k \in Kids(o.pages[p]) \cup {c} : k \in Pages /\ k < o.num_pages /\ k # p

\* The pages of a split are those of Parting().
LEMMA PagesParting ==
  ASSUME NEW o, Good(o), Grown(o), NEW p, Inner(o, p), NEW c, Splittable(o, p, c),
         NEW old, old.page = p, NEW r, r = RequestSplit(o, old, o.num_pages), ~Failed(r),
         NEW s, Ready(r, s), s.old.page = SplitPage(o, old, r), s.new.page = o.num_pages,
         s.old.page # s.new.page, s.child.page = c
  PROVE  /\ Parting(r, s) /\ o.num_pages \in Pages
         /\ IF o.pages[p].is_root
            THEN /\ s.old.page = o.num_pages + 1 /\ r.num_pages = o.num_pages + 2
                 /\ RootGrew(o.pages, r.pages, s.old.page, o.num_pages)
            ELSE /\ s.old.page = p /\ r.num_pages = o.num_pages + 1
                 /\ Opened(o.pages, r.pages, o.num_pages)
<1> DEFINE new == o.num_pages
           page == s.old.page
           kids == Kids(o.pages[p])
<1>1. /\ p \in Pages /\ p \in Nat /\ new \in Nat /\ o.pages \in [Pages -> Node]
      /\ o.pages[p] \in InternalNode /\ ~IsLeaf(o.pages[p]) /\ p < new
  BY InnerNode DEF Inner, Good, Shaped
<1>2. /\ Len(o.pages[p].cells) = INTERNAL_NODE_MAX_CELLS /\ ~Open(o.pages[p])
      /\ \A k \in kids \cup {c} : k \in Pages /\ k \in Nat /\ k < new /\ k # p
  BY PageNumbers DEF Splittable
<1>3. o.pages[p].right \in Pages
  <2>1. o.pages[p].right \in kids
    BY <1>1, <1>2 DEF Kids, Open
  <2> QED BY <1>2, <2>1
<1> HIDE DEF new, page, kids
<1>4. CASE o.pages[p].is_root
  <2>1. p = root_page_num
    BY <1>1, <1>4 DEF Good, Shaped
  <2>2. new \in Pages /\ page = new + 1 /\ r.num_pages = page + 1 /\ RootGrew(o.pages, r.pages, page, new)
    <3>1. /\ Inner(o, old.page) /\ o.pages[old.page].is_root /\ new = o.num_pages
          /\ ~Open(o.pages[root_page_num]) /\ page = SplitPage(o, old, r)
      BY <1>2, <1>4, <2>1 DEF new, page
    <3>2. Len(o.pages[old.page].cells) >= INTERNAL_NODE_MAX_CELLS
      <4>1. \A n : n = 3 => n >= 3
        OBVIOUS
      <4>2. old.page = p
        OBVIOUS
      <4> QED BY ONLY <1>2, <4>1, <4>2, Zenon DEF INTERNAL_NODE_MAX_CELLS
    <3>3. \A k \in Kids(o.pages[root_page_num]) : k \in Pages /\ k < o.num_pages /\ k # root_page_num
      BY <1>2, <2>1 DEF kids, new
    <3>4. r = RequestSplit(o, old, new)
      BY DEF new
    <3> QED BY ONLY Good(o), Grown(o), ~Failed(r), <3>1, <3>2, <3>3, <3>4, OldRootMoved
  <2>3. Alike(o.pages[p], r.pages[page]) /\ Open(r.pages[new]) /\ r.pages[new].cells = <<>>
    BY <1>1, <2>1, <2>2 DEF RootGrew
  <2>4. /\ Len(r.pages[page].cells) = INTERNAL_NODE_MAX_CELLS /\ ~IsLeaf(r.pages[page])
        /\ ~Open(r.pages[page]) /\ Kids(r.pages[page]) = kids
    BY <1>1, <1>2, <2>3 DEF Alike, kids
  <2>5. r.pages[page].right \in Pages
    <3>1. r.pages[page].right \in kids
      BY <2>4 DEF Kids, Open
    <3> QED BY <1>2, <3>1
  <2>6. \A k \in Kids(r.pages[page]) \cup {c} : k < r.num_pages /\ k \notin {page, new}
    <3> SUFFICES ASSUME NEW k \in kids \cup {c} PROVE k < r.num_pages /\ k \notin {page, new}
      BY <2>4
    <3> QED BY <1>1, <1>2, <2>2
  <2>7. Parting(r, s)
    BY <2>3, <2>4, <2>5, <2>6 DEF Parting, page, new
  <2>8. r.num_pages = new + 2
    BY <1>1, <2>2
  <2> QED BY <1>4, <2>2, <2>7, <2>8 DEF page, new
<1>5. CASE ~o.pages[p].is_root
  <2>1. page = p
    BY <1>5 DEF SplitPage, page
  <2>2. new \in Pages /\ r.num_pages = new + 1 /\ Opened(o.pages, r.pages, new)
    <3>1. /\ Inner(o, old.page) /\ ~o.pages[old.page].is_root /\ new = o.num_pages
          /\ r = RequestSplit(o, old, new)
      BY <1>5 DEF new
    <3> QED BY ONLY Good(o), Grown(o), ~Failed(r), <3>1, NewNodeOpened
  <2>3. /\ Open(r.pages[new]) /\ r.pages[new].cells = <<>> /\ r.pages[p] = o.pages[p]
    BY <1>1, <2>2 DEF Opened
  <2>4. \A k \in Kids(r.pages[p]) \cup {c} : k < r.num_pages /\ k \notin {p, new}
    <3> SUFFICES ASSUME NEW k \in kids \cup {c} PROVE k < r.num_pages /\ k \notin {p, new}
      BY <2>3 DEF kids
    <3> QED BY <1>1, <1>2, <2>2
  <2>5. Parting(r, s)
    BY <1>2, <1>3, <2>1, <2>3, <2>4 DEF Parting, page, new
  <2> QED BY <1>5, <2>1, <2>2, <2>5 DEF page, new
<1> QED BY <1>4, <1>5

\* A split whose pages are not to be had changes no page.
LEMMA RequestStops ==
  ASSUME NEW o, Good(o), Grown(o), NEW p, Inner(o, p), NEW c, Splittable(o, p, c),
         NEW old, old.page = p, NEW r, r = RequestSplit(o, old, o.num_pages), Failed(r)
  PROVE  Halted(r) \/ r.pages = o.pages
<1>1. /\ p \in Pages
      /\ Len(o.pages[p].cells) = INTERNAL_NODE_MAX_CELLS /\ ~Open(o.pages[p])
      /\ \A k \in Kids(o.pages[p]) : k \in Pages /\ k < o.num_pages /\ k # p
  BY DEF Splittable, Inner
<1>2. CASE o.pages[p].is_root
  <2>1. p = root_page_num
    BY <1>1, <1>2 DEF Good, Shaped
  <2>2. /\ Inner(o, old.page) /\ o.pages[old.page].is_root
        /\ ~Open(o.pages[root_page_num])
        /\ \A k \in Kids(o.pages[root_page_num]) : k \in Pages /\ k < o.num_pages /\ k # root_page_num
    BY <1>1, <1>2, <2>1
  <2>3. Len(o.pages[old.page].cells) >= INTERNAL_NODE_MAX_CELLS
    <3>1. \A n : n = 3 => n >= 3
      OBVIOUS
    <3>2. old.page = p
      OBVIOUS
    <3> QED BY ONLY <1>1, <3>1, <3>2, Zenon DEF INTERNAL_NODE_MAX_CELLS
  <2> QED BY <2>2, <2>3, OldRootMoved
<1>3. CASE ~o.pages[p].is_root
  <2>1. Inner(o, old.page) /\ ~o.pages[old.page].is_root
    BY <1>3
  <2> QED BY <2>1, NewNodeOpened
<1> QED BY <1>2, <1>3

LEMMA SplitExactly ==
  ASSUME NEW insert, Contract(insert), NEW o, Good(o), Grown(o), NEW p, Inner(o, p),
         NEW c, Splittable(o, p, c), Fills(insert) \/ FILE_PAGES_NUM <= o.num_pages
  PROVE  Splits(o, p, c, insert, internal_node_split_and_insert(o, p, c, insert))
<1> DEFINE o0 == get_page(o, p)
           o1 == get_page(o0, c)
           new == o1.num_pages
           old == Pointer(o1, p)
           o2 == RequestSplit(o1, old, new)
           child_max == get_node_max_key(o1.pages, c)
           old_max == get_node_max_key(o1.pages, p)
           is_root == o1.pages[p].is_root
           s == SplitLocals(o2, is_root, p, new, Pointer(o1, c), child_max, old_max)
           page == IF is_root THEN o2.pages[root_page_num].cells[1].child ELSE p
           above == IF is_root THEN root_page_num ELSE o2.pages[p].parent
           u == UpdateKey(PlaceChild(ShortenOld(MoveChildren(o2, s, insert), s), s, insert), s)
           put == InsertNew(u, s, insert)
           r == internal_node_split_and_insert(o, p, c, insert)
<1>0. r = IF Failed(o2) THEN o2 ELSE put
  BY DEF internal_node_split_and_insert, FinishSplit
<1> HIDE DEF r, put
<1>1. /\ p \in Pages /\ p \in Nat /\ p < o.num_pages /\ c \in Pages /\ c \in Nat /\ c < o.num_pages
      /\ o.num_pages \in Nat /\ o \in Operations /\ p # o.num_pages /\ c # o.num_pages
  BY InnerNode, PageNumbers DEF Splittable, Good, Shaped, Inner
<1>2. Keeps(o, o0) /\ o0.pages = o.pages /\ o0.num_pages = o.num_pages
  BY <1>1, RequestKeeps
<1> HIDE DEF o0
<1>3. Keeps(o0, o1) /\ o1.pages = o.pages /\ o1.num_pages = o.num_pages
  BY <1>1, <1>2, KeepsContext, RequestKeeps
<1> HIDE DEF o1
<1>4. Good(o1) /\ Grown(o1) /\ Inner(o1, p) /\ Splittable(o1, p, c) /\ o1.pages \in [Pages -> Node]
  <2>1. Keeps(o, o1)
    BY <1>2, <1>3, KeepsTransitive
  <2> QED BY <1>3, <2>1, KeepsContext, OperationFields DEF Splittable, Good
<1>5. old.page = p /\ Pointer(o1, c).page = c
  BY DEF Pointer
<1> HIDE DEF old
<1>6. child_max \in Nat /\ old_max \in Nat
  BY <1>1, <1>4, MaxKeyIsNat
<1> HIDE DEF child_max, old_max
<1>7. new = o.num_pages /\ new = o1.num_pages /\ o1.pages = o.pages
  BY <1>3
<1>8. CASE Failed(o2)
  <2>1. Halted(o2) \/ o2.pages = o1.pages
    BY <1>4, <1>5, <1>8, RequestStops
  <2> QED BY <1>0, <1>3, <1>8, <2>1 DEF Splits, r
<1>9. CASE ~Failed(o2)
  <2>1. o2 = RequestSplit(o1, old, o1.num_pages)
    OBVIOUS
  <2>2. page = SplitPage(o1, old, o2)
    BY <1>5 DEF SplitPage
  <2>3. /\ s.old.page = page /\ s.new.page = new /\ s.parent.page = above
        /\ s.child.page = c /\ s.child_max = child_max /\ s.old_max = old_max
        /\ s.split_root = is_root
    BY <1>5 DEF SplitLocals, Pointer
  <2> HIDE DEF o2, s
  <2>4. /\ Keeps(o1, o2) /\ Inner(o2, page) /\ Inner(o2, new) /\ page # new
    <3>1. /\ Inner(o1, old.page) /\ new = o1.num_pages /\ o2 = RequestSplit(o1, old, new)
      BY <1>4, <1>5, <2>1
    <3>2. Len(o1.pages[old.page].cells) >= INTERNAL_NODE_MAX_CELLS
      <4>1. \A n : n = 3 => n >= 3
        OBVIOUS
      <4>2. Len(o1.pages[p].cells) = INTERNAL_NODE_MAX_CELLS
        BY <1>4 DEF Splittable
      <4> QED BY ONLY <1>5, <4>1, <4>2, Zenon DEF INTERNAL_NODE_MAX_CELLS
    <3> HIDE DEF new
    <3> DEFINE q == SplitPage(o1, old, o2)
    <3>3. Keeps(o1, o2) /\ Inner(o2, q) /\ Inner(o2, new) /\ q # new
      BY ONLY <1>4, <1>9, <3>1, <3>2, SplitRequested
    <3> QED BY <2>2, <3>3
  <2>5. Good(o2) /\ Grown(o2) /\ Inner(o2, above)
    <3>1. Good(o2) /\ Grown(o2)
      BY <1>4, <2>4, KeepsContext
    <3> QED BY <1>1, <3>1, ParentIsInner, RootIsInner
  <2> HIDE DEF page, above
  <2>6. Ready(o2, s)
    BY <1>1, <1>6, <2>3, <2>4, <2>5 DEF Ready
  <2>7. /\ Parting(o2, s) /\ o1.num_pages \in Pages
        /\ IF o1.pages[p].is_root
           THEN /\ s.old.page = o1.num_pages + 1 /\ o2.num_pages = o1.num_pages + 2
                /\ RootGrew(o1.pages, o2.pages, s.old.page, o1.num_pages)
           ELSE /\ s.old.page = p /\ o2.num_pages = o1.num_pages + 1
                /\ Opened(o1.pages, o2.pages, o1.num_pages)
    <3>1. /\ s.old.page = SplitPage(o1, old, o2) /\ s.new.page = o1.num_pages
          /\ s.old.page # s.new.page /\ s.child.page = c
      BY <2>2, <2>3, <2>4
    <3> HIDE DEF new
    <3> QED BY ONLY <1>4, <1>5, <1>9, <2>1, <2>6, <3>1, PagesParting
  <2>8. Fills(insert)
    <3>1. FILE_PAGES_NUM \in Nat
      BY PagePointersAssumption DEF PagePointersAssumption
    <3>2. o.num_pages \in Pages
      BY <1>7, <2>7
    <3>3. o.num_pages < FILE_PAGES_NUM
      BY ONLY <1>1, <3>1, <3>2 DEF Pages
    <3> QED BY <1>1, <3>1, <3>3
  <2>9. /\ Steady(o2, u)
        /\ ~Failed(u) => Parted(o2.pages, u.pages, s.old.page, s.new.page, s.child.page)
    BY <2>5, <2>7, <2>8, SplitMade
  <2> HIDE DEF u
  <2>10. /\ Good(u) /\ Grown(u) /\ u.num_pages = o2.num_pages /\ o2.pages \in [Pages -> Node]
         /\ Failed(u) => Halted(u)
    BY <1>9, <2>5, <2>9, KeepsContext, OperationFields DEF Steady, FailsHalted, Good
  <2>11. CASE is_root
    <3>1. put = u
      BY <2>3, <2>11 DEF put, InsertNew
    <3>2. ASSUME ~Failed(u) PROVE RootParted(o, c, u)
      <4>1. /\ s.old.page = new + 1 /\ s.new.page = new /\ s.child.page = c
            /\ o2.num_pages = new + 2 /\ RootGrew(o.pages, o2.pages, new + 1, new)
            /\ new \in Pages
        BY <1>7, <2>3, <2>7, <2>11
      <4>2. new + 1 \in Pages
        BY <2>3, <2>4, <4>1 DEF Inner
      <4>3. Parted(o2.pages, u.pages, new + 1, new, c)
        BY <2>9, <3>2, <4>1
      <4>4. u.num_pages = new + 1 + 1
        BY <1>1, <1>7, <2>10, <4>1
      <4> HIDE DEF new
      <4> QED BY ONLY <1>7, <2>10, <4>1, <4>2, <4>3, <4>4 DEF RootParted
    <3>3. o.pages[p].is_root
      BY <1>7, <2>11
    <3> QED BY <1>0, <1>9, <2>10, <3>1, <3>2, <3>3 DEF Splits, r
  <2>12. CASE ~is_root
    <3> DEFINE aboveOld == u.pages[s.old.page].parent
               done == insert[Call(u, aboveOld, s.new.page)]
               used == Use(done, {s.old})
    <3>1. put = SetParent(used, s.new, done.pages[s.old.page].parent)
      BY <2>3, <2>12 DEF put, InsertNew
    <3>2. /\ s.old.page = p /\ s.new.page = new /\ s.child.page = c
          /\ o2.num_pages = new + 1 /\ Opened(o.pages, o2.pages, new) /\ new \in Pages /\ new \in Nat
      BY <1>1, <1>7, <2>3, <2>7, <2>12
    <3>3. CASE Failed(u)
      <4>1. Inner(u, aboveOld)
        BY <1>1, <2>10, <3>2, ParentIsInner
      <4> HIDE DEF aboveOld
      <4>2. done = u
        BY <2>10, <3>2, <3>3, <4>1, Called DEF Inserts
      <4> HIDE DEF done
      <4>3. used = u
        BY <3>3, <4>2 DEF Use
      <4> HIDE DEF used
      <4>4. put = u
        BY <3>1, <3>3, <4>3 DEF SetParent
      <4> QED BY <1>0, <1>9, <2>10, <3>3, <4>4 DEF Splits, r
    <3>4. CASE ~Failed(u)
      <4>1. Parted(o2.pages, u.pages, p, new, c)
        BY <2>9, <3>2, <3>4
      <4> HIDE DEF new
      <4>2. NodeParted(o, p, c, u)
        BY ONLY <1>7, <2>10, <3>2, <3>4, <4>1 DEF NodeParted
      <4>3. NewPut(o, p, u, insert, put)
        <5>1. done = insert[Call(u, u.pages[p].parent, o.num_pages)]
          BY <1>7, <3>2
        <5> HIDE DEF done
        <5>2. put = SetParent(Use(done, {s.old}), s.new, done.pages[p].parent)
          BY <3>1, <3>2
        <5>3. s.new.page = o.num_pages
          BY <1>7, <3>2
        <5> QED BY ONLY <5>1, <5>2, <5>3 DEF NewPut
      <4>4. ~o.pages[p].is_root
        BY <1>7, <2>12
      <4>5. r = put
        BY <1>0, <1>9
      <4> QED BY <4>2, <4>3, <4>4, <4>5 DEF Splits, r
    <3> QED BY <3>3, <3>4
  <2> QED BY <2>11, <2>12
<1> QED BY <1>8, <1>9

-----------------------------------------------------------------------------
(***************************************************************************)
(* Ranks: a number for every page of the tree, less than its parent's.     *)
(***************************************************************************)

\* The pages h ranks are in use, page 0 among them.  A page names as its
\* parent one of greater rank and has children of less, and none is open
\* but those that are to be filled.  No other page was ever told a parent.
Ranked(tree, n, h, open) ==
  LET T == DOMAIN h
  IN /\ root_page_num \in T /\ T \subseteq Pages /\ h \in [T -> Nat] /\ h[root_page_num] < n
     /\ \A p \in T : p < n
     /\ \A p \in Pages \ T : tree[p].parent = root_page_num
     /\ \A p \in T \ {root_page_num} :
          /\ h[p] < h[root_page_num]
          /\ tree[p].parent \in T /\ h[p] < h[tree[p].parent]
     /\ \A p \in T : \A c \in Kids(tree[p]) : c \in T /\ h[c] < h[p]
     /\ \A p \in T : ~IsLeaf(tree[p]) => /\ Len(tree[p].cells) <= INTERNAL_NODE_MAX_CELLS
                                         /\ p \notin open => ~Open(tree[p])

\* More pages are ranked, and the root may be higher.
Extends(h, g) ==
  /\ DOMAIN h \subseteq DOMAIN g
  /\ \A p \in DOMAIN h \ {root_page_num} : g[p] = h[p]
  /\ h[root_page_num] <= g[root_page_num]

LEMMA RankedLater ==
  ASSUME NEW tree, NEW n \in Nat, NEW m \in Nat, n <= m, NEW h, NEW open, Ranked(tree, n, h, open)
  PROVE  Ranked(tree, m, h, open) /\ Extends(h, h)
<1>1. \A p \in DOMAIN h : p \in Nat /\ h[p] \in Nat
  BY PageNumbers DEF Ranked
<1> QED BY <1>1 DEF Ranked, Extends

\* A node with room takes a child of less rank.
LEMMA RankedJoined ==
  ASSUME NEW a, NEW b, NEW n \in Nat, NEW h, Ranked(a, n, h, {}), NEW p \in DOMAIN h, NEW c \in DOMAIN h,
         h[c] < h[p], Len(a[p].cells) \in Nat, Len(a[p].cells) < INTERNAL_NODE_MAX_CELLS, Joined(a, b, p, c)
  PROVE  Ranked(b, n, h, {})
<1>1. /\ p \in Pages /\ \A q \in Pages \ {p} : b[q] = a[q]
      /\ b[p].parent = a[p].parent /\ b[p].right \in Pages /\ Kids(b[p]) = Kids(a[p]) \cup {c}
      /\ Len(b[p].cells) = IF Open(a[p]) THEN Len(a[p].cells) ELSE Len(a[p].cells) + 1
  BY DEF Ranked, Joined, NodeJoined
<1>2. \A q \in Pages : b[q].parent = a[q].parent
  BY <1>1
<1>3. \A q \in DOMAIN h : \A k \in Kids(b[q]) : k \in DOMAIN h /\ h[k] < h[q]
  BY <1>1 DEF Ranked
<1>4. \A q \in DOMAIN h : ~IsLeaf(b[q]) => /\ Len(b[q].cells) <= INTERNAL_NODE_MAX_CELLS
                                           /\ q \notin {} => ~Open(b[q])
  <2> TAKE q \in DOMAIN h
  <2>1. CASE q = p
    <3>1. Len(b[p].cells) <= INTERNAL_NODE_MAX_CELLS
      <4>1. Len(b[p].cells) = Len(a[p].cells) \/ Len(b[p].cells) = Len(a[p].cells) + 1
        BY <1>1
      <4> QED BY <4>1 DEF INTERNAL_NODE_MAX_CELLS
    <3>2. ~Open(b[p])
      BY <1>1, PageNumbers DEF Open
    <3> QED BY <2>1, <3>1, <3>2
  <2>2. CASE q # p
    BY <1>1, <2>2 DEF Ranked
  <2> QED BY <2>1, <2>2
<1> QED BY <1>2, <1>3, <1>4 DEF Ranked

\* A page is told of a parent of greater rank.
LEMMA RankedReparented ==
  ASSUME NEW a \in [Pages -> Node], NEW n \in Nat, NEW h, Ranked(a, n, h, {}), NEW p \in DOMAIN h,
         NEW c \in DOMAIN h, h[c] < h[p]
  PROVE  Ranked(Reparented(a, c, p), n, h, {})
<1> DEFINE b == Reparented(a, c, p)
<1>1. p \in Pages /\ c \in Pages
  BY DEF Ranked
<1>2. b[c] = [a[c] EXCEPT !.parent = p] /\ \A q \in Pages \ {c} : b[q] = a[q]
  BY <1>1 DEF Reparented
<1> HIDE DEF b
<1>3. b[c].parent = p /\ Alike(a[c], b[c])
  <2> DEFINE node == a[c]
  <2>1. node \in Node
    BY <1>1
  <2> HIDE DEF node
  <2>2. LET new == [node EXCEPT !.parent = p] IN new.parent = p /\ Alike(node, new)
    BY <1>1, <2>1, AlikeParent
  <2> QED BY <1>2, <2>2 DEF node
<1>4. \A q \in Pages : Alike(a[q], b[q]) /\ b[q].parent = IF q = c THEN p ELSE a[q].parent
  <2>1. \A q \in Pages : Alike(a[q], a[q])
    BY DEF Alike
  <2> QED BY <1>2, <1>3, <2>1
<1>5. DOMAIN h \subseteq Pages
  BY DEF Ranked
<1>6. \A q \in DOMAIN h : \A k \in Kids(b[q]) : k \in DOMAIN h /\ h[k] < h[q]
  BY <1>4, <1>5 DEF Ranked, Alike
<1>7. \A q \in DOMAIN h : ~IsLeaf(b[q]) => /\ Len(b[q].cells) <= INTERNAL_NODE_MAX_CELLS
                                           /\ q \notin {} => ~Open(b[q])
  BY <1>4, <1>5 DEF Ranked, Alike
<1>8. \A q \in DOMAIN h \ {root_page_num} : b[q].parent \in DOMAIN h /\ h[q] < h[b[q].parent]
  BY <1>4, <1>5 DEF Ranked
<1>9. \A q \in Pages \ DOMAIN h : b[q].parent = root_page_num
  BY <1>4 DEF Ranked
<1> QED BY <1>6, <1>7, <1>8, <1>9 DEF Ranked, b

\* The new page of a split that is not the root's has the old one's rank.
RanksOpened(tree, new, h, p, g) ==
  /\ Ranked(tree, new + 1, g, {new}) /\ Extends(h, g)
  /\ DOMAIN g = DOMAIN h \cup {new} /\ g[new] = h[p]
  /\ \A q \in DOMAIN h : g[q] = h[q]

LEMMA RankedOpened ==
  ASSUME NEW a, NEW b, NEW n \in Nat, NEW h, Ranked(a, n, h, {}), NEW p \in DOMAIN h, p # root_page_num,
         n \in Pages, Opened(a, b, n)
  PROVE  \E g : RanksOpened(b, n, h, p, g)
<1> DEFINE T == DOMAIN h
           g == [q \in T \cup {n} |-> IF q = n THEN h[p] ELSE h[q]]
<1>1. /\ root_page_num \in T /\ T \subseteq Pages /\ h \in [T -> Nat] /\ h[root_page_num] < n
      /\ \A q \in T : q < n /\ q \in Nat /\ h[q] \in Nat
      /\ n \notin T
  BY PageNumbers DEF Ranked
<1>2. /\ DOMAIN g = T \cup {n} /\ g[n] = h[p] /\ \A q \in T : g[q] = h[q]
      /\ g \in [T \cup {n} -> Nat]
  BY <1>1
<1> HIDE DEF g
<1>3. Open(b[n]) /\ b[n].cells = <<>> /\ b[n].parent = root_page_num /\ \A q \in Pages \ {n} : b[q] = a[q]
  BY <1>1 DEF Opened, Ranked
<1>4. Kids(b[n]) = {} /\ Len(b[n].cells) = 0
  <2>1. Firsts(<<>>) = {} /\ Len(<<>>) = 0
    BY DEF Firsts
  <2> QED BY <1>3, <2>1 DEF Kids, Open
<1>5. Extends(h, g)
  BY <1>1, <1>2 DEF Extends
<1>6. \A q \in T : b[q] = a[q]
  BY <1>1, <1>3
<1>7. Ranked(b, n + 1, g, {n})
  <2>1. /\ root_page_num \in DOMAIN g /\ DOMAIN g \subseteq Pages /\ g \in [DOMAIN g -> Nat]
        /\ g[root_page_num] < n + 1 /\ \A q \in DOMAIN g : q < n + 1
    BY <1>1, <1>2
  <2>2. \A q \in Pages \ DOMAIN g : b[q].parent = root_page_num
    BY <1>2, <1>3 DEF Ranked
  <2>3. \A q \in DOMAIN g \ {root_page_num} : /\ g[q] < g[root_page_num]
                                              /\ b[q].parent \in DOMAIN g /\ g[q] < g[b[q].parent]
    <3> TAKE q \in DOMAIN g \ {root_page_num}
    <3>1. CASE q = n
      BY <1>1, <1>2, <1>3, <3>1 DEF Ranked
    <3>2. CASE q \in T
      BY <1>1, <1>2, <1>6, <3>2 DEF Ranked
    <3> QED BY <1>2, <3>1, <3>2
  <2>4. \A q \in DOMAIN g : \A k \in Kids(b[q]) : k \in DOMAIN g /\ g[k] < g[q]
    <3> TAKE q \in DOMAIN g
    <3>1. CASE q = n
      BY <1>4, <3>1
    <3>2. CASE q \in T
      BY <1>2, <1>6, <3>2 DEF Ranked
    <3> QED BY <1>2, <3>1, <3>2
  <2>5. \A q \in DOMAIN g : ~IsLeaf(b[q]) => /\ Len(b[q].cells) <= INTERNAL_NODE_MAX_CELLS
                                             /\ q \notin {n} => ~Open(b[q])
    <3> TAKE q \in DOMAIN g
    <3>1. CASE q = n
      BY <1>4, <3>1 DEF INTERNAL_NODE_MAX_CELLS
    <3>2. CASE q \in T
      BY <1>6, <3>2 DEF Ranked
    <3> QED BY <1>2, <3>1, <3>2
  <2> QED BY <2>1, <2>2, <2>3, <2>4, <2>5 DEF Ranked
<1>8. RanksOpened(b, n, h, p, g)
  BY <1>2, <1>5, <1>7 DEF RanksOpened
<1> QED BY <1>8

\* A higher root.  When it was an internal node the page on its right is
\* new too, and to be filled.
RanksGrown(a, b, m, h, left, right, open, g) ==
  /\ Ranked(b, m, g, open) /\ Extends(h, g)
  /\ DOMAIN g = DOMAIN h \cup {left, right} /\ g[left] = h[root_page_num]
  /\ g[root_page_num] = h[root_page_num] + 1
  /\ ~IsLeaf(a[root_page_num]) => g[right] = g[left]

LEMMA RankedGrew ==
  ASSUME NEW a, NEW b, NEW n \in Nat, NEW m \in Nat, NEW h, Ranked(a, n, h, {}),
         NEW left \in Pages \ DOMAIN h, NEW right \in Pages \ {root_page_num}, left # right,
         right \in DOMAIN h <=> IsLeaf(a[root_page_num]),
         n < m, left < m, right < m, RootGrew(a, b, left, right),
         NEW open, open = IF IsLeaf(a[root_page_num]) THEN {} ELSE {right}
  PROVE  \E g : RanksGrown(a, b, m, h, left, right, open, g)
<1> DEFINE T == DOMAIN h
           R == root_page_num
           g == [q \in T \cup {left, right} |->
                   IF q = R THEN h[R] + 1 ELSE IF q \in T THEN h[q] ELSE h[R]]
<1>1. /\ R \in T /\ T \subseteq Pages /\ h \in [T -> Nat] /\ h[R] < n /\ left \notin T /\ left # R
      /\ \A q \in T : q < n /\ q \in Nat /\ h[q] \in Nat
      /\ \A q \in T : h[q] <= h[R]
  <2>1. \A q \in DOMAIN h : q \in Nat /\ h[q] \in Nat /\ (q = root_page_num \/ h[q] < h[root_page_num])
    BY PageNumbers DEF Ranked
  <2>2. Ranked(a, n, h, {}) /\ left \notin DOMAIN h /\ n \in Nat
    OBVIOUS
  <2> QED BY ONLY <2>1, <2>2 DEF Ranked
<1>2. /\ DOMAIN g = T \cup {left, right} /\ g[R] = h[R] + 1 /\ g[left] = h[R]
      /\ \A q \in T \ {R} : g[q] = h[q]
      /\ right \notin T => g[right] = h[R]
      /\ g \in [T \cup {left, right} -> Nat]
  BY <1>1
<1> HIDE DEF g
<1>3. Extends(h, g)
  BY <1>1, <1>2 DEF Extends
<1>4. /\ ~IsLeaf(b[R]) /\ ~Open(b[R]) /\ Len(b[R].cells) = 1 /\ Kids(b[R]) = {left, right}
      /\ Alike(a[R], b[left])
      /\ IF IsLeaf(a[R]) THEN Alike(a[right], b[right]) ELSE Open(b[right]) /\ b[right].cells = <<>>
      /\ \A q \in Pages \ {R, left, right} : Alike(a[q], b[q])
      /\ \A q \in Pages : b[q].parent = IF q \in {left, right} THEN R
                                        ELSE IF q \in Kids(a[R]) THEN left ELSE a[q].parent
  BY DEF RootGrew
<1>5. \A q \in DOMAIN g \ {R} : g[q] < g[R]
  <2> TAKE q \in DOMAIN g \ {R}
  <2>1. CASE q \in T
    BY <1>1, <1>2, <2>1
  <2>2. CASE q \notin T
    BY <1>1, <1>2, <2>2
  <2> QED BY <2>1, <2>2
<1>6. \A q \in Kids(a[R]) : q \in T /\ h[q] < h[R] /\ q # R
  <2>1. \A q \in Kids(a[R]) : q \in T /\ h[q] < h[R]
    BY <1>1 DEF Ranked
  <2> QED BY <1>1, <2>1
<1>7. \A q \in DOMAIN g \ {R} : b[q].parent \in DOMAIN g /\ g[q] < g[b[q].parent]
  <2> TAKE q \in DOMAIN g \ {R}
  <2>0. q \in Pages
    BY <1>1, <1>2
  <2>1. CASE q \in {left, right}
    BY <1>1, <1>2, <1>4, <1>5, <2>0, <2>1
  <2>2. CASE q \notin {left, right} /\ q \in Kids(a[R])
    <3>1. b[q].parent = left /\ g[q] = h[q] /\ h[q] < h[R]
      BY <1>2, <1>4, <1>6, <2>0, <2>2
    <3> QED BY <1>2, <3>1
  <2>3. CASE q \notin {left, right} /\ q \notin Kids(a[R])
    <3>1. q \in T \ {R} /\ b[q].parent = a[q].parent /\ g[q] = h[q]
      BY <1>2, <1>4, <2>0, <2>3
    <3>2. a[q].parent \in T /\ h[q] < h[a[q].parent]
      BY <3>1 DEF Ranked
    <3>3. h[a[q].parent] <= g[a[q].parent] /\ g[a[q].parent] \in Nat /\ h[a[q].parent] \in Nat /\ h[q] \in Nat
      BY <1>1, <1>2, <3>1, <3>2
    <3> QED BY <1>2, <3>1, <3>2, <3>3
  <2> QED BY <2>1, <2>2, <2>3
<1>8. \A q \in DOMAIN g : \A k \in Kids(b[q]) : k \in DOMAIN g /\ g[k] < g[q]
  <2> SUFFICES ASSUME NEW q \in DOMAIN g, NEW k \in Kids(b[q])
               PROVE  k \in DOMAIN g /\ g[k] < g[q]
    OBVIOUS
  <2>1. CASE q = R
    <3>1. k \in {left, right}
      BY <1>4, <2>1
    <3>2. k # R
      BY <1>1, <3>1
    <3> QED BY <1>2, <1>5, <2>1, <3>1, <3>2
  <2>2. CASE q = left
    <3>1. k \in Kids(a[R])
      BY <1>4, <2>2 DEF Alike
    <3> QED BY <1>2, <1>6, <2>2, <3>1
  <2>3. CASE q = right /\ ~IsLeaf(a[R])
    <3>1. Kids(b[right]) = {}
      <4>1. Firsts(<<>>) = {}
        BY DEF Firsts
      <4> QED BY <1>4, <2>3, <4>1 DEF Kids, Open
    <3> QED BY <2>3, <3>1
  <2>4. CASE q \in T \ {R}
    <3>1. Alike(a[q], b[q])
      <4>1. q # left /\ q \in Pages
        BY <1>1, <2>4
      <4>2. q = right => IsLeaf(a[R])
        BY <2>4
      <4> QED BY <1>4, <2>4, <4>1, <4>2
    <3>2. k \in T /\ h[k] < h[q]
      BY <2>4, <3>1 DEF Alike, Ranked
    <3>3. k # R
      BY <1>1, <2>4, <3>2
    <3> QED BY <1>2, <2>4, <3>2, <3>3
  <2> QED BY <1>2, <2>1, <2>2, <2>3, <2>4
<1>9. \A q \in DOMAIN g : ~IsLeaf(b[q]) => /\ Len(b[q].cells) <= INTERNAL_NODE_MAX_CELLS
                                           /\ q \notin open => ~Open(b[q])
  <2> TAKE q \in DOMAIN g
  <2>1. CASE q = R
    <3>1. Len(b[R].cells) <= INTERNAL_NODE_MAX_CELLS
      <4>1. Len(b[R].cells) = 1
        BY <1>4
      <4> QED BY ONLY <4>1 DEF INTERNAL_NODE_MAX_CELLS
    <3> QED BY <1>4, <2>1, <3>1
  <2>2. CASE q = left
    BY <1>1, <1>4, <2>2 DEF Alike, Ranked
  <2>3. CASE q = right /\ ~IsLeaf(a[R])
    <3>1. Len(<<>>) = 0
      OBVIOUS
    <3> QED BY <1>4, <2>3, <3>1 DEF INTERNAL_NODE_MAX_CELLS
  <2>4. CASE q \in T \ {R}
    <3>1. Alike(a[q], b[q])
      <4>1. q # left /\ q \in Pages
        BY <1>1, <2>4
      <4>2. q = right => IsLeaf(a[R])
        BY <2>4
      <4> QED BY <1>4, <2>4, <4>1, <4>2
    <3> QED BY <2>4, <3>1 DEF Alike, Ranked
  <2> QED BY <1>2, <2>1, <2>2, <2>3, <2>4
<1>10. \A q \in Pages \ DOMAIN g : b[q].parent = R
  <2> TAKE q \in Pages \ DOMAIN g
  <2>1. q \notin {left, right} /\ q \notin Kids(a[R]) /\ q \notin T
    BY <1>2, <1>6
  <2> QED BY <1>4, <2>1 DEF Ranked
<1>11. /\ R \in DOMAIN g /\ DOMAIN g \subseteq Pages /\ g \in [DOMAIN g -> Nat]
       /\ g[R] < m /\ \A q \in DOMAIN g : q < m
  BY <1>1, <1>2
<1>12. Ranked(b, m, g, open)
  BY <1>5, <1>7, <1>8, <1>9, <1>10, <1>11 DEF Ranked
<1>13. ~IsLeaf(a[R]) => g[right] = g[left]
  BY <1>2
<1>14. RanksGrown(a, b, m, h, left, right, open, g)
  BY <1>2, <1>3, <1>12, <1>13 DEF RanksGrown
<1> QED BY <1>14

\* The new page of a split is filled, the child put in one of the two.
LEMMA RankedParted ==
  ASSUME NEW a, NEW b, NEW n \in Nat, NEW old, NEW new, NEW h, Ranked(a, n, h, {new}),
         NEW c, {old, new, c} \subseteq DOMAIN h, h[new] = h[old], h[c] < h[old],
         Parted(a, b, old, new, c)
  PROVE  Ranked(b, n, h, {})
<1> DEFINE T == DOMAIN h
           R == root_page_num
<1>1. PICK k1, k2, k3, k4 \in Pages, to \in {old, new} :
    /\ Quarters(a[old], k1, k2, k3, k4)
    /\ Kids(b[old]) = {k1, k2} \cup (IF to = old THEN {c} ELSE {})
    /\ Kids(b[new]) = {k3, k4} \cup (IF to = new THEN {c} ELSE {})
    /\ \A p \in {old, new} : /\ ~IsLeaf(b[p]) /\ ~Open(b[p]) /\ Len(b[p].cells) \in 1 .. 2
                             /\ Apart(a[old]) /\ c \notin Kids(a[old]) => Apart(b[p])
    /\ \A q \in Pages \ {old, new} : Alike(a[q], b[q])
    /\ \A q \in Pages : b[q].parent = IF q = c THEN to
                                      ELSE IF q \in {k3, k4} THEN new ELSE a[q].parent
  BY DEF Parted
<1>2. Kids(a[old]) = {k1, k2, k3, k4}
  BY <1>1 DEF Quarters
<1>3. \A k \in {k1, k2, k3, k4, c} : k \in T /\ h[k] < h[old] /\ h[k] < h[new]
  BY <1>2 DEF Ranked
<1>4. \A q \in T \ {R} : b[q].parent \in T /\ h[q] < h[b[q].parent]
  <2> TAKE q \in T \ {R}
  <2>0. q \in Pages
    BY DEF Ranked
  <2>1. CASE q = c
    BY <1>1, <1>3, <2>0, <2>1
  <2>2. CASE q # c /\ q \in {k3, k4}
    BY <1>1, <1>3, <2>0, <2>2
  <2>3. CASE q # c /\ q \notin {k3, k4}
    BY <1>1, <2>0, <2>3 DEF Ranked
  <2> QED BY <2>1, <2>2, <2>3
<1>5. \A q \in T : \A k \in Kids(b[q]) : k \in T /\ h[k] < h[q]
  <2> SUFFICES ASSUME NEW q \in T, NEW k \in Kids(b[q]) PROVE k \in T /\ h[k] < h[q]
    OBVIOUS
  <2>0. q \in Pages
    BY DEF Ranked
  <2>1. CASE q \in {old, new}
    <3>1. k \in {k1, k2, k3, k4, c}
      BY <1>1, <2>1
    <3> QED BY <1>3, <2>1, <3>1
  <2>2. CASE q \notin {old, new}
    BY <1>1, <2>0, <2>2 DEF Alike, Ranked
  <2> QED BY <2>1, <2>2
<1>6. \A q \in T : ~IsLeaf(b[q]) => /\ Len(b[q].cells) <= INTERNAL_NODE_MAX_CELLS
                                    /\ q \notin {} => ~Open(b[q])
  <2> TAKE q \in T
  <2>0. q \in Pages
    BY DEF Ranked
  <2>1. CASE q \in {old, new}
    <3>1. Len(b[q].cells) \in 1 .. 2 /\ ~Open(b[q])
      BY <1>1, <2>1
    <3>2. Len(b[q].cells) <= INTERNAL_NODE_MAX_CELLS
      <4>1. \A x \in 1 .. 2 : x <= INTERNAL_NODE_MAX_CELLS
        BY DEF INTERNAL_NODE_MAX_CELLS
      <4> QED BY ONLY <3>1, <4>1
    <3> QED BY <3>1, <3>2
  <2>2. CASE q \notin {old, new}
    BY <1>1, <2>0, <2>2 DEF Alike, Ranked
  <2> QED BY <2>1, <2>2
<1>7. \A q \in Pages \ T : b[q].parent = R
  BY <1>1, <1>3 DEF Ranked
<1> QED BY <1>4, <1>5, <1>6, <1>7 DEF Ranked

LEMMA ExtendsTransitive ==
  ASSUME NEW h, NEW g, NEW f, Extends(h, g), Extends(g, f),
         root_page_num \in DOMAIN h, h[root_page_num] \in Nat, g[root_page_num] \in Nat, f[root_page_num] \in Nat
  PROVE  Extends(h, f)
BY DEF Extends

\* Child c may be put under page p of a ranked tree.
Placing(o, h, p, c) ==
  /\ Good(o) /\ Grown(o) /\ Ranked(o.pages, o.num_pages, h, {})
  /\ {p, c} \subseteq DOMAIN h /\ ~IsLeaf(o.pages[p]) /\ h[c] < h[p]

RankKept(h, r) ==
  Halted(r) \/ \E g : Ranked(r.pages, r.num_pages, g, {}) /\ Extends(h, g)

\* The calls of insert keep a tree ranked when m pages or more are in use.
Ranks(insert, m) ==
  \A call \in Calls : \A h :
    m <= call.op.num_pages /\ Placing(call.op, h, call.parent, call.child) => RankKept(h, insert[call])

LEMMA RanksOf ==
  ASSUME NEW tree, NEW n, NEW h, NEW open, Ranked(tree, n, h, open)
  PROVE  /\ root_page_num \in DOMAIN h /\ DOMAIN h \subseteq Pages
         /\ \A p \in DOMAIN h : p \in Nat /\ p < n /\ h[p] \in Nat /\ h[p] <= h[root_page_num]
         /\ \A p \in DOMAIN h \ {root_page_num} :
              h[p] < h[root_page_num] /\ tree[p].parent \in DOMAIN h /\ h[p] < h[tree[p].parent]
         /\ \A p \in DOMAIN h : \A c \in Kids(tree[p]) : c \in DOMAIN h /\ h[c] < h[p]
<1>1. \A p \in DOMAIN h : p \in Nat /\ h[p] \in Nat
  BY PageNumbers DEF Ranked
<1> QED BY <1>1 DEF Ranked

LEMMA PlacingFacts ==
  ASSUME NEW o, NEW h, NEW p, NEW c, Placing(o, h, p, c)
  PROVE  /\ Good(o) /\ Grown(o) /\ Inner(o, p) /\ o.num_pages \in Nat /\ o.num_pages >= 1
         /\ o.pages \in [Pages -> Node]
         /\ o.pages[p] \in InternalNode /\ Len(o.pages[p].cells) \in Nat
         /\ Len(o.pages[p].cells) <= INTERNAL_NODE_MAX_CELLS /\ ~Open(o.pages[p])
         /\ c \in Pages /\ c \in Nat /\ c < o.num_pages /\ c # p
         /\ \A k \in Kids(o.pages[p]) : k \in Pages /\ k < o.num_pages /\ k # p
<1>1. /\ Good(o) /\ Grown(o) /\ Ranked(o.pages, o.num_pages, h, {})
      /\ p \in DOMAIN h /\ c \in DOMAIN h /\ ~IsLeaf(o.pages[p]) /\ h[c] < h[p]
  BY DEF Placing
<1>2. /\ DOMAIN h \subseteq Pages
      /\ \A q \in DOMAIN h : q \in Nat /\ q < o.num_pages /\ h[q] \in Nat
      /\ \A k \in Kids(o.pages[p]) : k \in DOMAIN h /\ h[k] < h[p]
  BY <1>1, RanksOf
<1>3. Inner(o, p)
  BY <1>1, <1>2 DEF Inner
<1>4. /\ o.pages[p] \in InternalNode /\ Len(o.pages[p].cells) \in Nat
      /\ o.pages \in [Pages -> Node] /\ o.num_pages \in Nat /\ o.num_pages >= 1
  BY <1>1, <1>3, InnerNode DEF Good, Shaped
<1>5. Len(o.pages[p].cells) <= INTERNAL_NODE_MAX_CELLS /\ ~Open(o.pages[p])
  BY <1>1 DEF Ranked
<1> QED BY <1>1, <1>2, <1>3, <1>4, <1>5

\* The root is split.
LEMMA RootSplitRanked ==
  ASSUME NEW o, NEW h, NEW p, NEW c, Placing(o, h, p, c), p = root_page_num,
         NEW r, RootParted(o, c, r)
  PROVE  RankKept(h, r)
<1> DEFINE new == o.num_pages
           page == new + 1
           n == page + 1
<1>1. /\ o.num_pages \in Nat /\ o.num_pages >= 1 /\ ~IsLeaf(o.pages[root_page_num])
      /\ Ranked(o.pages, o.num_pages, h, {}) /\ {p, c} \subseteq DOMAIN h /\ h[c] < h[p]
      /\ c # root_page_num
  <2>1. o.num_pages \in Nat /\ o.num_pages >= 1 /\ c # p
    BY PlacingFacts
  <2> QED BY <2>1 DEF Placing
<1>2. PICK g \in [Pages -> Node] : RootGrew(o.pages, g, page, new) /\ Parted(g, r.pages, page, new, c)
  BY DEF RootParted
<1>3. {new, page} \subseteq Pages /\ r.num_pages = n
  BY DEF RootParted
<1>4. \A q \in DOMAIN h : q \in Nat /\ q < o.num_pages /\ h[q] \in Nat
  BY <1>1, RanksOf
<1>5. /\ page \in Pages \ DOMAIN h /\ new \in Pages \ {root_page_num} /\ page # new
      /\ new \notin DOMAIN h /\ o.num_pages < n /\ page < n /\ new < n /\ n \in Nat
  BY <1>1, <1>3, <1>4 DEF root_page_num
<1> HIDE DEF n, page, new
<1>6. PICK f : /\ Ranked(g, n, f, {new}) /\ Extends(h, f)
               /\ DOMAIN f = DOMAIN h \cup {page, new} /\ f[page] = h[root_page_num]
               /\ f[new] = f[page]
  <2> DEFINE tree == o.pages
             open == IF IsLeaf(tree[root_page_num]) THEN {} ELSE {new}
             m == o.num_pages
  <2>1. open = {new} /\ ~IsLeaf(tree[root_page_num]) /\ (new \in DOMAIN h <=> IsLeaf(tree[root_page_num]))
    BY <1>1, <1>5
  <2>2. Ranked(tree, m, h, {}) /\ m \in Nat /\ m < n /\ RootGrew(tree, g, page, new)
    BY <1>1, <1>2, <1>5
  <2> HIDE DEF tree, m
  <2>3. open = IF IsLeaf(tree[root_page_num]) THEN {} ELSE {new}
    OBVIOUS
  <2> HIDE DEF open
  <2>4. \E f : RanksGrown(tree, g, n, h, page, new, open, f)
    BY ONLY <1>5, <2>1, <2>2, <2>3, RankedGrew
  <2> QED BY ONLY <2>1, <2>4 DEF RanksGrown
<1>7. f[c] = h[c]
  BY <1>1, <1>6 DEF Extends
<1>8. {page, new, c} \subseteq DOMAIN f /\ f[c] < f[page]
  BY <1>1, <1>6, <1>7
<1>9. Ranked(r.pages, n, f, {})
  BY <1>2, <1>5, <1>6, <1>8, RankedParted
<1> QED BY <1>3, <1>6, <1>9 DEF RankKept

\* Another node is, and the new one is put above.
LEMMA NodeSplitRanked ==
  ASSUME NEW insert, Contract(insert), NEW o, NEW h, NEW p, NEW c, Placing(o, h, p, c),
         p # root_page_num, Ranks(insert, o.num_pages + 1),
         NEW u, NodeParted(o, p, c, u), NEW r, NewPut(o, p, u, insert, r)
  PROVE  RankKept(h, r)
<1> DEFINE new == o.num_pages
           above == u.pages[p].parent
           done == insert[Call(u, above, new)]
<1>1. /\ o.num_pages \in Nat /\ p \in Pages
      /\ Ranked(o.pages, o.num_pages, h, {}) /\ p \in DOMAIN h /\ c \in DOMAIN h /\ h[c] < h[p]
  BY PlacingFacts DEF Placing, Inner
<1>2. Good(u) /\ Grown(u) /\ ~Failed(u) /\ new \in Pages /\ u.num_pages = new + 1
  BY DEF NodeParted
<1>3. PICK t \in [Pages -> Node] : Opened(o.pages, t, new) /\ Parted(t, u.pages, p, new, c)
  BY DEF NodeParted
<1>4. PICK ptrs, ptr : ptr.page = new /\ r = SetParent(Use(done, ptrs), ptr, done.pages[p].parent)
  BY DEF NewPut
<1>5. \A q \in DOMAIN h : q \in Nat /\ q < new /\ h[q] \in Nat
  BY <1>1, RanksOf
<1> HIDE DEF done, above
<1>6. PICK g : /\ Ranked(t, new + 1, g, {new}) /\ Extends(h, g)
               /\ DOMAIN g = DOMAIN h \cup {new} /\ g[new] = h[p]
               /\ \A q \in DOMAIN h : g[q] = h[q]
  <2> DEFINE tree == o.pages
  <2>1. /\ Ranked(tree, new, h, {}) /\ new \in Nat /\ new \in Pages /\ p \in DOMAIN h /\ p # root_page_num
        /\ Opened(tree, t, new)
    BY <1>1, <1>2, <1>3
  <2> HIDE DEF new, tree
  <2>2. \E g : RanksOpened(t, new, h, p, g)
    BY ONLY <2>1, RankedOpened
  <2> QED BY ONLY <2>2 DEF RanksOpened
<1>7. {p, new, c} \subseteq DOMAIN g /\ g[new] = g[p] /\ g[c] < g[p]
  BY <1>1, <1>6
<1>8. new + 1 \in Nat
  BY <1>1
<1> HIDE DEF new
<1>9. Ranked(u.pages, u.num_pages, g, {})
  BY <1>2, <1>3, <1>6, <1>7, <1>8, RankedParted
<1>10. above \in DOMAIN g /\ g[p] < g[above]
  BY <1>1, <1>7, <1>9, RanksOf DEF above
<1>11. Inner(u, above)
  BY <1>1, <1>2, ParentIsInner DEF above
<1>12. Placing(u, g, above, new)
  BY <1>2, <1>7, <1>9, <1>10, <1>11 DEF Placing, Inner
<1>13. RankKept(g, done)
  <2> DEFINE call == Call(u, above, new)
  <2>1. /\ call \in Calls /\ call.op = u /\ call.parent = above /\ call.child = new
    <3>1. u \in Operations /\ above \in Nat /\ new \in Nat
      BY <1>2, <1>11, PageNumbers DEF Good, Inner
    <3> QED BY <3>1 DEF Call, Calls
  <2>2. o.num_pages + 1 <= u.num_pages
    BY <1>1, <1>2 DEF new
  <2> HIDE DEF call
  <2>3. RankKept(g, insert[call])
    BY <1>12, <2>1, <2>2 DEF Ranks
  <2> QED BY <2>3 DEF done, call
<1>14. Good(done)
  BY <1>2, <1>11, Called, PageNumbers DEF Inserts, Keeps, done
<1>15. CASE Halted(done)
  <2>1. Failed(done)
    BY <1>15, Zenon DEF Halted, Failed
  <2>2. Use(done, ptrs) = done
    BY <2>1 DEF Use
  <2>3. r = done
    BY <1>4, <2>1, <2>2 DEF SetParent
  <2> QED BY <1>15, <2>3 DEF RankKept
<1>16. CASE ~Halted(done)
  <2>1. PICK f : Ranked(done.pages, done.num_pages, f, {}) /\ Extends(g, f)
    BY <1>13, <1>16 DEF RankKept
  <2>2. Extends(h, f)
    <3>1. /\ root_page_num \in DOMAIN h /\ h[root_page_num] \in Nat /\ g[root_page_num] \in Nat
          /\ f[root_page_num] \in Nat
      BY <1>1, <1>9, <2>1, RanksOf
    <3> QED BY <1>6, <2>1, <3>1, ExtendsTransitive
  <2>3. done \in Operations /\ done.num_pages \in Nat /\ done.pages \in [Pages -> Node]
    BY <1>14, OperationFields DEF Good
  <2> DEFINE used == Use(done, ptrs)
             q == done.pages[p].parent
  <2>4. FailsHalted(done, used) /\ used \in Operations /\ used.pages = done.pages /\ used.num_pages = done.num_pages
    BY <2>3, PointersUsed, StoreFailsHalted
  <2>5. r = SetParent(used, ptr, q) /\ ptr.page = new
    BY <1>4
  <2> HIDE DEF used
  <2>6. p \in DOMAIN f /\ new \in DOMAIN f /\ f[new] = f[p] /\ p # root_page_num
    <3>1. new # root_page_num
      BY <1>1, <1>5 DEF Ranked, new
    <3> QED BY <1>7, <2>1, <3>1 DEF Extends
  <2>7. q \in DOMAIN f /\ f[new] < f[q] /\ q \in Pages
    BY <2>1, <2>6, RanksOf
  <2> HIDE DEF q
  <2>8. /\ FailsHalted(used, r) /\ r \in Operations /\ r.num_pages = used.num_pages
        /\ ~Failed(r) => ~Failed(used) /\ r.pages = Reparented(used.pages, new, q)
    BY <1>2, <2>4, <2>5, <2>7, ParentSetExactly
  <2>9. CASE ~Failed(r)
    <3>1. Ranked(r.pages, r.num_pages, f, {})
      BY <2>1, <2>3, <2>4, <2>6, <2>7, <2>8, <2>9, RankedReparented
    <3> QED BY <2>2, <3>1 DEF RankKept
  <2>10. CASE Failed(done)
    <3>1. r = done
      BY <2>4, <2>8, <2>10 DEF FailsHalted
    <3> QED BY <2>1, <2>2, <3>1 DEF RankKept
  <2>11. CASE Failed(r) /\ ~Failed(done)
    <3>1. FailsHalted(done, r)
      BY <2>4, <2>8, FailsHaltedTransitive
    <3> QED BY <2>11, <3>1 DEF FailsHalted, RankKept
  <2> QED BY <2>9, <2>10, <2>11
<1> QED BY <1>15, <1>16

LEMMA NestedFills ==
  ASSUME NEW insert, Nested(insert), NEW n \in 0 .. FILE_PAGES_NUM, n + 1 <= FILE_PAGES_NUM
  PROVE  Fills(insert[n + 1])
<1>1. n + 1 \in 0 .. FILE_PAGES_NUM
  BY PagePointersAssumption DEF PagePointersAssumption
<1>2. Contract(insert[n + 1])
  BY <1>1, NestedContract
<1>3. ASSUME NEW call \in Calls, Good(call.op), Grown(call.op), Inner(call.op, call.parent),
             Room(call.op, call.parent), call.child \in Pages, call.child < call.op.num_pages
      PROVE  Adds(call.op, call.parent, call.child, insert[n + 1][call])
  <2>1. insert[n + 1][call] = InsertChild(call.op, call.parent, call.child, insert[n])
    BY DEF Nested
  <2> QED BY <1>3, <2>1, RoomFilled
<1> QED BY <1>2, <1>3 DEF Fills

\* A call whose own calls keep the tree ranked keeps it ranked.
LEMMA InsertRanked ==
  ASSUME NEW insert, Contract(insert), NEW o, NEW h, NEW p, NEW c, Placing(o, h, p, c),
         Ranks(insert, o.num_pages + 1), Fills(insert) \/ FILE_PAGES_NUM <= o.num_pages
  PROVE  RankKept(h, InsertChild(o, p, c, insert))
<1> DEFINE r == InsertChild(o, p, c, insert)
<1> SUFFICES RankKept(h, r)
  OBVIOUS
<1>1. /\ Good(o) /\ Grown(o) /\ Inner(o, p) /\ o.num_pages \in Nat
      /\ Len(o.pages[p].cells) \in Nat
      /\ Len(o.pages[p].cells) <= INTERNAL_NODE_MAX_CELLS /\ ~Open(o.pages[p])
      /\ c \in Pages /\ c < o.num_pages /\ c # p /\ c # o.num_pages /\ p \in Pages /\ p # o.num_pages
      /\ \A k \in Kids(o.pages[p]) : k \in Pages /\ k < o.num_pages /\ k # p
  <2>1. /\ Good(o) /\ Grown(o) /\ Inner(o, p) /\ o.num_pages \in Nat
        /\ Len(o.pages[p].cells) \in Nat
        /\ Len(o.pages[p].cells) <= INTERNAL_NODE_MAX_CELLS /\ ~Open(o.pages[p])
        /\ c \in Pages /\ c < o.num_pages /\ c # p
        /\ \A k \in Kids(o.pages[p]) : k \in Pages /\ k < o.num_pages /\ k # p
    BY PlacingFacts
  <2> QED BY <2>1 DEF Inner
<1>2. /\ Ranked(o.pages, o.num_pages, h, {}) /\ p \in DOMAIN h /\ c \in DOMAIN h /\ h[c] < h[p]
  BY DEF Placing
<1>3. o.pages[p].right \in Kids(o.pages[p])
  BY <1>1 DEF Inner, Open, Kids
<1>4. CASE Len(o.pages[p].cells) < INTERNAL_NODE_MAX_CELLS
  <2>1. Room(o, p)
    BY <1>1, <1>3, <1>4 DEF Room
  <2>2. Adds(o, p, c, r)
    BY <1>1, <2>1, RoomFilled
  <2> HIDE DEF r
  <2>3. CASE Failed(o)
    <3>1. r = o
      BY <2>2, <2>3 DEF Adds, FailsHalted
    <3>2. Extends(h, h)
      BY <1>1, <1>2, RankedLater
    <3> QED BY <1>2, <3>1, <3>2 DEF RankKept
  <2>4. CASE ~Failed(o) /\ Failed(r)
    BY <2>2, <2>4 DEF Adds, FailsHalted, RankKept
  <2>5. CASE ~Failed(r)
    <3>1. Joined(o.pages, r.pages, p, c) /\ r.num_pages = o.num_pages
      BY <2>2, <2>5 DEF Adds
    <3>2. Ranked(r.pages, o.num_pages, h, {})
      BY <1>1, <1>2, <1>4, <3>1, RankedJoined
    <3>3. Extends(h, h)
      BY <1>1, <1>2, RankedLater
    <3> QED BY <3>1, <3>2, <3>3 DEF RankKept
  <2> QED BY <2>3, <2>4, <2>5
<1>5. CASE Len(o.pages[p].cells) = INTERNAL_NODE_MAX_CELLS
  <2> DEFINE o1 == get_page(o, p)
             parent == Pointer(o1, p)
             o11 == get_page(o1, c)
             o2 == Use(o11, {parent})
             split == internal_node_split_and_insert(o2, p, c, insert)
  <2>1. Len(o2.pages[p].cells) >= INTERNAL_NODE_MAX_CELLS => r = IF Failed(o2) THEN o2 ELSE split
    BY DEF InsertChild
  <2> HIDE DEF r, split
  <2>2. Keeps(o, o1) /\ o1.pages = o.pages /\ o1.num_pages = o.num_pages
    BY <1>1, RequestKeeps
  <2> HIDE DEF o1, parent
  <2>3. Keeps(o1, o11) /\ o11.pages = o.pages /\ o11.num_pages = o.num_pages
    BY <1>1, <2>2, KeepsContext, RequestKeeps
  <2> HIDE DEF o11
  <2>4. Keeps(o11, o2) /\ o2.pages = o.pages /\ o2.num_pages = o.num_pages
    BY <1>1, <2>2, <2>3, KeepsContext, UseKeeps
  <2> HIDE DEF o2
  <2>5. Good(o2) /\ Grown(o2) /\ Inner(o2, p)
    <3>1. Keeps(o, o2)
      BY <1>1, <2>2, <2>3, <2>4, KeepsTransitive
    <3> QED BY <1>1, <3>1, KeepsContext
  <2>6. Len(o2.pages[p].cells) >= INTERNAL_NODE_MAX_CELLS
    <3>1. \A n : n = 3 => n >= 3
      OBVIOUS
    <3> QED BY ONLY <1>5, <2>4, <3>1, Zenon DEF INTERNAL_NODE_MAX_CELLS
  <2>7. CASE Failed(o2)
    <3>1. r = o2
      BY <2>1, <2>6, <2>7
    <3>2. Extends(h, h)
      BY <1>1, <1>2, RankedLater
    <3> QED BY <1>2, <2>4, <3>1, <3>2 DEF RankKept
  <2>8. CASE ~Failed(o2)
    <3>1. r = split
      BY <2>1, <2>6, <2>8
    <3>2. Splittable(o2, p, c)
      BY <1>1, <1>5, <2>4 DEF Splittable
    <3>3. Fills(insert) \/ FILE_PAGES_NUM <= o2.num_pages
      BY <2>4
    <3>4. Splits(o2, p, c, insert, r)
      BY <2>5, <3>1, <3>2, <3>3, SplitExactly DEF split
    <3>5. Placing(o2, h, p, c)
      BY <2>4, <2>5 DEF Placing
    <3>6. o2.pages[p].is_root <=> p = root_page_num
      BY <1>1, <2>5 DEF Good, Shaped
    <3>7. CASE Failed(r) /\ (Halted(r) \/ r.pages = o2.pages)
      <4>1. Keeps(o2, r)
        BY <1>1, <2>5, <2>6, <3>1, SplitInserted DEF split
      <4>2. r.num_pages \in Nat /\ o.num_pages <= r.num_pages
        BY <2>4, <4>1 DEF Keeps, Good, Shaped
      <4>3. Ranked(o.pages, r.num_pages, h, {}) /\ Extends(h, h)
        BY <1>1, <1>2, <4>2, RankedLater
      <4> QED BY <2>4, <3>7, <4>3 DEF RankKept
    <3>8. CASE o2.pages[p].is_root /\ ~Failed(r) /\ RootParted(o2, c, r)
      BY <3>5, <3>6, <3>8, RootSplitRanked
    <3>9. CASE ~o2.pages[p].is_root /\ \E u : NodeParted(o2, p, c, u) /\ NewPut(o2, p, u, insert, r)
      <4>1. PICK u : NodeParted(o2, p, c, u) /\ NewPut(o2, p, u, insert, r)
        BY <3>9
      <4>2. p # root_page_num /\ Ranks(insert, o2.num_pages + 1)
        BY <2>4, <3>6, <3>9
      <4> QED BY <3>5, <4>1, <4>2, NodeSplitRanked
    <3> QED BY <3>4, <3>7, <3>8, <3>9 DEF Splits
  <2> QED BY <2>7, <2>8
<1>6. \A n \in Nat : n <= INTERNAL_NODE_MAX_CELLS => n < INTERNAL_NODE_MAX_CELLS \/ n = INTERNAL_NODE_MAX_CELLS
  BY DEF INTERNAL_NODE_MAX_CELLS
<1>7. Len(o.pages[p].cells) \in Nat /\ Len(o.pages[p].cells) <= INTERNAL_NODE_MAX_CELLS
  BY <1>1
<1> HIDE DEF r
<1> QED BY ONLY <1>4, <1>5, <1>6, <1>7

\* The calls nested n deep keep a tree ranked that has taken all but n pages.
LEMMA NestedRanks ==
  ASSUME NEW insert, Nested(insert), NEW n \in 0 .. FILE_PAGES_NUM
  PROVE  Ranks(insert[n], FILE_PAGES_NUM + 1 - n)
<1> DEFINE N == FILE_PAGES_NUM
           T == {k \in 0 .. N : Ranks(insert[k], N + 1 - k)}
<1>1. N \in Nat
  BY PagePointersAssumption DEF PagePointersAssumption
<1>2. 0 \in T
  <2>1. ASSUME NEW call \in Calls, NEW h, N + 1 - 0 <= call.op.num_pages,
               Placing(call.op, h, call.parent, call.child)
        PROVE  FALSE
    <3>1. call.op.num_pages \in 1 .. FILE_PAGES_NUM
      BY <2>1 DEF Placing, Good, Shaped
    <3> QED BY <1>1, <2>1, <3>1
  <2> HIDE DEF N
  <2>2. Ranks(insert[0], N + 1 - 0)
    BY <2>1 DEF Ranks
  <2> QED BY <1>1, <2>2
<1>3. ASSUME NEW k \in 0 .. N, k \in T, k + 1 <= N PROVE k + 1 \in T
  <2>1. /\ Ranks(insert[k], N + 1 - k) /\ k + 1 \in 0 .. N /\ N + 1 - (k + 1) = N - k
        /\ k # 0 => k - 1 \in 0 .. N /\ k = (k - 1) + 1
    BY <1>1, <1>3
  <2>2. Contract(insert[k])
    BY NestedContract
  <2>3. ASSUME NEW call \in Calls, NEW h, N - k <= call.op.num_pages,
               Placing(call.op, h, call.parent, call.child)
        PROVE  RankKept(h, insert[k + 1][call])
    <3>1. insert[k + 1][call] = InsertChild(call.op, call.parent, call.child, insert[k])
      BY <1>3 DEF Nested
    <3>2. call.op.num_pages \in 1 .. FILE_PAGES_NUM
      BY <2>3 DEF Placing, Good, Shaped
    <3>3. Ranks(insert[k], call.op.num_pages + 1)
      <4>1. ASSUME NEW other \in Calls, NEW g, call.op.num_pages + 1 <= other.op.num_pages,
                   Placing(other.op, g, other.parent, other.child)
            PROVE  RankKept(g, insert[k][other])
        <5>1. other.op.num_pages \in Nat
          BY <4>1, PlacingFacts
        <5>2. N + 1 - k <= other.op.num_pages
          BY <1>1, <2>3, <3>2, <4>1, <5>1
        <5> QED BY <2>1, <4>1, <5>2 DEF Ranks
      <4> QED BY <4>1 DEF Ranks
    <3>4. Fills(insert[k]) \/ FILE_PAGES_NUM <= call.op.num_pages
      <4>1. CASE k = 0
        BY <1>1, <2>3, <3>2, <4>1
      <4>2. CASE k # 0
        <5> DEFINE j == k - 1
        <5>1. j \in 0 .. FILE_PAGES_NUM /\ k = j + 1 /\ j + 1 <= FILE_PAGES_NUM
          BY <1>1, <2>1, <4>2
        <5> HIDE DEF j
        <5>2. Fills(insert[j + 1])
          BY <5>1, NestedFills
        <5> QED BY <5>1, <5>2
      <4> QED BY <4>1, <4>2
    <3> QED BY <2>2, <2>3, <3>1, <3>3, <3>4, InsertRanked
  <2>4. Ranks(insert[k + 1], N + 1 - (k + 1))
    BY <2>1, <2>3 DEF Ranks
  <2> QED BY <2>1, <2>4
<1> HIDE DEF T
<1>4. \A k \in 0 .. N : k \in T
  BY <1>1, <1>2, <1>3, InductionTo
<1> QED BY <1>4 DEF T

\* internal_node_insert() keeps a tree ranked.
LEMMA NodeInsertRanked ==
  ASSUME NEW o, NEW h, NEW p, NEW c, Placing(o, h, p, c)
  PROVE  RankKept(h, internal_node_insert(o, p, c))
<1>1. PICK insert : /\ Nested(insert)
                    /\ internal_node_insert(o, p, c) = insert[FILE_PAGES_NUM][Call(o, p, c)]
  BY CallsNested
<1> DEFINE N == FILE_PAGES_NUM
           call == Call(o, p, c)
<1>2. N \in Nat /\ N \in 0 .. N /\ N + 1 - N = 1
  BY PagePointersAssumption DEF PagePointersAssumption
<1>3. Ranks(insert[N], 1)
  <2>1. Ranks(insert[N], N + 1 - N)
    BY <1>1, <1>2, NestedRanks
  <2> QED BY <1>2, <2>1
<1>4. /\ call \in Calls /\ call.op = o /\ call.parent = p /\ call.child = c
      /\ 1 <= o.num_pages
  <2>1. o \in Operations /\ p \in Nat /\ c \in Nat /\ o.num_pages \in Nat /\ o.num_pages >= 1
    BY PlacingFacts, PageNumbers DEF Good, Inner
  <2> QED BY <2>1 DEF Call, Calls
<1> HIDE DEF call
<1>5. RankKept(h, insert[N][call])
  BY <1>3, <1>4 DEF Ranks
<1> QED BY <1>1, <1>5 DEF call

-----------------------------------------------------------------------------
(***************************************************************************)
(* A search of a ranked tree ends, in a leaf.                              *)
(***************************************************************************)

\* Where internal_node_find() goes on.
NextDown(node, key) == Children(node)[internal_node_find_child(node.cells, key) + 1]

LEMMA GoesToKid ==
  ASSUME NEW node \in InternalNode, ~Open(node), ~IsLeaf(node), NEW key \in Nat
  PROVE  NextDown(node, key) \in Kids(node)
<1> DEFINE n == Len(node.cells)
           i == internal_node_find_child(node.cells, key)
<1>1. node.cells \in Seq(InternalCell) /\ n \in Nat
  BY InternalFields
<1>2. i \in 0 .. n
  BY <1>1, ChildFound
<1>3. /\ \A j \in 1 .. n : Children(node)[j] = node.cells[j].child
      /\ Children(node)[n + 1] = node.right
  BY ChildrenElements
<1>4. NextDown(node, key) = Children(node)[i + 1]
  BY DEF NextDown
<1> HIDE DEF i
<1>5. CASE i = n
  <2>1. NextDown(node, key) = node.right
    BY <1>3, <1>4, <1>5
  <2> QED BY <2>1 DEF Kids, Open
<1>6. CASE i # n
  <2>1. i + 1 \in 1 .. n
    BY <1>1, <1>2, <1>6
  <2>2. NextDown(node, key) = node.cells[i + 1].child
    BY <1>3, <1>4, <2>1
  <2> QED BY <2>1, <2>2 DEF Kids, Firsts
<1> QED BY <1>5, <1>6

\* The steps of internal_node_find(), n of them at most.
Descends(tree, key, leaf) ==
  \A n \in 0 .. FILE_PAGES_NUM : \A q \in Pages :
    leaf[n][q] = IF n = 0 \/ IsLeaf(tree[q]) THEN q ELSE leaf[n - 1][NextDown(tree[q], key)]

LEMMA FindDescends ==
  ASSUME NEW tree, NEW p, NEW key
  PROVE  \E leaf : /\ Descends(tree, key, leaf)
                   /\ internal_node_find(tree, p, key) = leaf[FILE_PAGES_NUM][p]
<1> DEFINE N == FILE_PAGES_NUM
           D == Pages \cup {INVALID_PAGE_NUM}
           At(n, f) == [q \in D |-> IF n = 0 \/ q = INVALID_PAGE_NUM \/ IsLeaf(tree[q]) THEN q
                                    ELSE f[n - 1][NextDown(tree[q], key)]]
           leaf == CHOOSE f : f = [n \in 0 .. N |-> At(n, f)]
           Has(k) == \E f : f = [n \in 0 .. k |-> At(n, f)]
<1>1. N \in Nat
  BY PagePointersAssumption DEF PagePointersAssumption
<1>2. ASSUME NEW n \in Nat, NEW f, NEW g, n # 0 => f[n - 1] = g[n - 1] PROVE At(n, f) = At(n, g)
  BY <1>2
<1>3. Has(0)
  <2> DEFINE g == [n \in 0 .. 0 |-> At(0, <<>>)]
  <2>1. \A n \in 0 .. 0 : n = 0 /\ g[n] = At(0, <<>>)
    <3> HIDE DEF At
    <3> QED OBVIOUS
  <2>2. g[0] = At(0, g)
    BY <2>1
  <2>3. g = [n \in 0 .. 0 |-> At(n, g)]
    <3>1. \A n \in 0 .. 0 : g[n] = At(n, g)
      <4> HIDE DEF g, At
      <4> QED BY <2>1, <2>2
    <3>2. g = [n \in 0 .. 0 |-> g[n]]
      <4> HIDE DEF At
      <4> QED OBVIOUS
    <3> HIDE DEF g, At
    <3> QED BY <3>1, <3>2
  <2> QED BY <2>3
<1>4. ASSUME NEW k \in 0 .. N, Has(k), k + 1 <= N PROVE Has(k + 1)
  <2>1. PICK f : f = [n \in 0 .. k |-> At(n, f)]
    BY <1>4
  <2> DEFINE g == [n \in 0 .. k + 1 |-> IF n <= k THEN f[n] ELSE At(k + 1, f)]
  <2>2. \A n \in 0 .. k : f[n] = At(n, f)
    <3> HIDE DEF At
    <3> QED BY <2>1
  <2>3. /\ \A n \in 0 .. k : g[n] = f[n]
        /\ g[k + 1] = At(k + 1, f)
        /\ g = [n \in 0 .. k + 1 |-> g[n]]
    <3> HIDE DEF At
    <3> QED BY <1>4
  <2> HIDE DEF g
  <2>4. ASSUME NEW n \in 0 .. k + 1 PROVE g[n] = At(n, g)
    <3>1. n # 0 => f[n - 1] = g[n - 1]
      <4>1. n # 0 => n - 1 \in 0 .. k
        OBVIOUS
      <4> QED BY <2>3, <4>1
    <3>2. At(n, f) = At(n, g)
      <4> HIDE DEF At
      <4> QED BY <1>2, <3>1
    <3>3. n \in 0 .. k \/ n = k + 1
      BY <1>4
    <3> HIDE DEF At
    <3> QED BY <2>2, <2>3, <3>2, <3>3
  <2>5. g = [n \in 0 .. k + 1 |-> At(n, g)]
    <3> HIDE DEF At
    <3> QED BY <2>3, <2>4
  <2> QED BY <2>5
<1>5. Has(N)
  <2> HIDE DEF Has
  <2> DEFINE T == {k \in 0 .. N : Has(k)}
  <2>1. 0 \in T /\ \A k \in 0 .. N : k \in T /\ k + 1 <= N => k + 1 \in T
    BY <1>1, <1>3, <1>4
  <2> HIDE DEF T
  <2>2. \A k \in 0 .. N : k \in T
    BY <1>1, <2>1, InductionTo
  <2> QED BY <1>1, <2>2 DEF T
<1>6. leaf = [n \in 0 .. N |-> At(n, leaf)]
  <2> HIDE DEF At
  <2> QED BY <1>5
<1>7. internal_node_find(tree, p, key) = leaf[N][p]
  BY DEF internal_node_find, NextDown
<1> HIDE DEF leaf
<1>8. \A n \in 0 .. N : leaf[n] = At(n, leaf)
  <2> HIDE DEF At
  <2> QED BY <1>6
<1>9. Descends(tree, key, leaf)
  <2>1. ASSUME NEW n \in 0 .. N, NEW q \in Pages
        PROVE  leaf[n][q] = IF n = 0 \/ IsLeaf(tree[q]) THEN q ELSE leaf[n - 1][NextDown(tree[q], key)]
    <3>1. leaf[n] = At(n, leaf)
      BY <1>8
    <3>2. q # INVALID_PAGE_NUM /\ q \in D
      BY PageNumbers
    <3>3. At(n, leaf)[q] = IF n = 0 \/ IsLeaf(tree[q]) THEN q ELSE leaf[n - 1][NextDown(tree[q], key)]
      BY ONLY <3>2
    <3> QED BY <3>1, <3>3
  <2> QED BY <2>1 DEF Descends
<1> QED BY <1>7, <1>9

LEMMA FindsLeaf ==
  ASSUME NEW o, Good(o), NEW h, Ranked(o.pages, o.num_pages, h, {}), NEW key \in Nat
  PROVE  LET p == internal_node_find(o.pages, root_page_num, key)
         IN p \in DOMAIN h /\ IsLeaf(o.pages[p])
<1> DEFINE tree == o.pages
           N == FILE_PAGES_NUM
<1>1. PICK leaf : /\ Descends(tree, key, leaf)
                  /\ internal_node_find(tree, root_page_num, key) = leaf[N][root_page_num]
  BY FindDescends
<1>2. /\ N \in Nat /\ o.num_pages \in 1 .. N /\ tree \in [Pages -> Node]
  BY OperationFields, PagePointersAssumption DEF PagePointersAssumption, Good, Shaped
<1>3. /\ root_page_num \in DOMAIN h /\ DOMAIN h \subseteq Pages
      /\ \A q \in DOMAIN h : h[q] \in Nat
      /\ h[root_page_num] < o.num_pages
      /\ \A q \in DOMAIN h : \A k \in Kids(tree[q]) : k \in DOMAIN h /\ h[k] < h[q]
      /\ \A q \in DOMAIN h : ~IsLeaf(tree[q]) => ~Open(tree[q])
  BY DEF Ranked
<1>4. ASSUME NEW q \in DOMAIN h, ~IsLeaf(tree[q])
      PROVE  NextDown(tree[q], key) \in DOMAIN h /\ h[NextDown(tree[q], key)] < h[q]
  <2>1. tree[q] \in InternalNode
    <3>1. tree[q] \in Node
      BY <1>2, <1>3
    <3> QED BY <1>4, <3>1, NodeFields
  <2>2. NextDown(tree[q], key) \in Kids(tree[q])
    BY <1>3, <1>4, <2>1, GoesToKid
  <2> QED BY <1>3, <2>2
<1> HIDE DEF tree, N
<1> DEFINE Ends(n) == \A q \in DOMAIN h : h[q] <= n => leaf[n][q] \in DOMAIN h /\ IsLeaf(tree[leaf[n][q]])
           T == {n \in 0 .. N : Ends(n)}
<1>5. \A n \in 0 .. N : \A q \in DOMAIN h :
        leaf[n][q] = IF n = 0 \/ IsLeaf(tree[q]) THEN q ELSE leaf[n - 1][NextDown(tree[q], key)]
  BY <1>1, <1>3 DEF Descends, N
<1>6. 0 \in T
  <2>1. ASSUME NEW q \in DOMAIN h, h[q] <= 0 PROVE leaf[0][q] \in DOMAIN h /\ IsLeaf(tree[leaf[0][q]])
    <3>1. leaf[0][q] = q
      BY <1>2, <1>5
    <3>2. IsLeaf(tree[q])
      <4>1. SUFFICES ASSUME ~IsLeaf(tree[q]) PROVE FALSE
        OBVIOUS
      <4> DEFINE k == NextDown(tree[q], key)
      <4>2. k \in DOMAIN h /\ h[k] < h[q]
        BY <1>4, <4>1
      <4> HIDE DEF k
      <4>3. h[k] \in Nat /\ h[q] \in Nat
        BY <1>3, <4>2
      <4> QED BY <2>1, <4>2, <4>3
    <3> QED BY <3>1, <3>2
  <2> QED BY <1>2, <2>1
<1>7. ASSUME NEW n \in 0 .. N, n \in T, n + 1 <= N PROVE n + 1 \in T
  <2>1. n + 1 \in 0 .. N /\ n + 1 # 0 /\ (n + 1) - 1 = n /\ Ends(n)
    BY <1>2, <1>7
  <2>2. ASSUME NEW q \in DOMAIN h, h[q] <= n + 1
        PROVE  leaf[n + 1][q] \in DOMAIN h /\ IsLeaf(tree[leaf[n + 1][q]])
    <3>1. CASE IsLeaf(tree[q])
      BY <1>5, <2>1, <3>1
    <3>2. CASE ~IsLeaf(tree[q])
      <4> DEFINE k == NextDown(tree[q], key)
      <4>1. leaf[n + 1][q] = leaf[n][k]
        BY <1>5, <2>1, <3>2
      <4>2. k \in DOMAIN h /\ h[k] < h[q]
        BY <1>4, <3>2
      <4> HIDE DEF k
      <4>3. h[k] \in Nat /\ h[q] \in Nat
        BY <1>3, <4>2
      <4>4. h[k] <= n
        BY <2>2, <4>2, <4>3
      <4> QED BY <2>1, <4>1, <4>2, <4>4
    <3> QED BY <3>1, <3>2
  <2> QED BY <2>1, <2>2
<1> HIDE DEF T
<1>8. \A n \in 0 .. N : n \in T
  BY <1>2, <1>6, <1>7, InductionTo
<1>9. N \in 0 .. N /\ h[root_page_num] <= N
  <2>1. h[root_page_num] \in Nat /\ o.num_pages \in Nat /\ o.num_pages <= N
    BY <1>2, <1>3
  <2> QED BY <1>2, <1>3, <2>1
<1>10. Ends(N)
  BY <1>8, <1>9 DEF T
<1> QED BY <1>1, <1>3, <1>9, <1>10 DEF tree

-----------------------------------------------------------------------------
(***************************************************************************)
(* A tree all of whose leaves are at one depth.                            *)
(***************************************************************************)

\* Every page in use has a rank, which is its height over the leaves.
AllRanked(n, h) == \A p \in Pages : p < n => p \in DOMAIN h

LeavesLowest(tree, h) == \A p \in DOMAIN h : IsLeaf(tree[p]) <=> h[p] = 0

\* A child is one level lower, and is not one of the spare pages, those that
\* have no place yet.
KidsNextLower(tree, h, spare) ==
  \A p \in DOMAIN h : \A c \in Kids(tree[p]) : h[p] = h[c] + 1 /\ c \notin spare

\* What an internal page names as its parent is one level higher, but for
\* the loose pages, which are still to be told.  (It need not be the node
\* the page is a child of.)
ParentsNextHigher(tree, h, loose) ==
  \A p \in DOMAIN h \ ({root_page_num} \cup loose) :
    ~IsLeaf(tree[p]) => h[tree[p].parent] = h[p] + 1

\* No page is a child of two nodes, and each is a child of some node.
OneParent(tree, h) ==
  \A p, q \in DOMAIN h : \A c \in Kids(tree[p]) : c \in Kids(tree[q]) => p = q

SomeParent(tree, h, spare) ==
  \A p \in DOMAIN h \ ({root_page_num} \cup spare) : \E q \in DOMAIN h : p \in Kids(tree[q])

\* A leaf names as its parent the node it is a child of.
LeavesAgree(tree, h, spare) ==
  \A p \in DOMAIN h \ ({root_page_num} \cup spare) :
    IsLeaf(tree[p]) => p \in Kids(tree[tree[p].parent])

InnerFilled(tree, h, open) ==
  \A p \in DOMAIN h \ open : ~IsLeaf(tree[p]) => Len(tree[p].cells) >= 1 /\ Apart(tree[p])

LeavesFilled(tree, h) ==
  \A p \in DOMAIN h \ {root_page_num} : IsLeaf(tree[p]) => Len(tree[p].cells) >= RIGHT_SPLIT_COUNT

Even(tree, n, h, open, spare, loose) ==
  /\ AllRanked(n, h) /\ LeavesLowest(tree, h)
  /\ KidsNextLower(tree, h, spare) /\ ParentsNextHigher(tree, h, loose)
  /\ OneParent(tree, h) /\ SomeParent(tree, h, spare) /\ LeavesAgree(tree, h, spare)
  /\ InnerFilled(tree, h, open) /\ LeavesFilled(tree, h)

\* Leaves may take cells; nothing else differs.
LEMMA EvenAlike ==
  ASSUME NEW a, NEW b, NEW n, NEW h, Ranked(a, n, h, {}),
         NEW spare, NEW loose, Even(a, n, h, {}, spare, loose),
         \A q \in DOMAIN h : /\ b[q].parent = a[q].parent
                             /\ IsLeaf(b[q]) <=> IsLeaf(a[q])
                             /\ ~IsLeaf(a[q]) => b[q] = a[q],
         LeavesFilled(b, h)
  PROVE  Even(b, n, h, {}, spare, loose)
<1>1. \A q \in DOMAIN h : Kids(b[q]) = Kids(a[q])
  BY DEF Kids
<1>2. AllRanked(n, h) /\ LeavesLowest(b, h)
  BY DEF Even, LeavesLowest
<1>3. KidsNextLower(b, h, spare) /\ OneParent(b, h) /\ SomeParent(b, h, spare)
  <2>1. KidsNextLower(a, h, spare) /\ OneParent(a, h) /\ SomeParent(a, h, spare)
    BY DEF Even
  <2>2. KidsNextLower(b, h, spare)
    BY <1>1, <2>1 DEF KidsNextLower
  <2>3. OneParent(b, h)
    BY <1>1, <2>1 DEF OneParent
  <2>4. SomeParent(b, h, spare)
    BY <1>1, <2>1 DEF SomeParent
  <2> QED BY <2>2, <2>3, <2>4
<1>4. ParentsNextHigher(b, h, loose)
  BY DEF Even, ParentsNextHigher
<1>5. LeavesAgree(b, h, spare)
  <2>1. LeavesAgree(a, h, spare)
    BY DEF Even
  <2> SUFFICES ASSUME NEW p \in DOMAIN h \ ({root_page_num} \cup spare), IsLeaf(b[p])
               PROVE  p \in Kids(b[b[p].parent])
    BY DEF LeavesAgree
  <2>2. p \in Kids(a[a[p].parent]) /\ b[p].parent = a[p].parent
    BY <2>1 DEF LeavesAgree
  <2>3. b[p].parent \in DOMAIN h
    BY <2>2 DEF Ranked
  <2> QED BY <1>1, <2>2, <2>3
<1>6. InnerFilled(b, h, {})
  BY DEF Even, InnerFilled
<1> QED BY <1>2, <1>3, <1>4, <1>5, <1>6 DEF Even

\* A page without a place is put under a node one level higher.
LEMMA EvenJoined ==
  ASSUME NEW a, NEW b, NEW n, NEW h, NEW p \in DOMAIN h, NEW c \in DOMAIN h,
         Ranked(a, n, h, {}), Even(a, n, h, {}, {c}, {c}), ~IsLeaf(a[p]), h[p] = h[c] + 1,
         IsLeaf(a[c]) => a[c].parent = p, Len(a[p].cells) \in Nat, Joined(a, b, p, c)
  PROVE  Even(b, n, h, {}, {}, {c})
<1> DEFINE T == DOMAIN h
           R == root_page_num
<1>1. /\ AllRanked(n, h) /\ LeavesLowest(a, h)
      /\ KidsNextLower(a, h, {c}) /\ ParentsNextHigher(a, h, {c})
      /\ OneParent(a, h) /\ SomeParent(a, h, {c}) /\ LeavesAgree(a, h, {c})
      /\ InnerFilled(a, h, {}) /\ LeavesFilled(a, h)
  BY DEF Even
<1>2. /\ T \subseteq Pages /\ \A q \in T \ {R} : a[q].parent \in T
      /\ ~Open(a[p])
  BY DEF Ranked
<1>3. /\ ~IsLeaf(b[p]) /\ b[p].parent = a[p].parent /\ Kids(b[p]) = Kids(a[p]) \cup {c}
      /\ Len(b[p].cells) = Len(a[p].cells) + 1
      /\ Apart(a[p]) /\ c \notin Kids(a[p]) => Apart(b[p])
      /\ \A q \in T \ {p} : b[q] = a[q]
  <2>1. b[p] \in InternalNode
    BY DEF Joined, NodeJoined
  <2>2. ~IsLeaf(b[p])
    BY <2>1, InternalFields
  <2> QED BY <1>2, <2>2 DEF Joined, NodeJoined
<1>4. \A q \in T : /\ b[q].parent = a[q].parent
                   /\ IsLeaf(b[q]) <=> IsLeaf(a[q])
                   /\ Kids(a[q]) \subseteq Kids(b[q])
                   /\ Kids(b[q]) = IF q = p THEN Kids(a[q]) \cup {c} ELSE Kids(a[q])
  BY <1>3
<1>5. \A q \in T : c \notin Kids(a[q])
  BY <1>1 DEF KidsNextLower
<1>6. AllRanked(n, h) /\ LeavesLowest(b, h)
  BY <1>1, <1>4 DEF LeavesLowest
<1>7. KidsNextLower(b, h, {})
  <2> SUFFICES ASSUME NEW q \in T, NEW k \in Kids(b[q]) PROVE h[q] = h[k] + 1
    BY DEF KidsNextLower
  <2>1. CASE k \in Kids(a[q])
    BY <1>1, <2>1 DEF KidsNextLower
  <2>2. CASE k \notin Kids(a[q])
    BY <1>4, <2>2
  <2> QED BY <2>1, <2>2
<1>8. ParentsNextHigher(b, h, {c})
  BY <1>1, <1>4 DEF ParentsNextHigher
<1>9. OneParent(b, h)
  <2> SUFFICES ASSUME NEW q \in T, NEW s \in T, NEW k \in Kids(b[q]), k \in Kids(b[s]) PROVE q = s
    BY DEF OneParent
  <2>1. CASE k = c
    BY <1>4, <1>5, <2>1
  <2>2. CASE k # c
    <3>1. k \in Kids(a[q]) /\ k \in Kids(a[s])
      BY <1>4, <2>2
    <3> QED BY <1>1, <3>1 DEF OneParent
  <2> QED BY <2>1, <2>2
<1>10. SomeParent(b, h, {})
  <2> SUFFICES ASSUME NEW k \in T \ {R} PROVE \E q \in T : k \in Kids(b[q])
    BY DEF SomeParent
  <2>1. CASE k = c
    BY <1>4, <2>1
  <2>2. CASE k # c
    <3>1. PICK q \in T : k \in Kids(a[q])
      BY <1>1, <2>2 DEF SomeParent
    <3> QED BY <1>4, <3>1
  <2> QED BY <2>1, <2>2
<1>11. LeavesAgree(b, h, {})
  <2> SUFFICES ASSUME NEW k \in T \ {R}, IsLeaf(b[k]) PROVE k \in Kids(b[b[k].parent])
    BY DEF LeavesAgree
  <2>1. CASE k = c
    BY <1>4, <2>1
  <2>2. CASE k # c
    <3>1. k \in Kids(a[a[k].parent]) /\ a[k].parent \in T
      BY <1>1, <1>2, <1>4, <2>2 DEF LeavesAgree
    <3> QED BY <1>4, <3>1
  <2> QED BY <2>1, <2>2
<1>12. InnerFilled(b, h, {})
  <2> SUFFICES ASSUME NEW q \in T, ~IsLeaf(b[q]) PROVE Len(b[q].cells) >= 1 /\ Apart(b[q])
    BY DEF InnerFilled
  <2>1. Len(a[q].cells) >= 1 /\ Apart(a[q])
    BY <1>1, <1>4 DEF InnerFilled
  <2>2. CASE q = p
    BY <1>3, <1>5, <2>1, <2>2
  <2>3. CASE q # p
    BY <1>3, <2>1, <2>3
  <2> QED BY <2>2, <2>3
<1>13. LeavesFilled(b, h)
  <2> SUFFICES ASSUME NEW q \in T \ {R}, IsLeaf(b[q]) PROVE Len(b[q].cells) >= RIGHT_SPLIT_COUNT
    BY DEF LeavesFilled
  <2>1. q # p
    BY <1>3
  <2> QED BY <1>1, <1>3, <2>1 DEF LeavesFilled
<1> QED BY <1>6, <1>7, <1>8, <1>9, <1>10, <1>11, <1>12, <1>13 DEF Even

\* A loose page is told of a node one level higher.
LEMMA EvenReparented ==
  ASSUME NEW a \in [Pages -> Node], NEW n, NEW h, NEW p \in DOMAIN h, NEW c \in DOMAIN h,
         Ranked(a, n, h, {}), Even(a, n, h, {}, {}, {c}), ~IsLeaf(a[c]), h[p] = h[c] + 1
  PROVE  Even(Reparented(a, c, p), n, h, {}, {}, {})
<1> DEFINE T == DOMAIN h
           R == root_page_num
           b == Reparented(a, c, p)
<1>1. /\ AllRanked(n, h) /\ LeavesLowest(a, h)
      /\ KidsNextLower(a, h, {}) /\ ParentsNextHigher(a, h, {c})
      /\ OneParent(a, h) /\ SomeParent(a, h, {}) /\ LeavesAgree(a, h, {})
      /\ InnerFilled(a, h, {}) /\ LeavesFilled(a, h)
  BY DEF Even
<1>2. T \subseteq Pages /\ \A q \in T \ {R} : a[q].parent \in T
  BY DEF Ranked
<1>3. /\ \A q \in Pages \ {c} : b[q] = a[q]
      /\ b[c].parent = p /\ b[c].cells = a[c].cells /\ Alike(a[c], b[c])
  <2>1. /\ a[c] \in Node /\ p \in Pages /\ c \in Pages
    BY <1>2
  <2>2. b[c] = [a[c] EXCEPT !.parent = p] /\ \A q \in Pages \ {c} : b[q] = a[q]
    BY <1>2 DEF Reparented
  <2> HIDE DEF b
  <2> QED BY <2>1, <2>2, AlikeParent
<1> HIDE DEF b
<1>4. \A q \in T : /\ IsLeaf(b[q]) <=> IsLeaf(a[q])
                   /\ Kids(b[q]) = Kids(a[q])
                   /\ b[q].cells = a[q].cells /\ (Apart(a[q]) => Apart(b[q]))
                   /\ q # c => b[q] = a[q]
  <2> TAKE q \in T
  <2>1. CASE q = c
    BY <1>3, <2>1 DEF Alike
  <2>2. CASE q # c
    BY <1>2, <1>3, <2>2
  <2> QED BY <2>1, <2>2
<1>5. AllRanked(n, h) /\ LeavesLowest(b, h)
  BY <1>1, <1>4 DEF LeavesLowest
<1>6. KidsNextLower(b, h, {})
  BY <1>1, <1>4 DEF KidsNextLower
<1>7. OneParent(b, h)
  BY <1>1, <1>4 DEF OneParent
<1>8. SomeParent(b, h, {})
  BY <1>1, <1>4 DEF SomeParent
<1>9. InnerFilled(b, h, {})
  BY <1>1, <1>4 DEF InnerFilled
<1>10. LeavesFilled(b, h)
  BY <1>1, <1>4 DEF LeavesFilled
<1>11. ParentsNextHigher(b, h, {})
  <2> SUFFICES ASSUME NEW q \in T \ {R}, ~IsLeaf(b[q]) PROVE h[b[q].parent] = h[q] + 1
    BY DEF ParentsNextHigher
  <2>1. CASE q = c
    BY <1>3, <2>1
  <2>2. CASE q # c
    BY <1>1, <1>4, <2>2 DEF ParentsNextHigher
  <2> QED BY <2>1, <2>2
<1>12. LeavesAgree(b, h, {})
  <2> SUFFICES ASSUME NEW q \in T \ {R}, IsLeaf(b[q]) PROVE q \in Kids(b[b[q].parent])
    BY DEF LeavesAgree
  <2>1. q # c /\ b[q] = a[q] /\ IsLeaf(a[q])
    BY <1>4
  <2>2. q \in Kids(a[a[q].parent]) /\ a[q].parent \in T
    BY <1>1, <1>2, <2>1 DEF LeavesAgree
  <2> QED BY <1>4, <2>1, <2>2
<1> QED BY <1>5, <1>6, <1>7, <1>8, <1>9, <1>10, <1>11, <1>12 DEF Even, b

\* The new page of a split that is not the root's is at the old one's height.
LEMMA EvenOpened ==
  ASSUME NEW a, NEW b, NEW n \in Nat, NEW h, NEW p \in DOMAIN h, NEW c \in DOMAIN h,
         Ranked(a, n, h, {}), Even(a, n, h, {}, {c}, {c}), ~IsLeaf(a[p]),
         n \in Pages, Opened(a, b, n),
         NEW g, RanksOpened(b, n, h, p, g)
  PROVE  Even(b, n + 1, g, {n}, {c, n}, {c, n}) /\ Kids(b[n]) = {}
<1> DEFINE T == DOMAIN h
           R == root_page_num
<1>0. DOMAIN g = T \cup {n} /\ g[n] = h[p] /\ \A q \in T : g[q] = h[q]
  BY DEF RanksOpened
<1>1. /\ AllRanked(n, h) /\ LeavesLowest(a, h)
      /\ KidsNextLower(a, h, {c}) /\ ParentsNextHigher(a, h, {c})
      /\ OneParent(a, h) /\ SomeParent(a, h, {c}) /\ LeavesAgree(a, h, {c})
      /\ InnerFilled(a, h, {}) /\ LeavesFilled(a, h)
  BY DEF Even
<1>2. /\ T \subseteq Pages /\ n \notin T
      /\ \A q \in T \ {R} : a[q].parent \in T
      /\ \A q \in T : \A k \in Kids(a[q]) : k \in T
  <2>1. T \subseteq Pages /\ \A q \in T : q < n
    BY DEF Ranked
  <2>2. n \notin T
    BY <2>1
  <2> QED BY <2>1, <2>2 DEF Ranked
<1>3. ~IsLeaf(b[n]) /\ Kids(b[n]) = {}
  <2>1. Open(b[n]) /\ b[n].cells = <<>>
    BY DEF Opened
  <2>2. Firsts(<<>>) = {}
    BY DEF Firsts
  <2> QED BY <2>1, <2>2 DEF Kids, Open
<1>4. DOMAIN g = T \cup {n} /\ g[n] = h[p] /\ \A q \in T : b[q] = a[q] /\ g[q] = h[q]
  BY <1>0, <1>2 DEF Opened
<1>5. h[p] # 0
  BY <1>1 DEF LeavesLowest
<1>6. AllRanked(n + 1, g)
  <2> SUFFICES ASSUME NEW q \in Pages, q < n + 1 PROVE q \in DOMAIN g
    BY DEF AllRanked
  <2>1. q \in Nat
    BY PageNumbers
  <2>2. q < n \/ q = n
    BY <2>1
  <2> QED BY <1>0, <1>1, <2>2 DEF AllRanked
<1>7. LeavesLowest(b, g)
  <2> SUFFICES ASSUME NEW q \in DOMAIN g PROVE IsLeaf(b[q]) <=> g[q] = 0
    BY DEF LeavesLowest
  <2>1. CASE q = n
    BY <1>0, <1>3, <1>5, <2>1
  <2>2. CASE q \in T
    BY <1>1, <1>4, <2>2 DEF LeavesLowest
  <2> QED BY <1>0, <2>1, <2>2
<1>8. KidsNextLower(b, g, {c, n})
  <2> SUFFICES ASSUME NEW q \in DOMAIN g, NEW k \in Kids(b[q])
               PROVE  g[q] = g[k] + 1 /\ k \notin {c, n}
    BY DEF KidsNextLower
  <2>1. q \in T /\ b[q] = a[q] /\ g[q] = h[q]
    BY <1>3, <1>4
  <2>2. k \in T /\ g[k] = h[k] /\ k # n
    BY <1>2, <1>4, <2>1
  <2>3. h[q] = h[k] + 1 /\ k # c
    BY <1>1, <2>1 DEF KidsNextLower
  <2> QED BY <2>1, <2>2, <2>3
<1>9. ParentsNextHigher(b, g, {c, n})
  <2> SUFFICES ASSUME NEW q \in DOMAIN g \ ({R} \cup {c, n}), ~IsLeaf(b[q])
               PROVE  g[b[q].parent] = g[q] + 1
    BY DEF ParentsNextHigher
  <2>1. q \in T \ ({R} \cup {c}) /\ b[q] = a[q] /\ g[q] = h[q]
    BY <1>4
  <2>2. h[a[q].parent] = h[q] + 1 /\ a[q].parent \in T
    BY <1>1, <1>2, <2>1 DEF ParentsNextHigher
  <2> QED BY <1>4, <2>1, <2>2
<1>10. OneParent(b, g)
  <2> SUFFICES ASSUME NEW q \in DOMAIN g, NEW s \in DOMAIN g, NEW k \in Kids(b[q]), k \in Kids(b[s])
               PROVE  q = s
    BY DEF OneParent
  <2>1. q \in T /\ s \in T /\ b[q] = a[q] /\ b[s] = a[s]
    BY <1>3, <1>4
  <2> QED BY <1>1, <2>1 DEF OneParent
<1>11. SomeParent(b, g, {c, n})
  <2> SUFFICES ASSUME NEW k \in DOMAIN g \ ({R} \cup {c, n}) PROVE \E q \in DOMAIN g : k \in Kids(b[q])
    BY DEF SomeParent
  <2>1. PICK q \in T : k \in Kids(a[q])
    BY <1>0, <1>1 DEF SomeParent
  <2> QED BY <1>4, <2>1
<1>12. LeavesAgree(b, g, {c, n})
  <2> SUFFICES ASSUME NEW k \in DOMAIN g \ ({R} \cup {c, n}), IsLeaf(b[k])
               PROVE  k \in Kids(b[b[k].parent])
    BY DEF LeavesAgree
  <2>1. k \in T \ ({R} \cup {c}) /\ b[k] = a[k]
    BY <1>4
  <2>2. k \in Kids(a[a[k].parent]) /\ a[k].parent \in T
    BY <1>1, <1>2, <2>1 DEF LeavesAgree
  <2> QED BY <1>4, <2>1, <2>2
<1>13. InnerFilled(b, g, {n})
  BY <1>1, <1>4 DEF InnerFilled
<1>14. LeavesFilled(b, g)
  <2> SUFFICES ASSUME NEW q \in DOMAIN g \ {R}, IsLeaf(b[q]) PROVE Len(b[q].cells) >= RIGHT_SPLIT_COUNT
    BY DEF LeavesFilled
  <2>1. q \in T /\ b[q] = a[q]
    BY <1>3, <1>4
  <2> QED BY <1>1, <2>1 DEF LeavesFilled
<1> QED BY <1>3, <1>6, <1>7, <1>8, <1>9, <1>10, <1>11, <1>12, <1>13, <1>14 DEF Even

\* A root above the old one, which was an internal node.
LEMMA EvenGrew ==
  ASSUME NEW a, NEW b, NEW n \in Nat, NEW h, NEW c \in DOMAIN h, c # root_page_num,
         Ranked(a, n, h, {}), Even(a, n, h, {}, {c}, {c}), ~IsLeaf(a[root_page_num]),
         NEW right, right = n, NEW left, left = n + 1, {left, right} \subseteq Pages,
         RootGrew(a, b, left, right),
         NEW g, RanksGrown(a, b, n + 2, h, left, right, {right}, g)
  PROVE  Even(b, n + 2, g, {right}, {c}, {c}) /\ Kids(b[right]) = {}
<1> DEFINE T == DOMAIN h
           R == root_page_num
           m == n + 2
<1>1. /\ AllRanked(n, h) /\ LeavesLowest(a, h)
      /\ KidsNextLower(a, h, {c}) /\ ParentsNextHigher(a, h, {c})
      /\ OneParent(a, h) /\ SomeParent(a, h, {c}) /\ LeavesAgree(a, h, {c})
      /\ InnerFilled(a, h, {}) /\ LeavesFilled(a, h)
  BY DEF Even
<1>2. /\ T \subseteq Pages /\ R \in T /\ left # right
      /\ left \notin T /\ right \notin T
      /\ \A q \in T \ {R} : a[q].parent \in T /\ h[q] < h[R]
      /\ \A q \in T : h[q] \in Nat
      /\ \A q \in T : \A k \in Kids(a[q]) : k \in T /\ h[k] < h[q]
  <2>1. T \subseteq Pages /\ \A q \in T : q < n /\ q \in Nat
    BY PageNumbers DEF Ranked
  <2>2. left \notin T /\ right \notin T /\ left # right
    BY <2>1
  <2> QED BY <2>1, <2>2 DEF Ranked
<1>3. /\ DOMAIN g = T \cup {left, right} /\ g[R] = h[R] + 1
      /\ g[left] = h[R] /\ g[right] = h[R]
      /\ \A q \in T \ {R} : g[q] = h[q]
  BY DEF RanksGrown, Extends
<1>4. /\ ~IsLeaf(b[R]) /\ Len(b[R].cells) = 1 /\ Kids(b[R]) = {left, right} /\ Apart(b[R])
      /\ Alike(a[R], b[left]) /\ Open(b[right]) /\ b[right].cells = <<>>
      /\ \A q \in T \ {R} : Alike(a[q], b[q])
      /\ \A q \in Pages : b[q].parent = IF q \in {left, right} THEN R
                                        ELSE IF q \in Kids(a[R]) THEN left ELSE a[q].parent
  BY <1>2 DEF RootGrew
<1>5. ~IsLeaf(b[right]) /\ Kids(b[right]) = {} /\ ~IsLeaf(b[left]) /\ Kids(b[left]) = Kids(a[R])
  <2>1. Firsts(<<>>) = {}
    BY DEF Firsts
  <2> QED BY <1>4, <2>1 DEF Kids, Open, Alike
<1>6. \A q \in T \ {R} : Kids(b[q]) = Kids(a[q]) /\ (IsLeaf(b[q]) <=> IsLeaf(a[q]))
  BY <1>4 DEF Alike
<1>7. h[R] # 0 /\ h[R] \in Nat
  BY <1>1, <1>2 DEF LeavesLowest
<1>8. \A q \in DOMAIN g : q = R \/ q = left \/ q = right \/ q \in T \ {R}
  BY <1>3
<1>9. \A q \in T : \A k \in Kids(a[q]) : h[q] = h[k] + 1 /\ k # c /\ k # R
  BY <1>1, <1>2 DEF KidsNextLower
<1>10. AllRanked(m, g)
  <2> SUFFICES ASSUME NEW q \in Pages, q < m PROVE q \in DOMAIN g
    BY DEF AllRanked
  <2>1. q \in Nat
    BY PageNumbers
  <2>2. q < n \/ q = right \/ q = left
    BY <2>1
  <2> QED BY <1>1, <1>3, <2>2 DEF AllRanked
<1>11. LeavesLowest(b, g)
  <2> SUFFICES ASSUME NEW q \in DOMAIN g PROVE IsLeaf(b[q]) <=> g[q] = 0
    BY DEF LeavesLowest
  <2>1. CASE q \in T \ {R}
    BY <1>1, <1>3, <1>6, <2>1 DEF LeavesLowest
  <2>2. CASE q = R
    BY <1>3, <1>4, <1>7, <2>2
  <2>3. CASE q = left \/ q = right
    BY <1>3, <1>5, <1>7, <2>3
  <2> QED BY <1>8, <2>1, <2>2, <2>3
<1>12. KidsNextLower(b, g, {c})
  <2> SUFFICES ASSUME NEW q \in DOMAIN g, NEW k \in Kids(b[q]) PROVE g[q] = g[k] + 1 /\ k # c
    BY DEF KidsNextLower
  <2>1. CASE q \in T \ {R}
    BY <1>2, <1>3, <1>6, <1>9, <2>1
  <2>2. CASE q = R
    BY <1>2, <1>3, <1>4, <2>2
  <2>3. CASE q = left
    BY <1>2, <1>3, <1>5, <1>9, <2>3
  <2> QED BY <1>5, <1>8, <2>1, <2>2, <2>3
<1>13. ParentsNextHigher(b, g, {c})
  <2> SUFFICES ASSUME NEW q \in DOMAIN g, q # R, q # c, ~IsLeaf(b[q]) PROVE g[b[q].parent] = g[q] + 1
    BY DEF ParentsNextHigher
  <2>0. q \in Pages
    BY <1>2, <1>3
  <2>1. CASE q = left \/ q = right
    BY <1>2, <1>3, <1>4, <2>1
  <2>2. CASE q \in T \ {R} /\ q \in Kids(a[R])
    <3>1. b[q].parent = left
      BY <1>2, <1>4, <2>0, <2>2
    <3> QED BY <1>2, <1>3, <1>9, <2>2, <3>1
  <2>3. CASE q \in T \ {R} /\ q \notin Kids(a[R])
    <3>1. b[q].parent = a[q].parent /\ a[q].parent \in T
      BY <1>2, <1>4, <2>0, <2>3
    <3>2. h[a[q].parent] = h[q] + 1
      BY <1>1, <1>6, <2>3 DEF ParentsNextHigher
    <3>3. a[q].parent # R
      <4>1. PICK s \in T : q \in Kids(a[s])
        BY <1>1, <2>3 DEF SomeParent
      <4>2. s # R /\ h[s] = h[q] + 1 /\ h[s] < h[R]
        BY <1>2, <1>9, <2>3, <4>1
      <4> QED BY <1>2, <3>2, <4>1, <4>2
    <3> QED BY <1>3, <2>3, <3>1, <3>2, <3>3
  <2> QED BY <1>8, <2>1, <2>2, <2>3
<1>14. OneParent(b, g)
  <2> SUFFICES ASSUME NEW q \in DOMAIN g, NEW s \in DOMAIN g, NEW k \in Kids(b[q]), k \in Kids(b[s])
               PROVE  q = s
    BY DEF OneParent
  <2> DEFINE was(x) == IF x = left THEN R ELSE x
  <2>1. \A x \in DOMAIN g : k \in Kids(b[x]) => x = R \/ (was(x) \in T /\ k \in Kids(a[was(x)]))
    BY <1>2, <1>5, <1>6, <1>8
  <2>2. CASE q = R
    BY <1>2, <1>4, <1>5, <1>6, <1>8, <2>2
  <2>3. CASE s = R
    BY <1>2, <1>4, <1>5, <1>6, <1>8, <2>3
  <2>4. CASE q # R /\ s # R
    <3>1. was(q) = was(s)
      BY <1>1, <2>1, <2>4 DEF OneParent
    <3> QED BY <2>4, <3>1
  <2> QED BY <2>2, <2>3, <2>4
<1>15. SomeParent(b, g, {c})
  <2> SUFFICES ASSUME NEW k \in DOMAIN g, k # R, k # c PROVE \E q \in DOMAIN g : k \in Kids(b[q])
    BY DEF SomeParent
  <2>1. CASE k = left \/ k = right
    BY <1>2, <1>3, <1>4, <2>1
  <2>2. CASE k \in T \ {R}
    <3>1. PICK q \in T : k \in Kids(a[q])
      BY <1>1, <2>2 DEF SomeParent
    <3>2. CASE q = R
      BY <1>3, <1>5, <3>1, <3>2
    <3>3. CASE q # R
      BY <1>3, <1>6, <3>1, <3>3
    <3> QED BY <3>2, <3>3
  <2> QED BY <1>8, <2>1, <2>2
<1>16. LeavesAgree(b, g, {c})
  <2> SUFFICES ASSUME NEW k \in DOMAIN g, k # R, k # c, IsLeaf(b[k]) PROVE k \in Kids(b[b[k].parent])
    BY DEF LeavesAgree
  <2>1. k \in T \ {R} /\ k # left /\ k # right /\ k \in Pages
    BY <1>2, <1>5, <1>8
  <2>2. k \in Kids(a[a[k].parent]) /\ a[k].parent \in T
    BY <1>1, <1>2, <1>6, <2>1 DEF LeavesAgree
  <2>3. CASE k \in Kids(a[R])
    <3>1. b[k].parent = left
      BY <1>4, <2>1, <2>3
    <3> QED BY <1>5, <2>3, <3>1
  <2>4. CASE k \notin Kids(a[R])
    <3>1. b[k].parent = a[k].parent /\ a[k].parent # R
      BY <1>4, <2>1, <2>2, <2>4
    <3> QED BY <1>6, <2>2, <3>1
  <2> QED BY <2>3, <2>4
<1>17. InnerFilled(b, g, {right})
  <2> SUFFICES ASSUME NEW q \in DOMAIN g, q # right, ~IsLeaf(b[q])
               PROVE  Len(b[q].cells) >= 1 /\ Apart(b[q])
    BY DEF InnerFilled
  <2>1. CASE q = R
    <3>1. Len(b[q].cells) = 1 /\ Apart(b[q])
      BY <1>4, <2>1
    <3>2. \A x : x = 1 => x >= 1
      OBVIOUS
    <3> QED BY ONLY <3>1, <3>2
  <2>2. CASE q = left
    BY <1>1, <1>2, <1>4, <2>2 DEF InnerFilled, Alike
  <2>3. CASE q \in T \ {R}
    BY <1>1, <1>4, <2>3 DEF InnerFilled, Alike
  <2> QED BY <1>8, <2>1, <2>2, <2>3
<1>18. LeavesFilled(b, g)
  <2> SUFFICES ASSUME NEW q \in DOMAIN g, q # R, IsLeaf(b[q]) PROVE Len(b[q].cells) >= RIGHT_SPLIT_COUNT
    BY DEF LeavesFilled
  <2>1. q \in T \ {R}
    BY <1>5, <1>8
  <2> QED BY <1>1, <1>4, <2>1 DEF LeavesFilled, Alike
<1> HIDE DEF m
<1> QED BY <1>5, <1>10, <1>11, <1>12, <1>13, <1>14, <1>15, <1>16, <1>17, <1>18 DEF Even, m

\* The new page of a split is filled, and the child has its place and is told.
LEMMA EvenParted ==
  ASSUME NEW a, NEW b, NEW n, NEW old, NEW new, NEW h, NEW c, {old, new, c} \subseteq DOMAIN h,
         Ranked(a, n, h, {new}), NEW spare, NEW loose, c \in spare, spare \subseteq loose,
         Even(a, n, h, {new}, spare, loose), h[old] = h[c] + 1, h[new] = h[old],
         Kids(a[new]) = {}, ~IsLeaf(a[old]), ~IsLeaf(a[new]), old # new, c # root_page_num,
         Parted(a, b, old, new, c)
  PROVE  Even(b, n, h, {}, spare \ {c}, loose \ {c})
<1> DEFINE T == DOMAIN h
           R == root_page_num
<1>1. /\ AllRanked(n, h) /\ LeavesLowest(a, h)
      /\ KidsNextLower(a, h, spare) /\ ParentsNextHigher(a, h, loose)
      /\ OneParent(a, h) /\ SomeParent(a, h, spare) /\ LeavesAgree(a, h, spare)
      /\ InnerFilled(a, h, {new}) /\ LeavesFilled(a, h)
  BY DEF Even
<1>2. /\ T \subseteq Pages /\ \A q \in T \ {R} : a[q].parent \in T
      /\ \A q \in T : h[q] \in Nat
      /\ \A q \in T : \A k \in Kids(a[q]) : k \in T
  BY DEF Ranked
<1>3. PICK k1, k2, k3, k4 \in Pages, to \in {old, new} :
    /\ Quarters(a[old], k1, k2, k3, k4)
    /\ Kids(b[old]) = {k1, k2} \cup (IF to = old THEN {c} ELSE {})
    /\ Kids(b[new]) = {k3, k4} \cup (IF to = new THEN {c} ELSE {})
    /\ \A p \in {old, new} : /\ ~IsLeaf(b[p]) /\ ~Open(b[p]) /\ Len(b[p].cells) \in 1 .. 2
                             /\ Apart(a[old]) /\ c \notin Kids(a[old]) => Apart(b[p])
    /\ \A q \in Pages \ {old, new} : Alike(a[q], b[q])
    /\ \A q \in Pages : b[q].parent = IF q = c THEN to
                                      ELSE IF q \in {k3, k4} THEN new ELSE a[q].parent
  BY DEF Parted
<1>4. Kids(a[old]) = {k1, k2, k3, k4} /\ Apart(a[old])
  BY <1>1, <1>3 DEF Quarters, InnerFilled
<1>5. {k1, k2} \cap {k3, k4} = {}
  BY <1>3, <1>4 DEF Quarters
<1>6. \A q \in T : \A k \in Kids(a[q]) : h[q] = h[k] + 1 /\ k \notin spare /\ k # c
  BY <1>1 DEF KidsNextLower
<1>7. \A q \in T \ {old, new} : /\ Kids(b[q]) = Kids(a[q]) /\ Len(b[q].cells) = Len(a[q].cells)
                                /\ IsLeaf(b[q]) <=> IsLeaf(a[q])
                                /\ Apart(a[q]) => Apart(b[q])
  BY <1>2, <1>3 DEF Alike
<1>8. \A q \in T : IsLeaf(b[q]) <=> IsLeaf(a[q])
  BY <1>3, <1>7
<1>9. AllRanked(n, h) /\ LeavesLowest(b, h)
  BY <1>1, <1>8 DEF LeavesLowest
<1>10. /\ \A k \in Kids(b[old]) : (k = c /\ to = old) \/ (k \in {k1, k2} /\ k \in Kids(a[old]))
       /\ \A k \in Kids(b[new]) : (k = c /\ to = new) \/ (k \in {k3, k4} /\ k \in Kids(a[old]))
       /\ {k1, k2} \subseteq Kids(b[old]) /\ {k3, k4} \subseteq Kids(b[new]) /\ c \in Kids(b[to])
  BY <1>3, <1>4
<1>11. KidsNextLower(b, h, spare \ {c})
  <2> SUFFICES ASSUME NEW q \in T, NEW k \in Kids(b[q]) PROVE h[q] = h[k] + 1 /\ k \notin spare \ {c}
    BY DEF KidsNextLower
  <2>1. CASE q \in {old, new}
    <3>1. k = c \/ k \in Kids(a[old])
      BY <1>10, <2>1
    <3> QED BY <1>6, <2>1, <3>1
  <2>2. CASE q \notin {old, new}
    BY <1>6, <1>7, <2>2
  <2> QED BY <2>1, <2>2
<1>12. ParentsNextHigher(b, h, loose \ {c})
  <2> SUFFICES ASSUME NEW q \in T \ {R}, q \notin loose \ {c}, ~IsLeaf(b[q])
               PROVE  h[b[q].parent] = h[q] + 1
    BY DEF ParentsNextHigher
  <2>0. q \in Pages
    BY <1>2
  <2>1. CASE q = c
    <3>1. b[q].parent \in {old, new}
      BY <1>3, <2>0, <2>1
    <3> QED BY <2>1, <3>1
  <2>2. CASE q # c /\ q \in {k3, k4}
    <3>1. b[q].parent = new /\ q \in Kids(a[old])
      BY <1>3, <1>4, <2>0, <2>2
    <3> QED BY <1>6, <3>1
  <2>3. CASE q # c /\ q \notin {k3, k4}
    <3>1. b[q].parent = a[q].parent
      BY <1>3, <2>0, <2>3
    <3> QED BY <1>1, <1>8, <2>3, <3>1 DEF ParentsNextHigher
  <2> QED BY <2>1, <2>2, <2>3
<1>13. OneParent(b, h)
  <2> SUFFICES ASSUME NEW q \in T, NEW s \in T, NEW k \in Kids(b[q]), k \in Kids(b[s]) PROVE q = s
    BY DEF OneParent
  <2>1. CASE k = c
    <3>1. \A x \in T : c \in Kids(b[x]) => x = to
      <4> SUFFICES ASSUME NEW x \in T, c \in Kids(b[x]) PROVE x = to
        OBVIOUS
      <4>1. c \notin Kids(a[old]) /\ c \notin Kids(a[x])
        BY <1>6
      <4>2. x \in {old, new}
        BY <1>7, <4>1
      <4> QED BY <1>10, <4>1, <4>2
    <3> QED BY <2>1, <3>1
  <2>2. CASE k # c
    <3>1. \A x \in T : k \in Kids(b[x]) => IF x \in {old, new} THEN k \in Kids(a[old]) ELSE k \in Kids(a[x])
      BY <1>7, <1>10, <2>2
    <3>2. \A x \in T : k \in Kids(a[old]) /\ k \in Kids(a[x]) => x = old
      BY <1>1 DEF OneParent
    <3>3. CASE q \in {old, new}
      <4>1. s \in {old, new}
        BY <3>1, <3>2, <3>3
      <4>2. k \in Kids(b[old]) => k \in {k1, k2}
        BY <1>10, <2>2
      <4>3. k \in Kids(b[new]) => k \in {k3, k4}
        BY <1>10, <2>2
      <4>4. ~(k \in Kids(b[old]) /\ k \in Kids(b[new]))
        BY <1>5, <4>2, <4>3
      <4> QED BY <3>3, <4>1, <4>4
    <3>4. CASE q \notin {old, new}
      <4>1. s \notin {old, new}
        BY <3>1, <3>2, <3>4
      <4> QED BY <1>1, <3>1, <3>4, <4>1 DEF OneParent
    <3> QED BY <3>3, <3>4
  <2> QED BY <2>1, <2>2
<1>14. SomeParent(b, h, spare \ {c})
  <2> SUFFICES ASSUME NEW k \in T \ {R}, k \notin spare \ {c} PROVE \E q \in T : k \in Kids(b[q])
    BY DEF SomeParent
  <2>1. CASE k = c
    BY <1>10, <2>1
  <2>2. CASE k # c
    <3>1. PICK q \in T : k \in Kids(a[q])
      BY <1>1, <2>2 DEF SomeParent
    <3>2. CASE q = old
      <4>1. k \in {k1, k2} \/ k \in {k3, k4}
        BY <1>4, <3>1, <3>2
      <4> QED BY <1>10, <4>1
    <3>3. CASE q # old
      BY <1>7, <3>1, <3>3
    <3> QED BY <3>2, <3>3
  <2> QED BY <2>1, <2>2
<1>15. LeavesAgree(b, h, spare \ {c})
  <2> SUFFICES ASSUME NEW k \in T \ {R}, k \notin spare \ {c}, IsLeaf(b[k]) PROVE k \in Kids(b[b[k].parent])
    BY DEF LeavesAgree
  <2>0. k \in Pages
    BY <1>2
  <2>1. CASE k = c
    BY <1>3, <1>10, <2>0, <2>1
  <2>2. CASE k # c /\ k \in {k3, k4}
    BY <1>3, <1>10, <2>0, <2>2
  <2>3. CASE k # c /\ k \notin {k3, k4}
    <3>1. b[k].parent = a[k].parent
      BY <1>3, <2>0, <2>3
    <3>2. k \in Kids(a[a[k].parent]) /\ a[k].parent \in T
      BY <1>1, <1>2, <1>8, <2>3 DEF LeavesAgree
    <3>3. CASE a[k].parent = old
      BY <1>4, <1>10, <2>3, <3>1, <3>2, <3>3
    <3>4. CASE a[k].parent # old
      BY <1>7, <3>1, <3>2, <3>4
    <3> QED BY <3>3, <3>4
  <2> QED BY <2>1, <2>2, <2>3
<1>16. InnerFilled(b, h, {})
  <2> SUFFICES ASSUME NEW q \in T, ~IsLeaf(b[q]) PROVE Len(b[q].cells) >= 1 /\ Apart(b[q])
    BY DEF InnerFilled
  <2>1. CASE q \in {old, new}
    <3>1. Len(b[q].cells) \in 1 .. 2 /\ Apart(b[q])
      BY <1>3, <1>4, <1>6, <2>1
    <3>2. \A x \in 1 .. 2 : x >= 1
      OBVIOUS
    <3> QED BY ONLY <3>1, <3>2
  <2>2. CASE q \notin {old, new}
    BY <1>1, <1>7, <2>2 DEF InnerFilled
  <2> QED BY <2>1, <2>2
<1>17. LeavesFilled(b, h)
  <2> SUFFICES ASSUME NEW q \in T \ {R}, IsLeaf(b[q]) PROVE Len(b[q].cells) >= RIGHT_SPLIT_COUNT
    BY DEF LeavesFilled
  <2>1. q \notin {old, new}
    BY <1>3
  <2> QED BY <1>1, <1>7, <2>1 DEF LeavesFilled
<1> QED BY <1>9, <1>11, <1>12, <1>13, <1>14, <1>15, <1>16, <1>17 DEF Even

LEMMA EvenLooser ==
  ASSUME NEW tree, NEW n, NEW h, NEW open, NEW spare, NEW loose, Even(tree, n, h, open, spare, loose),
         NEW more, loose \subseteq more
  PROVE  Even(tree, n, h, open, spare, more)
BY DEF Even, ParentsNextHigher

\* Child c, which has no place, may be put under page p, one level higher.
EvenPlacing(o, h, p, c) ==
  /\ Placing(o, h, p, c) /\ Even(o.pages, o.num_pages, h, {}, {c}, {c})
  /\ h[p] = h[c] + 1 /\ (IsLeaf(o.pages[c]) => o.pages[c].parent = p)

\* It has been put there, if nothing failed.
EvenKept(h, c, r) ==
  Failed(r) \/ \E g : /\ Ranked(r.pages, r.num_pages, g, {}) /\ Extends(h, g)
                      /\ Even(r.pages, r.num_pages, g, {}, {}, {c})

Evens(insert, m) ==
  \A call \in Calls : \A h :
    m <= call.op.num_pages /\ EvenPlacing(call.op, h, call.parent, call.child)
    => EvenKept(h, call.child, insert[call])

\* The root is split.
LEMMA RootSplitEven ==
  ASSUME NEW o, NEW h, NEW p, NEW c, EvenPlacing(o, h, p, c), p = root_page_num,
         NEW r, RootParted(o, c, r)
  PROVE  EvenKept(h, c, r)
<1> DEFINE new == o.num_pages
           page == new + 1
           n == page + 1
<1>1. /\ o.num_pages \in Nat /\ ~IsLeaf(o.pages[root_page_num])
      /\ Ranked(o.pages, o.num_pages, h, {}) /\ {p, c} \subseteq DOMAIN h /\ h[c] < h[p]
      /\ c # root_page_num /\ h[p] = h[c] + 1 /\ Even(o.pages, o.num_pages, h, {}, {c}, {c})
      /\ root_page_num < o.num_pages
  <2>1. o.num_pages \in Nat /\ o.num_pages >= 1 /\ c # p
    BY PlacingFacts DEF EvenPlacing
  <2> QED BY <2>1 DEF EvenPlacing, Placing, root_page_num
<1>2. PICK g \in [Pages -> Node] : RootGrew(o.pages, g, page, new) /\ Parted(g, r.pages, page, new, c)
  BY DEF RootParted
<1>3. {new, page} \subseteq Pages /\ r.num_pages = n
  BY DEF RootParted
<1>4. \A q \in DOMAIN h : q \in Nat /\ q < o.num_pages /\ h[q] \in Nat
  BY <1>1, RanksOf
<1>5. /\ page \in Pages \ DOMAIN h /\ new \in Pages \ {root_page_num} /\ page # new
      /\ new \notin DOMAIN h /\ o.num_pages < n /\ page < n /\ new < n /\ n \in Nat
      /\ n = o.num_pages + 2 /\ page = o.num_pages + 1 /\ new = o.num_pages
  BY <1>1, <1>3, <1>4 DEF root_page_num
<1> HIDE DEF n, page, new
<1>6. PICK f : RanksGrown(o.pages, g, n, h, page, new, {new}, f)
  <2> DEFINE tree == o.pages
             open == IF IsLeaf(tree[root_page_num]) THEN {} ELSE {new}
             m == o.num_pages
  <2>1. open = {new} /\ ~IsLeaf(tree[root_page_num]) /\ (new \in DOMAIN h <=> IsLeaf(tree[root_page_num]))
    BY <1>1, <1>5
  <2>2. Ranked(tree, m, h, {}) /\ m \in Nat /\ m < n /\ RootGrew(tree, g, page, new)
    BY <1>1, <1>2, <1>5
  <2> HIDE DEF tree, m
  <2>3. open = IF IsLeaf(tree[root_page_num]) THEN {} ELSE {new}
    OBVIOUS
  <2> HIDE DEF open
  <2>4. \E f : RanksGrown(tree, g, n, h, page, new, open, f)
    BY ONLY <1>5, <2>1, <2>2, <2>3, RankedGrew
  <2>5. \E f : RanksGrown(tree, g, n, h, page, new, {new}, f)
    BY ONLY <2>1, <2>4
  <2> QED BY <2>5 DEF tree
<1>7. /\ Ranked(g, n, f, {new}) /\ Extends(h, f)
      /\ DOMAIN f = DOMAIN h \cup {page, new} /\ f[page] = h[root_page_num]
      /\ f[new] = f[page] /\ f[c] = h[c]
  BY <1>1, <1>6 DEF RanksGrown, Extends
<1>8. Even(g, n, f, {new}, {c}, {c}) /\ Kids(g[new]) = {}
  <2> DEFINE tree == o.pages
             m == o.num_pages
  <2>1. /\ m \in Nat /\ c \in DOMAIN h /\ c # root_page_num /\ ~IsLeaf(tree[root_page_num])
        /\ Ranked(tree, m, h, {}) /\ Even(tree, m, h, {}, {c}, {c})
        /\ new = m /\ page = m + 1 /\ {page, new} \subseteq Pages
        /\ RootGrew(tree, g, page, new) /\ RanksGrown(tree, g, m + 2, h, page, new, {new}, f)
    BY <1>1, <1>2, <1>3, <1>5, <1>6
  <2> HIDE DEF tree, m
  <2>2. Even(g, m + 2, f, {new}, {c}, {c}) /\ Kids(g[new]) = {}
    BY ONLY <2>1, EvenGrew
  <2> QED BY <1>5, <2>2 DEF m
<1>9. ~IsLeaf(g[page]) /\ ~IsLeaf(g[new])
  BY <1>1, <1>2 DEF RootGrew, Alike, Open
<1>10. {page, new, c} \subseteq DOMAIN f /\ f[c] < f[page] /\ f[page] = f[c] + 1
  BY <1>1, <1>7
<1>11. Ranked(r.pages, n, f, {})
  BY <1>2, <1>5, <1>7, <1>10, RankedParted
<1>12. Even(r.pages, n, f, {}, {}, {})
  <2> DEFINE b == r.pages
             one == {c}
  <2>1. /\ {page, new, c} \subseteq DOMAIN f /\ Ranked(g, n, f, {new})
        /\ c \in one /\ one \subseteq one /\ Even(g, n, f, {new}, one, one)
        /\ f[page] = f[c] + 1 /\ f[new] = f[page] /\ Kids(g[new]) = {}
        /\ ~IsLeaf(g[page]) /\ ~IsLeaf(g[new]) /\ page # new /\ c # root_page_num
        /\ Parted(g, b, page, new, c)
    BY <1>1, <1>2, <1>5, <1>7, <1>8, <1>9, <1>10
  <2>2. one \ {c} = {}
    OBVIOUS
  <2> HIDE DEF b, one
  <2>3. Even(b, n, f, {}, one \ {c}, one \ {c})
    BY ONLY <2>1, EvenParted
  <2> QED BY <2>2, <2>3 DEF b
<1>13. Even(r.pages, n, f, {}, {}, {c})
  BY <1>12, EvenLooser
<1> QED BY <1>3, <1>7, <1>11, <1>13 DEF EvenKept

\* Another node is, and the new one is put above.
LEMMA NodeSplitEven ==
  ASSUME NEW insert, Contract(insert), NEW o, NEW h, NEW p, NEW c, EvenPlacing(o, h, p, c),
         p # root_page_num, Evens(insert, o.num_pages + 1),
         NEW u, NodeParted(o, p, c, u), NEW r, NewPut(o, p, u, insert, r)
  PROVE  EvenKept(h, c, r)
<1> DEFINE new == o.num_pages
           above == u.pages[p].parent
           done == insert[Call(u, above, new)]
<1>1. /\ o.num_pages \in Nat /\ p \in Pages /\ ~IsLeaf(o.pages[p])
      /\ Ranked(o.pages, o.num_pages, h, {}) /\ p \in DOMAIN h /\ c \in DOMAIN h /\ h[c] < h[p]
      /\ Even(o.pages, o.num_pages, h, {}, {c}, {c}) /\ h[p] = h[c] + 1
  BY PlacingFacts DEF EvenPlacing, Placing, Inner
<1>2. Good(u) /\ Grown(u) /\ ~Failed(u) /\ new \in Pages /\ u.num_pages = new + 1
  BY DEF NodeParted
<1>3. PICK t \in [Pages -> Node] : Opened(o.pages, t, new) /\ Parted(t, u.pages, p, new, c)
  BY DEF NodeParted
<1>4. PICK ptrs, ptr : ptr.page = new /\ r = SetParent(Use(done, ptrs), ptr, done.pages[p].parent)
  BY DEF NewPut
<1>5. /\ \A q \in DOMAIN h : q \in Nat /\ q < new /\ h[q] \in Nat
      /\ c # root_page_num /\ root_page_num \in DOMAIN h
  <2>1. /\ \A q \in DOMAIN h : q \in Nat /\ q < new /\ h[q] \in Nat /\ h[q] <= h[root_page_num]
        /\ root_page_num \in DOMAIN h
    BY <1>1, RanksOf
  <2> QED BY <1>1, <2>1
<1>6. p # new /\ c # new /\ new # root_page_num /\ new \notin DOMAIN h
  BY <1>1, <1>5
<1> HIDE DEF done, above
<1>7. PICK g : RanksOpened(t, new, h, p, g)
  <2> DEFINE tree == o.pages
  <2>1. /\ Ranked(tree, new, h, {}) /\ new \in Nat /\ new \in Pages /\ p \in DOMAIN h /\ p # root_page_num
        /\ Opened(tree, t, new)
    BY <1>1, <1>2, <1>3
  <2> HIDE DEF new, tree
  <2> QED BY ONLY <2>1, RankedOpened
<1>8. /\ Ranked(t, new + 1, g, {new}) /\ Extends(h, g)
      /\ DOMAIN g = DOMAIN h \cup {new} /\ g[new] = h[p]
      /\ \A q \in DOMAIN h : g[q] = h[q]
  BY <1>7 DEF RanksOpened
<1>9. Even(t, new + 1, g, {new}, {c, new}, {c, new}) /\ Kids(t[new]) = {}
  <2> DEFINE tree == o.pages
  <2>1. /\ new \in Nat /\ p \in DOMAIN h /\ c \in DOMAIN h /\ Ranked(tree, new, h, {})
        /\ Even(tree, new, h, {}, {c}, {c}) /\ ~IsLeaf(tree[p]) /\ new \in Pages /\ Opened(tree, t, new)
        /\ RanksOpened(t, new, h, p, g)
    BY <1>1, <1>2, <1>3, <1>7
  <2> HIDE DEF new, tree
  <2> QED BY ONLY <2>1, EvenOpened
<1>10. /\ {p, new, c} \subseteq DOMAIN g /\ g[new] = g[p] /\ g[c] < g[p] /\ g[p] = g[c] + 1
  BY <1>1, <1>8
<1>11. new + 1 \in Nat /\ ~IsLeaf(t[p]) /\ ~IsLeaf(t[new])
  BY <1>1, <1>3, <1>6 DEF Opened, Open
<1>12. Even(u.pages, u.num_pages, g, {}, {new}, {new})
  <2> DEFINE b == u.pages
             two == {c, new}
             m == new + 1
  <2>1. /\ {p, new, c} \subseteq DOMAIN g /\ Ranked(t, m, g, {new})
        /\ c \in two /\ two \subseteq two /\ Even(t, m, g, {new}, two, two)
        /\ g[p] = g[c] + 1 /\ g[new] = g[p] /\ Kids(t[new]) = {}
        /\ ~IsLeaf(t[p]) /\ ~IsLeaf(t[new]) /\ p # new /\ c # root_page_num
        /\ Parted(t, b, p, new, c)
    BY <1>3, <1>5, <1>6, <1>8, <1>9, <1>10, <1>11
  <2>2. two \ {c} = {new}
    BY <1>6
  <2> HIDE DEF b, two, m
  <2>3. Even(b, m, g, {}, two \ {c}, two \ {c})
    BY ONLY <2>1, EvenParted
  <2> QED BY <1>2, <2>2, <2>3 DEF b, m
<1> HIDE DEF new
<1>13. Ranked(u.pages, u.num_pages, g, {})
  BY <1>2, <1>3, <1>8, <1>10, <1>11, RankedParted
<1>14. above \in DOMAIN g /\ g[p] < g[above]
  BY <1>1, <1>10, <1>13, RanksOf DEF above
<1>15. Inner(u, above)
  BY <1>1, <1>2, ParentIsInner DEF above
<1>16. ~IsLeaf(u.pages[p]) /\ ~IsLeaf(u.pages[new])
  BY <1>3 DEF Parted
<1>17. g[above] = g[new] + 1
  BY <1>6, <1>10, <1>12, <1>16 DEF Even, ParentsNextHigher, above
<1>18. EvenPlacing(u, g, above, new)
  <2>1. Placing(u, g, above, new)
    BY <1>2, <1>10, <1>13, <1>14, <1>15 DEF Placing, Inner
  <2> QED BY <1>12, <1>16, <1>17, <2>1 DEF EvenPlacing
<1>19. EvenKept(g, new, done)
  <2> DEFINE call == Call(u, above, new)
  <2>1. /\ call \in Calls /\ call.op = u /\ call.parent = above /\ call.child = new
    <3>1. u \in Operations /\ above \in Nat /\ new \in Nat
      BY <1>2, <1>15, PageNumbers DEF Good, Inner
    <3> QED BY <3>1 DEF Call, Calls
  <2>2. o.num_pages + 1 <= u.num_pages
    BY <1>1, <1>2 DEF new
  <2> HIDE DEF call
  <2>3. EvenKept(g, new, insert[call])
    BY <1>18, <2>1, <2>2 DEF Evens
  <2> QED BY <2>3 DEF done, call
<1>20. Good(done)
  BY <1>2, <1>15, Called, PageNumbers DEF Inserts, Keeps, done
<1>21. CASE Failed(done)
  <2>1. Use(done, ptrs) = done
    BY <1>21 DEF Use
  <2>2. r = done
    BY <1>4, <1>21, <2>1 DEF SetParent
  <2> QED BY <1>21, <2>2 DEF EvenKept
<1>22. CASE ~Failed(done)
  <2>1. PICK f : /\ Ranked(done.pages, done.num_pages, f, {}) /\ Extends(g, f)
                 /\ Even(done.pages, done.num_pages, f, {}, {}, {new})
    BY <1>19, <1>22 DEF EvenKept
  <2>2. Extends(h, f)
    <3>1. /\ root_page_num \in DOMAIN h /\ h[root_page_num] \in Nat /\ g[root_page_num] \in Nat
          /\ f[root_page_num] \in Nat
      BY <1>1, <1>13, <2>1, RanksOf
    <3> QED BY <1>8, <2>1, <3>1, ExtendsTransitive
  <2>3. done \in Operations /\ done.num_pages \in Nat /\ done.pages \in [Pages -> Node]
    BY <1>20, OperationFields DEF Good
  <2> DEFINE used == Use(done, ptrs)
             q == done.pages[p].parent
  <2>4. FailsHalted(done, used) /\ used \in Operations /\ used.pages = done.pages /\ used.num_pages = done.num_pages
    BY <2>3, PointersUsed, StoreFailsHalted
  <2>5. r = SetParent(used, ptr, q) /\ ptr.page = new
    BY <1>4
  <2> HIDE DEF used
  <2>6. p \in DOMAIN f /\ new \in DOMAIN f /\ f[new] = f[p] /\ f[p] = h[p] /\ p # root_page_num
    <3>1. f[new] = g[new] /\ f[p] = g[p] /\ DOMAIN g \subseteq DOMAIN f
      BY <1>6, <1>10, <2>1 DEF Extends
    <3> QED BY <1>1, <1>8, <1>10, <3>1
  <2>7. q \in DOMAIN f /\ f[new] < f[q] /\ q \in Pages
    BY <2>1, <2>6, RanksOf
  <2>8. ~IsLeaf(done.pages[p]) /\ ~IsLeaf(done.pages[new])
    <3>1. h[p] # 0
      BY <1>1, <1>5
    <3> QED BY <2>1, <2>6, <3>1 DEF Even, LeavesLowest
  <2>9. f[q] = f[new] + 1
    BY <1>6, <2>1, <2>6, <2>8 DEF Even, ParentsNextHigher
  <2> HIDE DEF q
  <2>10. /\ r \in Operations /\ r.num_pages = used.num_pages
         /\ ~Failed(r) => ~Failed(used) /\ r.pages = Reparented(used.pages, new, q)
    BY <1>2, <2>4, <2>5, <2>7, ParentSetExactly
  <2>11. CASE ~Failed(r)
    <3>1. r.pages = Reparented(done.pages, new, q) /\ r.num_pages = done.num_pages
      BY <2>4, <2>10, <2>11
    <3> DEFINE a == done.pages
               m == done.num_pages
    <3>2. /\ a \in [Pages -> Node] /\ q \in DOMAIN f /\ new \in DOMAIN f /\ m \in Nat
          /\ Ranked(a, m, f, {}) /\ Even(a, m, f, {}, {}, {new}) /\ ~IsLeaf(a[new])
          /\ f[q] = f[new] + 1 /\ f[new] < f[q]
      BY <2>1, <2>3, <2>6, <2>7, <2>8, <2>9
    <3> HIDE DEF a, m
    <3>3. Ranked(Reparented(a, new, q), m, f, {})
      BY ONLY <3>2, RankedReparented
    <3>4. Even(Reparented(a, new, q), m, f, {}, {}, {})
      BY ONLY <3>2, EvenReparented
    <3>5. Even(Reparented(a, new, q), m, f, {}, {}, {c})
      BY <3>4, EvenLooser
    <3> QED BY <2>2, <3>1, <3>3, <3>5 DEF EvenKept, a, m
  <2> QED BY <2>11 DEF EvenKept
<1> QED BY <1>21, <1>22

\* A call whose own calls keep the tree even keeps it even.
LEMMA InsertEven ==
  ASSUME NEW insert, Contract(insert), NEW o, NEW h, NEW p, NEW c, EvenPlacing(o, h, p, c),
         Evens(insert, o.num_pages + 1), Fills(insert) \/ FILE_PAGES_NUM <= o.num_pages
  PROVE  EvenKept(h, c, InsertChild(o, p, c, insert))
<1> DEFINE r == InsertChild(o, p, c, insert)
<1> SUFFICES ASSUME ~Failed(r) PROVE EvenKept(h, c, r)
  BY DEF EvenKept
<1>1. /\ Good(o) /\ Grown(o) /\ Inner(o, p) /\ o.num_pages \in Nat
      /\ Len(o.pages[p].cells) \in Nat
      /\ Len(o.pages[p].cells) <= INTERNAL_NODE_MAX_CELLS /\ ~Open(o.pages[p])
      /\ c \in Pages /\ c < o.num_pages /\ c # p /\ c # o.num_pages /\ p \in Pages /\ p # o.num_pages
      /\ \A k \in Kids(o.pages[p]) : k \in Pages /\ k < o.num_pages /\ k # p
  <2>1. /\ Good(o) /\ Grown(o) /\ Inner(o, p) /\ o.num_pages \in Nat
        /\ Len(o.pages[p].cells) \in Nat
        /\ Len(o.pages[p].cells) <= INTERNAL_NODE_MAX_CELLS /\ ~Open(o.pages[p])
        /\ c \in Pages /\ c < o.num_pages /\ c # p
        /\ \A k \in Kids(o.pages[p]) : k \in Pages /\ k < o.num_pages /\ k # p
    BY PlacingFacts DEF EvenPlacing
  <2> QED BY <2>1 DEF Inner
<1>2. /\ Ranked(o.pages, o.num_pages, h, {}) /\ p \in DOMAIN h /\ c \in DOMAIN h /\ h[c] < h[p]
      /\ Even(o.pages, o.num_pages, h, {}, {c}, {c}) /\ h[p] = h[c] + 1
      /\ IsLeaf(o.pages[c]) => o.pages[c].parent = p
      /\ Placing(o, h, p, c) /\ ~IsLeaf(o.pages[p])
  BY <1>1 DEF EvenPlacing, Placing, Inner
<1>3. o.pages[p].right \in Kids(o.pages[p])
  BY <1>1 DEF Inner, Open, Kids
<1>4. CASE Len(o.pages[p].cells) < INTERNAL_NODE_MAX_CELLS
  <2>1. Room(o, p)
    BY <1>1, <1>3, <1>4 DEF Room
  <2>2. Adds(o, p, c, r)
    BY <1>1, <2>1, RoomFilled
  <2> HIDE DEF r
  <2>3. Joined(o.pages, r.pages, p, c) /\ r.num_pages = o.num_pages
    BY <2>2 DEF Adds
  <2>4. Ranked(r.pages, o.num_pages, h, {})
    BY <1>1, <1>2, <1>4, <2>3, RankedJoined
  <2>5. Even(r.pages, o.num_pages, h, {}, {}, {c})
    <3> DEFINE a == o.pages
               b == r.pages
               n == o.num_pages
    <3>1. /\ p \in DOMAIN h /\ c \in DOMAIN h
          /\ Ranked(a, n, h, {}) /\ Even(a, n, h, {}, {c}, {c}) /\ ~IsLeaf(a[p]) /\ h[p] = h[c] + 1
          /\ IsLeaf(a[c]) => a[c].parent = p
          /\ Len(a[p].cells) \in Nat /\ Joined(a, b, p, c)
      BY <1>1, <1>2, <2>3
    <3> HIDE DEF a, b, n
    <3>2. Even(b, n, h, {}, {}, {c})
      BY ONLY <3>1, EvenJoined
    <3> QED BY <3>2 DEF a, b, n
  <2>6. Extends(h, h)
    BY <1>1, <1>2, RankedLater
  <2> QED BY <2>3, <2>4, <2>5, <2>6 DEF EvenKept
<1>5. CASE Len(o.pages[p].cells) = INTERNAL_NODE_MAX_CELLS
  <2> DEFINE o1 == get_page(o, p)
             parent == Pointer(o1, p)
             o11 == get_page(o1, c)
             o2 == Use(o11, {parent})
             split == internal_node_split_and_insert(o2, p, c, insert)
  <2>1. Len(o2.pages[p].cells) >= INTERNAL_NODE_MAX_CELLS => r = IF Failed(o2) THEN o2 ELSE split
    BY DEF InsertChild
  <2> HIDE DEF r, split
  <2>2. Keeps(o, o1) /\ o1.pages = o.pages /\ o1.num_pages = o.num_pages
    BY <1>1, RequestKeeps
  <2> HIDE DEF o1, parent
  <2>3. Keeps(o1, o11) /\ o11.pages = o.pages /\ o11.num_pages = o.num_pages
    BY <1>1, <2>2, KeepsContext, RequestKeeps
  <2> HIDE DEF o11
  <2>4. Keeps(o11, o2) /\ o2.pages = o.pages /\ o2.num_pages = o.num_pages
    BY <1>1, <2>2, <2>3, KeepsContext, UseKeeps
  <2> HIDE DEF o2
  <2>5. Good(o2) /\ Grown(o2) /\ Inner(o2, p)
    <3>1. Keeps(o, o2)
      BY <1>1, <2>2, <2>3, <2>4, KeepsTransitive
    <3> QED BY <1>1, <3>1, KeepsContext
  <2>6. Len(o2.pages[p].cells) >= INTERNAL_NODE_MAX_CELLS
    <3>1. \A n : n = 3 => n >= 3
      OBVIOUS
    <3> QED BY ONLY <1>5, <2>4, <3>1, Zenon DEF INTERNAL_NODE_MAX_CELLS
  <2>7. ~Failed(o2) /\ r = split
    BY <2>1, <2>6
  <2>8. Splittable(o2, p, c)
    BY <1>1, <1>5, <2>4 DEF Splittable
  <2>9. Fills(insert) \/ FILE_PAGES_NUM <= o2.num_pages
    BY <2>4
  <2>10. Splits(o2, p, c, insert, r)
    BY <2>5, <2>7, <2>8, <2>9, SplitExactly DEF split
  <2>11. EvenPlacing(o2, h, p, c)
    <3>1. Placing(o2, h, p, c)
      BY <1>2, <2>4, <2>5 DEF Placing
    <3> QED BY <1>2, <2>4, <3>1 DEF EvenPlacing
  <2>12. o2.pages[p].is_root <=> p = root_page_num
    BY <1>1, <2>5 DEF Good, Shaped
  <2>13. CASE o2.pages[p].is_root /\ ~Failed(r) /\ RootParted(o2, c, r)
    BY <2>11, <2>12, <2>13, RootSplitEven
  <2>14. CASE ~o2.pages[p].is_root /\ \E u : NodeParted(o2, p, c, u) /\ NewPut(o2, p, u, insert, r)
    <3>1. PICK u : NodeParted(o2, p, c, u) /\ NewPut(o2, p, u, insert, r)
      BY <2>14
    <3>2. p # root_page_num /\ Evens(insert, o2.num_pages + 1)
      BY <2>4, <2>12, <2>14
    <3> QED BY <2>11, <3>1, <3>2, NodeSplitEven
  <2> QED BY <2>10, <2>13, <2>14 DEF Splits, r
<1>6. \A n \in Nat : n <= INTERNAL_NODE_MAX_CELLS => n < INTERNAL_NODE_MAX_CELLS \/ n = INTERNAL_NODE_MAX_CELLS
  BY DEF INTERNAL_NODE_MAX_CELLS
<1>7. Len(o.pages[p].cells) \in Nat /\ Len(o.pages[p].cells) <= INTERNAL_NODE_MAX_CELLS
  BY <1>1
<1> HIDE DEF r
<1> QED BY ONLY <1>4, <1>5, <1>6, <1>7

\* The calls nested n deep keep a tree even that has taken all but n pages.
LEMMA NestedEvens ==
  ASSUME NEW insert, Nested(insert), NEW n \in 0 .. FILE_PAGES_NUM
  PROVE  Evens(insert[n], FILE_PAGES_NUM + 1 - n)
<1> DEFINE N == FILE_PAGES_NUM
           T == {k \in 0 .. N : Evens(insert[k], N + 1 - k)}
<1>1. N \in Nat
  BY PagePointersAssumption DEF PagePointersAssumption
<1>2. 0 \in T
  <2>1. ASSUME NEW call \in Calls, NEW h, N + 1 - 0 <= call.op.num_pages,
               EvenPlacing(call.op, h, call.parent, call.child)
        PROVE  FALSE
    <3>1. call.op.num_pages \in 1 .. FILE_PAGES_NUM
      BY <2>1 DEF EvenPlacing, Placing, Good, Shaped
    <3> QED BY <1>1, <2>1, <3>1
  <2> HIDE DEF N
  <2>2. Evens(insert[0], N + 1 - 0)
    BY <2>1 DEF Evens
  <2> QED BY <1>1, <2>2
<1>3. ASSUME NEW k \in 0 .. N, k \in T, k + 1 <= N PROVE k + 1 \in T
  <2>1. /\ Evens(insert[k], N + 1 - k) /\ k + 1 \in 0 .. N /\ N + 1 - (k + 1) = N - k
        /\ k # 0 => k - 1 \in 0 .. N /\ k = (k - 1) + 1
    BY <1>1, <1>3
  <2>2. Contract(insert[k])
    BY NestedContract
  <2>3. ASSUME NEW call \in Calls, NEW h, N - k <= call.op.num_pages,
               EvenPlacing(call.op, h, call.parent, call.child)
        PROVE  EvenKept(h, call.child, insert[k + 1][call])
    <3>1. insert[k + 1][call] = InsertChild(call.op, call.parent, call.child, insert[k])
      BY <1>3 DEF Nested
    <3>2. call.op.num_pages \in 1 .. FILE_PAGES_NUM
      BY <2>3 DEF EvenPlacing, Placing, Good, Shaped
    <3>3. Evens(insert[k], call.op.num_pages + 1)
      <4>1. ASSUME NEW other \in Calls, NEW g, call.op.num_pages + 1 <= other.op.num_pages,
                   EvenPlacing(other.op, g, other.parent, other.child)
            PROVE  EvenKept(g, other.child, insert[k][other])
        <5>1. other.op.num_pages \in Nat
          BY <4>1, PlacingFacts DEF EvenPlacing
        <5>2. N + 1 - k <= other.op.num_pages
          BY <1>1, <2>3, <3>2, <4>1, <5>1
        <5> QED BY <2>1, <4>1, <5>2 DEF Evens
      <4> QED BY <4>1 DEF Evens
    <3>4. Fills(insert[k]) \/ FILE_PAGES_NUM <= call.op.num_pages
      <4>1. CASE k = 0
        BY <1>1, <2>3, <3>2, <4>1
      <4>2. CASE k # 0
        <5> DEFINE j == k - 1
        <5>1. j \in 0 .. FILE_PAGES_NUM /\ k = j + 1 /\ j + 1 <= FILE_PAGES_NUM
          BY <1>1, <2>1, <4>2
        <5> HIDE DEF j
        <5>2. Fills(insert[j + 1])
          BY <5>1, NestedFills
        <5> QED BY <5>1, <5>2
      <4> QED BY <4>1, <4>2
    <3> QED BY <2>2, <2>3, <3>1, <3>3, <3>4, InsertEven
  <2>4. Evens(insert[k + 1], N + 1 - (k + 1))
    BY <2>1, <2>3 DEF Evens
  <2> QED BY <2>1, <2>4
<1> HIDE DEF T
<1>4. \A k \in 0 .. N : k \in T
  BY <1>1, <1>2, <1>3, InductionTo
<1> QED BY <1>4 DEF T

\* internal_node_insert() keeps a tree even.
LEMMA NodeInsertEven ==
  ASSUME NEW o, NEW h, NEW p, NEW c, EvenPlacing(o, h, p, c)
  PROVE  EvenKept(h, c, internal_node_insert(o, p, c))
<1>1. PICK insert : /\ Nested(insert)
                    /\ internal_node_insert(o, p, c) = insert[FILE_PAGES_NUM][Call(o, p, c)]
  BY CallsNested
<1> DEFINE N == FILE_PAGES_NUM
           call == Call(o, p, c)
<1>2. N \in Nat /\ N \in 0 .. N /\ N + 1 - N = 1
  BY PagePointersAssumption DEF PagePointersAssumption
<1>3. Evens(insert[N], 1)
  <2>1. Evens(insert[N], N + 1 - N)
    BY <1>1, <1>2, NestedEvens
  <2> QED BY <1>2, <2>1
<1>4. /\ call \in Calls /\ call.op = o /\ call.parent = p /\ call.child = c
      /\ 1 <= o.num_pages
  <2>1. o \in Operations /\ p \in Nat /\ c \in Nat /\ o.num_pages \in Nat /\ o.num_pages >= 1
    BY PlacingFacts, PageNumbers DEF EvenPlacing, Good, Inner
  <2> QED BY <2>1 DEF Call, Calls
<1> HIDE DEF call
<1>5. EvenKept(h, c, insert[N][call])
  BY <1>3, <1>4 DEF Evens
<1> QED BY <1>1, <1>5 DEF call

-----------------------------------------------------------------------------
(***************************************************************************)
(* leaf_node_insert() keeps a tree ranked and even.                        *)
(***************************************************************************)

\* Leaves may change, but for whether they are one and their parent.
LEMMA RankedAlike ==
  ASSUME NEW a, NEW b, NEW n, NEW h, Ranked(a, n, h, {}),
         \A q \in Pages : /\ b[q].parent = a[q].parent
                          /\ IsLeaf(b[q]) <=> IsLeaf(a[q])
                          /\ ~IsLeaf(a[q]) => b[q] = a[q]
  PROVE  Ranked(b, n, h, {})
<1>1. DOMAIN h \subseteq Pages
  BY DEF Ranked
<1>2. \A q \in DOMAIN h : \A k \in Kids(b[q]) : k \in DOMAIN h /\ h[k] < h[q]
  <2>1. \A q \in Pages : Kids(b[q]) = Kids(a[q])
    <3> TAKE q \in Pages
    <3>1. CASE IsLeaf(a[q])
      BY <3>1 DEF Kids
    <3>2. CASE ~IsLeaf(a[q])
      BY <3>2
    <3> QED BY <3>1, <3>2
  <2> QED BY <1>1, <2>1 DEF Ranked
<1>3. \A q \in DOMAIN h : ~IsLeaf(b[q]) => /\ Len(b[q].cells) <= INTERNAL_NODE_MAX_CELLS
                                           /\ q \notin {} => ~Open(b[q])
  BY <1>1 DEF Ranked
<1>4. \A q \in DOMAIN h \ {root_page_num} : b[q].parent \in DOMAIN h /\ h[q] < h[b[q].parent]
  BY <1>1 DEF Ranked
<1>5. \A q \in Pages \ DOMAIN h : b[q].parent = root_page_num
  BY DEF Ranked
<1> QED BY <1>2, <1>3, <1>4, <1>5 DEF Ranked

\* The leaf p was split, its right half being in page n.
RanksDivided(tree, n, h, p, g) ==
  /\ Ranked(tree, n + 1, g, {}) /\ DOMAIN g = DOMAIN h \cup {n} /\ g[n] = h[p]
  /\ p # root_page_num => /\ tree[p].parent \in DOMAIN g /\ g[n] < g[tree[p].parent]
                          /\ \A q \in DOMAIN h : g[q] = h[q]

LEMMA RankedDivided ==
  ASSUME NEW a, NEW b, NEW n \in Nat, NEW h, Ranked(a, n, h, {}), n \in Pages,
         NEW p \in DOMAIN h, IsLeaf(a[p]), IsLeaf(b[p]), IsLeaf(b[n]),
         b[p].parent = a[p].parent, b[n].parent = a[p].parent,
         p = root_page_num => a[p].parent = root_page_num,
         \A q \in Pages \ {p, n} : b[q] = a[q]
  PROVE  \E g : RanksDivided(b, n, h, p, g)
<1> DEFINE T == DOMAIN h
           R == root_page_num
           g == [q \in T \cup {n} |-> IF q = n THEN h[p]
                                      ELSE IF q = R /\ p = R THEN h[R] + 1 ELSE h[q]]
<1>1. /\ R \in T /\ T \subseteq Pages /\ h \in [T -> Nat] /\ h[R] < n
      /\ \A q \in T : q < n /\ q \in Nat /\ h[q] \in Nat
      /\ n \notin T
  BY PageNumbers DEF Ranked
<1>2. /\ DOMAIN g = T \cup {n} /\ g[n] = h[p]
      /\ \A q \in T \ {R} : g[q] = h[q]
      /\ g[R] = IF p = R THEN h[R] + 1 ELSE h[R]
      /\ g \in [T \cup {n} -> Nat]
  BY <1>1
<1> HIDE DEF g
<1>3. /\ \A q \in T : q # p => b[q] = a[q]
      /\ Kids(b[p]) = {} /\ Kids(b[n]) = {}
  BY <1>1 DEF Kids
<1>4. /\ R \in DOMAIN g /\ DOMAIN g \subseteq Pages /\ g \in [DOMAIN g -> Nat]
      /\ g[R] < n + 1 /\ \A q \in DOMAIN g : q < n + 1
  BY <1>1, <1>2
<1>5. \A q \in Pages \ DOMAIN g : b[q].parent = R
  BY <1>1, <1>2 DEF Ranked
<1>6. \A q \in T \ {R} : h[q] < h[R] /\ a[q].parent \in T /\ h[q] < h[a[q].parent]
  BY DEF Ranked
<1>7. \A q \in T : h[q] <= g[q]
  BY <1>1, <1>2
<1>8. \A q \in DOMAIN g \ {R} : /\ g[q] < g[R]
                                /\ b[q].parent \in DOMAIN g /\ g[q] < g[b[q].parent]
  <2> TAKE q \in DOMAIN g \ {R}
  <2>1. CASE q = n /\ p = R
    <3>1. b[n].parent = R /\ g[n] = h[R] /\ g[R] = h[R] + 1
      BY <1>2, <2>1
    <3> QED BY <1>1, <1>4, <2>1, <3>1
  <2>2. CASE q = n /\ p # R
    <3>1. p \in T \ {R} /\ b[n].parent = a[p].parent /\ g[n] = h[p] /\ g[R] = h[R]
      BY <1>2, <2>2
    <3>2. h[p] < h[R] /\ a[p].parent \in T /\ h[p] < h[a[p].parent]
      BY <1>6, <3>1
    <3>3. h[a[p].parent] <= g[a[p].parent] /\ h[a[p].parent] \in Nat /\ h[p] \in Nat
          /\ g[a[p].parent] \in Nat
      BY <1>1, <1>2, <1>7, <3>2
    <3> QED BY <1>2, <2>2, <3>1, <3>2, <3>3
  <2>3. CASE q \in T \ {R}
    <3>1. b[q].parent = a[q].parent /\ g[q] = h[q] /\ h[q] \in Nat
      BY <1>1, <1>2, <1>3, <2>3
    <3>2. h[q] < h[R] /\ a[q].parent \in T /\ h[q] < h[a[q].parent]
      BY <1>6, <2>3
    <3>3. \A k \in T : h[k] <= g[k] /\ h[k] \in Nat /\ g[k] \in Nat
      BY <1>1, <1>2, <1>7
    <3>4. /\ h[a[q].parent] <= g[a[q].parent] /\ h[a[q].parent] \in Nat /\ g[a[q].parent] \in Nat
          /\ h[R] <= g[R] /\ h[R] \in Nat /\ g[R] \in Nat
      BY <1>1, <3>2, <3>3
    <3> QED BY <1>2, <3>1, <3>2, <3>4
  <2> QED BY <1>2, <2>1, <2>2, <2>3
<1>9. \A q \in DOMAIN g : \A k \in Kids(b[q]) : k \in DOMAIN g /\ g[k] < g[q]
  <2> SUFFICES ASSUME NEW q \in DOMAIN g, NEW k \in Kids(b[q])
               PROVE  k \in DOMAIN g /\ g[k] < g[q]
    OBVIOUS
  <2>1. q \in T /\ q # p
    BY <1>2, <1>3
  <2>2. k \in T /\ h[k] < h[q]
    BY <1>3, <2>1 DEF Ranked
  <2>3. k # R
    <3>1. q = R \/ h[q] < h[R]
      BY <1>6, <2>1
    <3>2. h[k] \in Nat /\ h[q] \in Nat /\ h[R] \in Nat
      BY <1>1, <2>1, <2>2
    <3> QED BY <2>2, <3>1, <3>2
  <2>4. g[k] = h[k] /\ h[q] <= g[q] /\ h[k] \in Nat /\ h[q] \in Nat /\ g[q] \in Nat
    BY <1>1, <1>2, <1>7, <2>1, <2>2, <2>3
  <2> QED BY <1>2, <2>2, <2>4
<1>10. \A q \in DOMAIN g : ~IsLeaf(b[q]) => /\ Len(b[q].cells) <= INTERNAL_NODE_MAX_CELLS
                                            /\ q \notin {} => ~Open(b[q])
  <2> TAKE q \in DOMAIN g
  <2>1. CASE q \in {n, p}
    BY <2>1
  <2>2. CASE q \in T \ {p}
    BY <1>3, <2>2 DEF Ranked
  <2> QED BY <1>2, <2>1, <2>2
<1>11. Ranked(b, n + 1, g, {})
  BY <1>4, <1>5, <1>8, <1>9, <1>10 DEF Ranked
<1>12. p # R => b[p].parent \in DOMAIN g /\ g[n] < g[b[p].parent]
  <2>1. n \in DOMAIN g \ {R}
    BY <1>1, <1>2
  <2> QED BY <1>8, <2>1
<1>13. p # R => \A q \in T : g[q] = h[q]
  BY <1>2
<1>14. RanksDivided(b, n, h, p, g)
  BY <1>2, <1>11, <1>12, <1>13 DEF RanksDivided
<1> QED BY <1>14

\* A leaf with as many rows as a split leaves in either half.
Filled(node) == Len(node.cells) >= RIGHT_SPLIT_COUNT

\* What the split of leaf p does to an even tree: the new leaf n has no place
\* yet, but if p was the root, which was the only page.
EvensDivided(a, b, n, h, p, g) ==
  /\ IsLeaf(b[n]) /\ b[n].parent = b[p].parent /\ Filled(b[p]) /\ Filled(b[n])
  /\ Even(a, n, h, {}, {}, {}) =>
       IF p = root_page_num THEN \A q \in Pages : q < n => q = root_page_num
       ELSE Even(b, n + 1, g, {}, {n}, {n}) /\ g[n] = 0 /\ g[b[p].parent] = 1

LEMMA RootLeafAlone ==
  ASSUME NEW a, NEW n, NEW h, Ranked(a, n, h, {}), Even(a, n, h, {}, {}, {}),
         IsLeaf(a[root_page_num])
  PROVE  \A q \in Pages : q < n => q = root_page_num
<1> SUFFICES ASSUME NEW q \in Pages, q < n PROVE q = root_page_num
  OBVIOUS
<1>1. q \in DOMAIN h
  BY DEF Even, AllRanked
<1>2. root_page_num \in DOMAIN h /\ h[q] \in Nat
  BY <1>1, RanksOf
<1>3. h[root_page_num] = 0
  BY <1>2 DEF Even, LeavesLowest
<1>4. q # root_page_num => h[q] < h[root_page_num]
  BY <1>1 DEF Ranked
<1> QED BY <1>2, <1>3, <1>4

\* A leaf other than the root is split.
LEMMA EvenDivided ==
  ASSUME NEW a, NEW b, NEW n \in Nat, NEW h, Ranked(a, n, h, {}), Even(a, n, h, {}, {}, {}), n \in Pages,
         NEW p \in DOMAIN h, p # root_page_num, IsLeaf(a[p]), IsLeaf(b[p]), IsLeaf(b[n]),
         b[p].parent = a[p].parent, b[n].parent = a[p].parent,
         \A q \in Pages \ {p, n} : b[q] = a[q], Filled(b[p]), Filled(b[n]),
         NEW g, RanksDivided(b, n, h, p, g)
  PROVE  Even(b, n + 1, g, {}, {n}, {n}) /\ g[n] = 0 /\ g[b[p].parent] = 1
<1> DEFINE T == DOMAIN h
           R == root_page_num
<1>1. /\ AllRanked(n, h) /\ LeavesLowest(a, h)
      /\ KidsNextLower(a, h, {}) /\ ParentsNextHigher(a, h, {})
      /\ OneParent(a, h) /\ SomeParent(a, h, {}) /\ LeavesAgree(a, h, {})
      /\ InnerFilled(a, h, {}) /\ LeavesFilled(a, h)
  BY DEF Even
<1>2. /\ T \subseteq Pages /\ n \notin T
      /\ \A q \in T \ {R} : a[q].parent \in T
      /\ \A q \in T : \A k \in Kids(a[q]) : k \in T
  <2>1. T \subseteq Pages /\ \A q \in T : q < n
    BY DEF Ranked
  <2>2. n \notin T
    BY <2>1
  <2> QED BY <2>1, <2>2 DEF Ranked
<1>3. DOMAIN g = T \cup {n} /\ g[n] = h[p] /\ \A q \in T : g[q] = h[q]
  BY DEF RanksDivided
<1>4. h[p] = 0
  BY <1>1 DEF LeavesLowest
<1>5. \A q \in T : q # p => b[q] = a[q]
  BY <1>2
<1>6. /\ \A q \in T : (IsLeaf(b[q]) <=> IsLeaf(a[q])) /\ Kids(b[q]) = Kids(a[q]) /\ b[q].parent = a[q].parent
      /\ Kids(b[n]) = {}
  BY <1>5 DEF Kids
<1>7. g[b[p].parent] = 1
  <2>1. a[p].parent \in T /\ p \in Kids(a[a[p].parent])
    BY <1>1, <1>2 DEF LeavesAgree
  <2>2. h[a[p].parent] = h[p] + 1
    BY <1>1, <2>1 DEF KidsNextLower
  <2> QED BY <1>3, <1>4, <2>1, <2>2
<1>8. AllRanked(n + 1, g)
  <2> SUFFICES ASSUME NEW q \in Pages, q < n + 1 PROVE q \in DOMAIN g
    BY DEF AllRanked
  <2>1. q < n \/ q = n
    BY PageNumbers
  <2> QED BY <1>1, <1>3, <2>1 DEF AllRanked
<1>9. LeavesLowest(b, g)
  <2> SUFFICES ASSUME NEW q \in DOMAIN g PROVE IsLeaf(b[q]) <=> g[q] = 0
    BY DEF LeavesLowest
  <2>1. CASE q = n
    BY <1>3, <1>4, <2>1
  <2>2. CASE q \in T
    BY <1>1, <1>3, <1>6, <2>2 DEF LeavesLowest
  <2> QED BY <1>3, <2>1, <2>2
<1>10. KidsNextLower(b, g, {n})
  <2> SUFFICES ASSUME NEW q \in DOMAIN g, NEW k \in Kids(b[q])
               PROVE  g[q] = g[k] + 1 /\ k \notin {n}
    BY DEF KidsNextLower
  <2>1. q \in T /\ k \in Kids(a[q])
    BY <1>3, <1>6
  <2>2. k \in T /\ h[q] = h[k] + 1
    BY <1>1, <1>2, <2>1 DEF KidsNextLower
  <2> QED BY <1>2, <1>3, <2>1, <2>2
<1>11. ParentsNextHigher(b, g, {n})
  <2> SUFFICES ASSUME NEW q \in DOMAIN g \ ({R} \cup {n}), ~IsLeaf(b[q])
               PROVE  g[b[q].parent] = g[q] + 1
    BY DEF ParentsNextHigher
  <2>1. q \in T \ {R} /\ ~IsLeaf(a[q]) /\ b[q].parent = a[q].parent
    BY <1>3, <1>6
  <2>2. h[a[q].parent] = h[q] + 1 /\ a[q].parent \in T
    BY <1>1, <1>2, <2>1 DEF ParentsNextHigher
  <2> QED BY <1>3, <2>1, <2>2
<1>12. OneParent(b, g)
  <2> SUFFICES ASSUME NEW q \in DOMAIN g, NEW s \in DOMAIN g, NEW k \in Kids(b[q]), k \in Kids(b[s])
               PROVE  q = s
    BY DEF OneParent
  <2>1. q \in T /\ s \in T /\ k \in Kids(a[q]) /\ k \in Kids(a[s])
    BY <1>3, <1>6
  <2> QED BY <1>1, <2>1 DEF OneParent
<1>13. SomeParent(b, g, {n})
  <2> SUFFICES ASSUME NEW k \in DOMAIN g \ ({R} \cup {n}) PROVE \E q \in DOMAIN g : k \in Kids(b[q])
    BY DEF SomeParent
  <2>1. k \in T \ {R}
    BY <1>3
  <2>2. PICK q \in T : k \in Kids(a[q])
    BY <1>1, <2>1 DEF SomeParent
  <2> QED BY <1>3, <1>6, <2>2
<1>14. LeavesAgree(b, g, {n})
  <2> SUFFICES ASSUME NEW k \in DOMAIN g \ ({R} \cup {n}), IsLeaf(b[k])
               PROVE  k \in Kids(b[b[k].parent])
    BY DEF LeavesAgree
  <2>1. k \in T \ {R} /\ IsLeaf(a[k]) /\ b[k].parent = a[k].parent
    BY <1>3, <1>6
  <2>2. k \in Kids(a[a[k].parent]) /\ a[k].parent \in T
    BY <1>1, <1>2, <2>1 DEF LeavesAgree
  <2> QED BY <1>6, <2>1, <2>2
<1>15. InnerFilled(b, g, {})
  <2> SUFFICES ASSUME NEW q \in DOMAIN g, ~IsLeaf(b[q]) PROVE Len(b[q].cells) >= 1 /\ Apart(b[q])
    BY DEF InnerFilled
  <2>1. q \in T /\ b[q] = a[q]
    BY <1>3, <1>5
  <2> QED BY <1>1, <2>1 DEF InnerFilled
<1>16. LeavesFilled(b, g)
  <2> SUFFICES ASSUME NEW q \in DOMAIN g \ {R}, IsLeaf(b[q]) PROVE Len(b[q].cells) >= RIGHT_SPLIT_COUNT
    BY DEF LeavesFilled
  <2>1. CASE q \in {p, n}
    BY <2>1 DEF Filled
  <2>2. CASE q \in T \ {p}
    BY <1>1, <1>5, <2>2 DEF LeavesFilled
  <2> QED BY <1>3, <2>1, <2>2
<1> QED BY <1>3, <1>4, <1>7, <1>8, <1>9, <1>10, <1>11, <1>12, <1>13, <1>14, <1>15, <1>16 DEF Even

\* The halves of the root leaf, with a root above them.
LEMMA EvenTopped ==
  ASSUME NEW a, NEW b, NEW new \in Pages \ {root_page_num}, NEW left \in Pages \ {root_page_num},
         left = new + 1, \A q \in Pages : q < new => q = root_page_num,
         IsLeaf(a[root_page_num]), IsLeaf(a[new]), Filled(a[root_page_num]), Filled(a[new]),
         \A q \in Pages : a[q].parent = root_page_num, RootGrew(a, b, left, new)
  PROVE  \E h : Ranked(b, left + 1, h, {}) /\ Even(b, left + 1, h, {}, {}, {})
<1> DEFINE R == root_page_num
           T == {R, new, left}
           h == [q \in T |-> IF q = R THEN 1 ELSE 0]
<1>1. R \in Pages /\ R = 0 /\ new \in Nat /\ left \in Nat /\ left # new /\ \A q \in Pages : q \in Nat
  BY PageNumbers DEF root_page_num
<1>2. /\ DOMAIN h = T /\ h \in [T -> Nat] /\ h[R] = 1 /\ h[new] = 0 /\ h[left] = 0
      /\ \A q \in T \ {R} : h[q] = 0
  BY <1>1
<1> HIDE DEF h
<1>3. /\ ~IsLeaf(b[R]) /\ ~Open(b[R]) /\ Len(b[R].cells) = 1 /\ Apart(b[R]) /\ Kids(b[R]) = {left, new}
      /\ IsLeaf(b[left]) /\ Kids(b[left]) = {} /\ Filled(b[left])
      /\ IsLeaf(b[new]) /\ Kids(b[new]) = {} /\ Filled(b[new])
  BY DEF RootGrew, Alike, Kids, Filled
<1>4. \A q \in Pages : b[q].parent = R
  BY DEF RootGrew, Kids
<1>5. 1 < left + 1 /\ 0 < 1 /\ \A q \in T : q < left + 1
  BY <1>1
<1>6. \A q \in T : \A k \in Kids(b[q]) : q = R /\ k \in T \ {R}
  BY <1>3
<1>7. \A q \in T : ~IsLeaf(b[q]) => q = R
  BY <1>3
<1>8. 1 <= INTERNAL_NODE_MAX_CELLS
  BY DEF INTERNAL_NODE_MAX_CELLS
<1>9. Ranked(b, left + 1, h, {})
  <2> DEFINE n == left + 1
  <2>1. R \in T /\ T \subseteq Pages /\ h[R] < n /\ \A q \in T : q < n
    BY <1>1, <1>2, <1>5
  <2>2. \A q \in T \ {R} : h[q] < h[R] /\ b[q].parent \in T /\ h[q] < h[b[q].parent]
    BY <1>2, <1>4, <1>5, <2>1
  <2>3. \A q \in T : \A k \in Kids(b[q]) : k \in T /\ h[k] < h[q]
    BY <1>2, <1>5, <1>6
  <2>4. \A q \in T : ~IsLeaf(b[q]) => Len(b[q].cells) <= INTERNAL_NODE_MAX_CELLS /\ ~Open(b[q])
    BY <1>3, <1>7, <1>8
  <2> HIDE DEF T
  <2> QED BY <1>2, <1>4, <2>1, <2>2, <2>3, <2>4 DEF Ranked
<1>10. AllRanked(left + 1, h)
  <2> SUFFICES ASSUME NEW q \in Pages, q < left + 1 PROVE q \in T
    BY <1>2 DEF AllRanked
  <2>1. q < new \/ q = new \/ q = left
    BY <1>1
  <2> QED BY <2>1
<1>11. LeavesLowest(b, h)
  BY <1>2, <1>3 DEF LeavesLowest
<1>12. KidsNextLower(b, h, {}) /\ ParentsNextHigher(b, h, {})
  <2>1. KidsNextLower(b, h, {})
    BY <1>2, <1>6 DEF KidsNextLower
  <2>2. ParentsNextHigher(b, h, {})
    BY <1>2, <1>7 DEF ParentsNextHigher
  <2> QED BY <2>1, <2>2
<1>13. OneParent(b, h) /\ SomeParent(b, h, {}) /\ LeavesAgree(b, h, {})
  <2>1. OneParent(b, h)
    BY <1>2, <1>6 DEF OneParent
  <2>2. SomeParent(b, h, {})
    BY <1>2, <1>3 DEF SomeParent
  <2>3. LeavesAgree(b, h, {})
    <3>1. T \subseteq Pages
      BY <1>1
    <3> QED BY <1>2, <1>3, <1>4, <3>1 DEF LeavesAgree
  <2> QED BY <2>1, <2>2, <2>3
<1>14. InnerFilled(b, h, {}) /\ LeavesFilled(b, h)
  <2>1. InnerFilled(b, h, {})
    <3>1. \A x : x = 1 => x >= 1
      OBVIOUS
    <3> QED BY <1>2, <1>3, <1>7, <3>1 DEF InnerFilled
  <2>2. LeavesFilled(b, h)
    BY <1>2, <1>3 DEF LeavesFilled, Filled
  <2> QED BY <2>1, <2>2
<1> QED BY <1>9, <1>10, <1>11, <1>12, <1>13, <1>14 DEF Even

LEMMA FullAndOne ==
  ASSUME NEW o, NEW p, NEW c, NEW row, Target(o, p, c, row), Full(o.pages[p])
  PROVE  Overfull(With(o, p, c, row))
<1> DEFINE cells == o.pages[p].cells
           all == With(o, p, c, row)
<1>1. /\ Fits(cells) /\ Len(cells) \in Nat /\ all \in Seq(Rows)
      /\ Len(all) = Len(cells) + 1 /\ InOrder(all)
  BY RowPlaced
<1>2. Len(cells) >= LEAF_NODE_MAX_CELLS
  BY DEF Full
<1> HIDE DEF all, cells
<1>3. Len(cells) <= LEAF_NODE_MAX_CELLS /\ LEAF_NODE_MAX_CELLS \in Nat
  BY <1>1, SplitCounts DEF Fits
<1>4. Len(cells) = LEAF_NODE_MAX_CELLS
  BY <1>1, <1>2, <1>3
<1> QED BY <1>1, <1>4 DEF Overfull, all

LEMMA HalvesFilled ==
  ASSUME NEW all, Overfull(all)
  PROVE  Len(FirstHalf(all)) >= RIGHT_SPLIT_COUNT /\ Len(SecondHalf(all)) >= RIGHT_SPLIT_COUNT
<1> DEFINE n == LEAF_NODE_MAX_CELLS
           right == RIGHT_SPLIT_COUNT
<1>1. n \in Nat /\ right = (n + 1) \div 2 /\ LEFT_SPLIT_COUNT = n + 1 - right
  BY SplitCounts DEF RIGHT_SPLIT_COUNT, LEFT_SPLIT_COUNT
<1>2. Len(FirstHalf(all)) = LEFT_SPLIT_COUNT /\ Len(SecondHalf(all)) = n + 1 - LEFT_SPLIT_COUNT
  BY HalvesFit DEF Overfull
<1> HIDE DEF n, right
<1>3. n + 1 - right >= right /\ n + 1 - (n + 1 - right) >= right
  BY <1>1
<1> QED BY <1>1, <1>2, <1>3 DEF n, right

\* The two halves were stored.
LEMMA HalvesRanked ==
  ASSUME NEW o, NEW p, NEW c, NEW row, Target(o, p, c, row), Full(o.pages[p]),
         NEW new, new = o.num_pages, ~Failed(get_page(o, new)),
         NEW old, old.page = p, NEW at, at.page = new,
         NEW left, left = LeftHalf(o.pages[p], With(o, p, c, row), new),
         NEW right, right = RightHalf(o.pages[p], With(o, p, c, row)),
         NEW r, r = StoreNode(StoreNode(get_page(o, new), at, right), old, left), ~Failed(r),
         NEW h, Ranked(o.pages, o.num_pages, h, {}), p \in DOMAIN h
  PROVE  \E g : RanksDivided(r.pages, new, h, p, g) /\ EvensDivided(o.pages, r.pages, new, h, p, g)
<1>1. /\ Good(r) /\ r.num_pages = new + 1
      /\ new \in Pages \ {p, root_page_num}
      /\ IsLeaf(r.pages[p]) /\ r.pages[p].parent = o.pages[p].parent
      /\ \A q \in Pages :
           r.pages[q] = IF q = p THEN left ELSE IF q = new THEN right ELSE o.pages[q]
  BY HalvesStored
<1>2. /\ Good(o) /\ p \in Pages /\ IsLeaf(o.pages[p]) /\ o.pages \in [Pages -> Node]
  BY OperationFields DEF Target, Good
<1>3. o.pages[p] \in LeafNode
  BY <1>2, NodeFields
<1>4. Overfull(With(o, p, c, row))
  BY FullAndOne
<1>5. IsLeaf(right) /\ right.parent = o.pages[p].parent /\ Filled(right) /\ Filled(left)
  <2> DEFINE node == o.pages[p]
             all == With(o, p, c, row)
  <2>1. /\ node \in LeafNode /\ new \in Pages /\ Overfull(all)
        /\ right = RightHalf(node, all) /\ left = LeftHalf(node, all, new)
    BY <1>1, <1>3, <1>4
  <2> HIDE DEF node, all
  <2>2. /\ IsLeaf(right) /\ right.parent = node.parent
        /\ right.cells = SecondHalf(all) /\ left.cells = FirstHalf(all)
    BY ONLY <2>1, HalfNodes
  <2>3. Len(FirstHalf(all)) >= RIGHT_SPLIT_COUNT /\ Len(SecondHalf(all)) >= RIGHT_SPLIT_COUNT
    BY <2>1, HalvesFilled
  <2> QED BY <2>2, <2>3 DEF node, Filled
<1>6. p = root_page_num => o.pages[p].parent = root_page_num
  BY <1>2 DEF Good, Shaped
<1> DEFINE a == o.pages
           b == r.pages
<1>7. /\ new \in Nat /\ Ranked(a, new, h, {}) /\ new \in Pages /\ p \in DOMAIN h
      /\ IsLeaf(a[p]) /\ IsLeaf(b[p]) /\ b[p].parent = a[p].parent
      /\ p = root_page_num => a[p].parent = root_page_num
  BY <1>1, <1>2, <1>6, PageNumbers
<1>8. /\ IsLeaf(b[new]) /\ b[new].parent = a[p].parent /\ \A q \in Pages \ {p, new} : b[q] = a[q]
      /\ Filled(b[p]) /\ Filled(b[new])
  BY <1>1, <1>2, <1>5
<1> HIDE DEF a, b
<1>9. PICK g : RanksDivided(b, new, h, p, g)
  BY ONLY <1>7, <1>8, RankedDivided
<1>10. EvensDivided(a, b, new, h, p, g)
  <2> SUFFICES ASSUME Even(a, new, h, {}, {}, {})
               PROVE  IF p = root_page_num THEN \A q \in Pages : q < new => q = root_page_num
                      ELSE Even(b, new + 1, g, {}, {new}, {new}) /\ g[new] = 0 /\ g[b[p].parent] = 1
    BY <1>7, <1>8 DEF EvensDivided
  <2>1. CASE p = root_page_num
    <3>1. \A q \in Pages : q < new => q = root_page_num
      BY <1>7, <2>1, RootLeafAlone
    <3> QED BY <2>1, <3>1
  <2>2. CASE p # root_page_num
    <3>1. Even(b, new + 1, g, {}, {new}, {new}) /\ g[new] = 0 /\ g[b[p].parent] = 1
      BY ONLY <1>7, <1>8, <1>9, <2>2, Even(a, new, h, {}, {}, {}), EvenDivided
    <3> QED BY <2>2, <3>1
  <2> QED BY <2>1, <2>2
<1> QED BY <1>9, <1>10 DEF a, b

\* An operation that called no exit(), and left a ranked tree, no page of it
\* less, unless a pointer dangled.
GoesOnRanked(h, r) ==
  ~Exited(r) /\ (Halted(r) \/ \E g : Ranked(r.pages, r.num_pages, g, {}) /\ DOMAIN h \subseteq DOMAIN g)

\* One that did not fail made an even tree of an even tree.
EvenTree(r) ==
  \E g : Ranked(r.pages, r.num_pages, g, {}) /\ Even(r.pages, r.num_pages, g, {}, {}, {})

GoesOnEven(o, h, r) ==
  /\ GoesOnRanked(h, r)
  /\ Even(o.pages, o.num_pages, h, {}, {}, {}) /\ ~Failed(r) => EvenTree(r)

LEMMA SplitTarget ==
  ASSUME NEW o, NEW p, NEW c, NEW row, Target(o, p, c, row),
         NEW h, Ranked(o.pages, o.num_pages, h, {}), p \in DOMAIN h
  PROVE  LET o1 == get_page(o, p)
         IN /\ Target(o1, p, c, row) /\ o1.pages = o.pages /\ o1.num_pages = o.num_pages
            /\ With(o1, p, c, row) = With(o, p, c, row)
<1>1. Good(o) /\ o \in Operations /\ p \in Pages /\ p < o.num_pages /\ o.num_pages \in Nat
  BY OperationFields DEF Target, Good, Ranked
<1>2. p # o.num_pages
  BY <1>1, PageNumbers
<1>3. get_page(o, p).num_pages = o.num_pages
  BY <1>1, <1>2, RequestKeeps
<1>4. Target(get_page(o, p), p, c, row) /\ get_page(o, p).pages = o.pages
  BY TargetKept
<1> QED BY <1>3, <1>4 DEF With

\* The key that lands in the left half changes none of what ranks are about.
StrayKept(s, r, p, n, g) ==
  /\ Good(r) /\ r.num_pages = s.num_pages /\ (Failed(s) => r = s)
  /\ Failed(r) => Halted(r) \/ Failed(s)
  /\ Ranked(r.pages, n, g, {})
  /\ r.pages[p].parent = s.pages[p].parent
  /\ r.pages[root_page_num] = s.pages[root_page_num]
  /\ \A q \in Pages : /\ IsLeaf(r.pages[q]) <=> IsLeaf(s.pages[q])
                      /\ r.pages[q].parent = s.pages[q].parent
                      /\ ~IsLeaf(s.pages[q]) => r.pages[q] = s.pages[q]
                      /\ Len(r.pages[q].cells) = Len(s.pages[q].cells)

LEMMA StrayRanked ==
  ASSUME NEW s, Good(s), NEW p \in Pages, IsLeaf(s.pages[p]), Fits(s.pages[p].cells),
         s.pages[p].cells # <<>>, p # root_page_num, NEW key, NEW n, NEW g, Ranked(s.pages, n, g, {}),
         NEW r, r = StoreNode(s, Pointer(s, p), Stray(s.pages[p], key))
  PROVE  StrayKept(s, r, p, n, g)
<1> DEFINE left == s.pages[p]
           stray == Stray(left, key)
           ptr == Pointer(s, p)
<1>1. s \in Operations /\ s.pages \in [Pages -> Node] /\ left \in LeafNode /\ (left.is_root <=> p = root_page_num)
  <2>1. s \in Operations /\ s.pages \in [Pages -> Node]
    BY OperationFields DEF Good
  <2> QED BY <2>1, NodeFields DEF Good, Shaped
<1>2. /\ stray \in LeafNode /\ IsLeaf(stray) /\ Fits(stray.cells)
      /\ stray.parent = left.parent /\ (stray.is_root <=> left.is_root)
      /\ Len(stray.cells) = Len(left.cells)
  <2> DEFINE node == stray
  <2>1. node = Stray(left, key) /\ Fits(left.cells) /\ left.cells # <<>>
    OBVIOUS
  <2> HIDE DEF node, left, stray
  <2>2. /\ node \in LeafNode /\ IsLeaf(node) /\ Fits(node.cells)
        /\ node.parent = left.parent /\ (node.is_root <=> left.is_root)
        /\ SameRows(node.cells, left.cells)
    BY ONLY <1>1, <2>1, StrayHalf
  <2> QED BY <2>2 DEF node, SameRows
<1>3. ptr.page = p
  BY DEF Pointer
<1> HIDE DEF ptr, stray
<1>4. /\ Good(r) /\ r.num_pages = s.num_pages
      /\ Failed(s) => r = s
      /\ Failed(r) => r.pages = s.pages
      /\ ~Failed(r) => ~Failed(s) /\ r.pages = [s.pages EXCEPT ![ptr.page] = stray]
  <2> DEFINE t == StoreNode(s, ptr, stray)
  <2>1. /\ ptr.page \in Pages /\ IsLeaf(s.pages[ptr.page])
        /\ stray.parent = s.pages[p].parent /\ (stray.is_root <=> ptr.page = root_page_num)
        /\ stray \in LeafNode
    BY <1>1, <1>2, <1>3
  <2>2. /\ Good(t) /\ t.num_pages = s.num_pages
        /\ Failed(s) => t = s
        /\ Failed(t) => t.pages = s.pages
        /\ ~Failed(t) => ~Failed(s) /\ t.pages = [s.pages EXCEPT ![ptr.page] = stray]
    BY ONLY <2>1, Good(s), p \in Pages, LeafStored
  <2>3. r = t
    BY DEF ptr, stray
  <2> HIDE DEF t
  <2> QED BY <2>2, <2>3
<1>5. ~Failed(s) /\ Failed(r) => Halted(r)
  <2>1. r = StoreNode(s, ptr, stray)
    BY DEF ptr, stray
  <2> QED BY <1>1, <2>1, StoreFails
<1>6. \A q \in Pages : r.pages[q] = s.pages[q] \/ (q = p /\ r.pages[q] = stray)
  BY <1>1, <1>3, <1>4
<1>7. \A q \in Pages : /\ r.pages[q].parent = s.pages[q].parent
                       /\ IsLeaf(r.pages[q]) <=> IsLeaf(s.pages[q])
                       /\ ~IsLeaf(s.pages[q]) => r.pages[q] = s.pages[q]
                       /\ Len(r.pages[q].cells) = Len(s.pages[q].cells)
  BY <1>2, <1>6
<1>8. Ranked(r.pages, n, g, {})
  BY <1>7, RankedAlike
<1>9. r.pages[root_page_num] = s.pages[root_page_num]
  BY <1>6, PageNumbers
<1> QED BY <1>4, <1>5, <1>7, <1>8, <1>9 DEF StrayKept

\* With the key that lands in the left half it is still even.
LEMMA EvenStray ==
  ASSUME NEW s, NEW r, NEW p, NEW n, NEW g, StrayKept(s, r, p, n, g), Ranked(s.pages, n, g, {}),
         NEW c, Even(s.pages, n, g, {}, {c}, {c}), r.num_pages = n,
         NEW above, Placing(r, g, above, c), g[c] = 0, g[above] = 1, s.pages[c].parent = above
  PROVE  EvenPlacing(r, g, above, c)
<1> DEFINE a == s.pages
           b == r.pages
           one == {c}
<1>1. DOMAIN g \subseteq Pages /\ c \in DOMAIN g
  BY DEF Ranked, Placing
<1>2. \A q \in DOMAIN g : /\ b[q].parent = a[q].parent
                          /\ IsLeaf(b[q]) <=> IsLeaf(a[q])
                          /\ ~IsLeaf(a[q]) => b[q] = a[q]
                          /\ Len(b[q].cells) = Len(a[q].cells)
  BY <1>1 DEF StrayKept
<1>3. LeavesFilled(b, g)
  <2>1. LeavesFilled(a, g)
    BY DEF Even
  <2> QED BY <1>2, <2>1 DEF LeavesFilled
<1>4. Ranked(a, n, g, {}) /\ Even(a, n, g, {}, one, one)
  OBVIOUS
<1> HIDE DEF a, b, one
<1>5. Even(b, n, g, {}, one, one)
  BY ONLY <1>2, <1>3, <1>4, EvenAlike
<1>6. b[c].parent = above
  BY <1>1, <1>2 DEF a
<1> QED BY <1>5, <1>6 DEF EvenPlacing, b, one

\* A leaf put in its place leaves nothing loose.
LEMMA LeafPlaced ==
  ASSUME NEW h, NEW c \in DOMAIN h, c # root_page_num, h[c] = 0, NEW r, EvenKept(h, c, r), ~Failed(r)
  PROVE  EvenTree(r)
<1>1. PICK g : /\ Ranked(r.pages, r.num_pages, g, {}) /\ Extends(h, g)
               /\ Even(r.pages, r.num_pages, g, {}, {}, {c})
  BY DEF EvenKept
<1>2. c \in DOMAIN g /\ g[c] = 0
  BY <1>1 DEF Extends
<1>3. IsLeaf(r.pages[c])
  BY <1>1, <1>2 DEF Even, LeavesLowest
<1>4. ParentsNextHigher(r.pages, g, {})
  BY <1>1, <1>3 DEF Even, ParentsNextHigher
<1> QED BY <1>1, <1>4 DEF Even, EvenTree

LEMMA LeafSplitRanked ==
  ASSUME NEW o, NEW p, NEW c, NEW row, Target(o, p, c, row), p # root_page_num,
         Full(o.pages[p]), NEW h, Ranked(o.pages, o.num_pages, h, {}), p \in DOMAIN h
  PROVE  GoesOnEven(o, h, leaf_node_split_and_insert(o, p, c, row))
<1> DEFINE o1 == get_page(o, p)
           old == Pointer(o1, p)
           node == o1.pages[p]
           new == o1.num_pages
           o2 == get_page(o1, new)
           at == Pointer(o2, new)
           all == InsertAt(node.cells, c + 1, row)
           right == RightHalf(node, all)
           o3 == StoreNode(o2, at, right)
           left == LeftHalf(node, all, new)
           s == StoreNode(o3, old, left)
           o4 == get_page(s, p)
           key == Last(node.cells).key
           o5 == StoreNode(o4, Pointer(o4, p), [left EXCEPT !.cells = SplitStray(@, key)])
           r == internal_node_insert(o5, node.parent, new)
           t == leaf_node_split_and_insert(o, p, c, row)
<1> SUFFICES GoesOnEven(o, h, t)
  OBVIOUS
<1>1. /\ Target(o1, p, c, row) /\ o1.pages = o.pages /\ o1.num_pages = o.num_pages
      /\ With(o1, p, c, row) = all
  <2>1. /\ Target(o1, p, c, row) /\ o1.pages = o.pages /\ o1.num_pages = o.num_pages
    BY SplitTarget
  <2> QED BY <2>1 DEF With
<1>2. /\ Good(o1) /\ ~Failed(o1) /\ p \in Pages /\ IsLeaf(node) /\ Grown(o1) /\ ~node.is_root
  <2>1. Good(o1) /\ ~Failed(o1) /\ p \in Pages /\ IsLeaf(node) /\ Grown(o1)
    BY <1>1 DEF Target
  <2> QED BY <2>1 DEF Good, Shaped
<1>3. t = IF Failed(o2) THEN o2 ELSE IF node.is_root THEN create_new_root(s, new) ELSE r
  BY DEF leaf_node_split_and_insert
<1>4. old.page = p /\ at.page = new
  BY DEF Pointer
<1> HIDE DEF o1, t
<1>5. CASE Failed(o2)
  <2>1. Keeps(o1, o2) /\ o2.pages = o.pages
    BY <1>1, <1>2, RequestKeeps
  <2>2. o2.num_pages \in Nat /\ o.num_pages \in Nat /\ o.num_pages <= o2.num_pages
    BY <1>1, <1>2, <2>1 DEF Keeps, Good, Shaped
  <2>3. Ranked(o.pages, o2.num_pages, h, {})
    BY <2>2, RankedLater
  <2>4. ~Exited(o2)
    BY <1>2, <2>1, NoExitYet DEF Keeps
  <2> HIDE DEF o2
  <2> QED BY <1>3, <1>5, <2>1, <2>3, <2>4 DEF GoesOnRanked, GoesOnEven
<1>6. CASE ~Failed(o2)
  <2>1. t = r
    BY <1>2, <1>3, <1>6
  <2>2. /\ Full(o1.pages[p]) /\ new = o1.num_pages /\ ~Failed(get_page(o1, new))
        /\ left = LeftHalf(o1.pages[p], With(o1, p, c, row), new)
        /\ right = RightHalf(o1.pages[p], With(o1, p, c, row))
        /\ s = StoreNode(StoreNode(get_page(o1, new), at, right), old, left)
        /\ Ranked(o1.pages, o1.num_pages, h, {}) /\ p \in DOMAIN h
    BY <1>1, <1>6
  <2> HIDE DEF at, old, s, left, right, all, o2, o3, new, node, r
  <2>3. /\ Good(s) /\ s.num_pages = new + 1 /\ new \in Pages \ {p, root_page_num}
        /\ IsLeaf(s.pages[p]) /\ s.pages[p].parent = o1.pages[p].parent
        /\ InShape(s.pages)
    BY ONLY <1>1, <1>4, <2>2, HalvesStored
  <2>4. /\ s.pages[root_page_num] = o1.pages[root_page_num]
        /\ Failed(s) => Halted(s)
        /\ ~Failed(s) => s.pages[p] = left
    BY ONLY p # root_page_num, <1>1, <1>2, <1>4, <2>2, HalvesStored
  <2>5. ~Failed(s) => \E g : /\ RanksDivided(s.pages, new, h, p, g)
                             /\ EvensDivided(o1.pages, s.pages, new, h, p, g)
    BY ONLY <1>1, <1>4, <2>2, HalvesRanked
  <2>6. /\ Good(o4) /\ o4.pages = s.pages /\ o4.fault = s.fault /\ o4.num_pages = s.num_pages
    <3>1. Keeps(s, o4) /\ o4.pages = s.pages /\ (p # s.num_pages => o4.num_pages = s.num_pages)
      BY <2>3, RequestKeeps
    <3>2. p # s.num_pages
      <4>1. p \in Nat /\ p < o.num_pages /\ o.num_pages \in Nat
        BY <1>2, OperationFields, PageNumbers DEF Ranked, Target, Good
      <4> QED BY <1>1, <2>3, <4>1 DEF new
    <3>3. o4.fault = s.fault
      BY <1>2, <2>3, PageGranted DEF Good
    <3> QED BY <3>1, <3>2, <3>3 DEF Keeps
  <2>7. /\ Failed(o4) <=> Failed(s)
        /\ Halted(o4) <=> Halted(s)
    BY <2>6, Zenon DEF Failed, Halted
  <2> HIDE DEF o4
  <2>8. r = internal_node_insert(o5, node.parent, new) /\ node.parent = o.pages[p].parent
    BY <1>1 DEF r, node
  <2>9. CASE Failed(s)
    <3>1. Halted(s) /\ Failed(o4) /\ Halted(o4)
      BY <2>4, <2>7, <2>9
    <3>2. o5 = o4
      BY <3>1 DEF StoreNode
    <3>3. Good(o5) /\ Halted(o5) /\ Failed(o5) /\ Grown(o5) /\ Inner(o5, node.parent) /\ new \in Nat
      <4>1. Good(o4) /\ Grown(o4)
        BY <1>2, <2>4, <2>6 DEF Grown
      <4>2. o4.pages[p].parent = node.parent
        BY <1>1, <2>3, <2>6 DEF node
      <4>3. Inner(o4, node.parent) /\ new \in Nat
        BY <1>2, <2>3, <4>1, <4>2, ParentIsInner, PageNumbers
      <4> QED BY <3>1, <3>2, <4>1, <4>3
    <3> HIDE DEF o5
    <3>4. r = o5
      BY <2>8, <3>3, NodeInserted DEF Inserts
    <3> QED BY <2>1, <3>3, <3>4, NoExitYet DEF GoesOnRanked, GoesOnEven
  <2>10. CASE ~Failed(s)
    <3>1. PICK g : /\ RanksDivided(s.pages, new, h, p, g)
                   /\ EvensDivided(o1.pages, s.pages, new, h, p, g)
      BY <2>5, <2>10
    <3>2. /\ Ranked(o4.pages, new + 1, g, {}) /\ DOMAIN g = DOMAIN h \cup {new}
          /\ node.parent \in DOMAIN g /\ g[new] < g[node.parent]
      BY <1>1, <2>3, <2>6, <3>1 DEF RanksDivided, node
    <3>3. o5 = StoreNode(o4, Pointer(o4, p), Stray(o4.pages[p], key))
      BY <2>4, <2>6, <2>10 DEF Stray
    <3>4. IsLeaf(o4.pages[p]) /\ Fits(o4.pages[p].cells)
      BY <1>2, <2>3, <2>6 DEF InShape
    <3>5. o4.pages[p].cells # <<>>
      <4>1. o4.pages[p] = left
        BY <2>4, <2>6, <2>10
      <4>2. left.cells = FirstHalf(all)
        <5>1. o1.pages[p] \in LeafNode
          <6>1. o1.pages \in [Pages -> Node]
            BY <1>2, OperationFields DEF Good
          <6> QED BY <1>2, <6>1, NodeFields DEF node
        <5>2. Overfull(all)
          BY <1>1, <2>2, FullAndOne
        <5> QED BY <1>1, <2>2, <2>3, <5>1, <5>2, HalfNodes
      <4>3. Len(FirstHalf(all)) = LEFT_SPLIT_COUNT
        <5>1. Overfull(all)
          BY <1>1, <2>2, FullAndOne
        <5> QED BY <5>1, HalvesFit DEF Overfull
      <4>4. LEFT_SPLIT_COUNT # 0
        BY SplitCounts
      <4> QED BY <4>1, <4>2, <4>3, <4>4
    <3> HIDE DEF o5, key
    <3>6. /\ Good(o5) /\ o5.num_pages = o4.num_pages
          /\ Failed(o5) => Halted(o5)
          /\ Ranked(o5.pages, new + 1, g, {})
          /\ o5.pages[p].parent = o4.pages[p].parent
          /\ o5.pages[root_page_num] = o4.pages[root_page_num]
          /\ StrayKept(o4, o5, p, new + 1, g)
      <4> DEFINE m == new + 1
      <4>2. /\ Good(o4) /\ p \in Pages /\ IsLeaf(o4.pages[p]) /\ Fits(o4.pages[p].cells)
            /\ o4.pages[p].cells # <<>> /\ p # root_page_num /\ Ranked(o4.pages, m, g, {})
            /\ o5 = StoreNode(o4, Pointer(o4, p), Stray(o4.pages[p], key))
        BY <1>2, <2>6, <3>2, <3>3, <3>4, <3>5
      <4> HIDE DEF m
      <4>3. StrayKept(o4, o5, p, m, g)
        BY ONLY <4>2, StrayRanked
      <4> QED BY <2>7, <2>10, <4>3 DEF m, StrayKept
    <3>7. Grown(o5) /\ Inner(o5, node.parent) /\ new \in Nat
      <4>1. Grown(o5)
        BY <1>2, <2>4, <2>6, <3>6 DEF Grown
      <4>2. o5.pages[p].parent = node.parent
        BY <1>1, <2>3, <2>6, <3>6 DEF node
      <4> QED BY <1>2, <2>3, <3>6, <4>1, <4>2, ParentIsInner, PageNumbers
    <3>8. Placing(o5, g, node.parent, new)
      <4>1. o5.num_pages = new + 1
        BY <2>3, <2>6, <3>6
      <4> QED BY <3>2, <3>6, <3>7, <4>1 DEF Placing, Inner
    <3>9. RankKept(g, r)
      BY <2>8, <3>8, NodeInsertRanked
    <3>10. ~Exited(r)
      <4>1. Keeps(o5, r)
        BY <2>8, <3>6, <3>7, NodeInserted DEF Inserts
      <4>2. ~Exited(o5)
        BY <3>6, NoExitYet
      <4> QED BY <4>1, <4>2 DEF Keeps
    <3>11. GoesOnRanked(h, r)
      BY <3>2, <3>9, <3>10 DEF RankKept, Extends, GoesOnRanked
    <3>12. ASSUME Even(o.pages, o.num_pages, h, {}, {}, {}), ~Failed(r) PROVE EvenTree(r)
      <4>1. /\ Even(s.pages, new + 1, g, {}, {new}, {new}) /\ g[new] = 0 /\ g[node.parent] = 1
            /\ IsLeaf(s.pages[new])
        BY <1>1, <2>2, <2>3, <3>1, <3>12 DEF EvensDivided, node
      <4>2. s.pages[new].parent = node.parent
        BY <1>1, <2>3, <3>1 DEF EvensDivided, node
      <4>3. EvenPlacing(o5, g, node.parent, new)
        BY <2>3, <2>6, <3>2, <3>6, <3>8, <4>1, <4>2, EvenStray
      <4>4. EvenKept(g, new, r)
        BY <2>8, <4>3, NodeInsertEven
      <4>5. g[new] = 0 /\ new # root_page_num /\ new \in DOMAIN g
        BY <2>3, <3>2, <4>1
      <4> QED BY <3>12, <4>4, <4>5, LeafPlaced
    <3> QED BY <2>1, <3>11, <3>12 DEF GoesOnEven
  <2> QED BY <2>9, <2>10
<1> QED BY <1>5, <1>6

\* create_new_root() above the halves of the root leaf.
LEMMA LeafRootAbove ==
  ASSUME NEW s, Good(s), NEW new \in Pages \ {root_page_num}, s.num_pages = new + 1,
         IsLeaf(s.pages[root_page_num]), NEW left, left = new + 1,
         NEW r, r = create_new_root(s, new)
  PROVE  /\ r \in Operations /\ left <= r.num_pages
         /\ Exited(r) => Exited(s)
         /\ Failed(r) => Halted(r) \/ r.pages = s.pages
         /\ ~Failed(r) => /\ ~Failed(s) /\ left \in Pages /\ left # root_page_num
                          /\ r.num_pages = left + 1
                          /\ RootGrew(s.pages, r.pages, left, new)
<1> DEFINE n == s.num_pages
           root == s.pages[root_page_num]
<1>1. s \in Operations /\ new \in Nat /\ n \in Nat /\ n = left /\ left \in Nat
  BY PageNumbers, OperationFields DEF Good
<1>2. new # root_page_num /\ new <= n /\ n # 0 /\ new # n /\ new < left /\ n < left + 1
  BY <1>1
<1>3. ~Open(root) /\ Kids(root) = {}
  BY DEF Open, Kids
<1>4. left = IF new = n THEN new + 1 ELSE n
  BY <1>1, <1>2
<1>5. /\ r \in Operations /\ n <= r.num_pages
      /\ Exited(r) => Exited(s)
      /\ Failed(r) => Halted(r) \/ r.pages = s.pages
      /\ ~Failed(r) => /\ ~Failed(s) /\ left \in Pages /\ left # root_page_num
                       /\ r.num_pages = left + 1
                       /\ RootGrew(s.pages, r.pages, left, new)
  <2> DEFINE above == IF new = n THEN new + 1 ELSE n
             t == create_new_root(s, new)
  <2>1. /\ s \in Operations /\ new \in Nat /\ new # root_page_num /\ new <= s.num_pages
        /\ s.num_pages # 0 /\ ~Open(s.pages[root_page_num])
        /\ \A k \in Kids(s.pages[root_page_num]) :
             k \in Pages /\ k < s.num_pages /\ k \notin {root_page_num, new}
    BY <1>1, <1>2, <1>3
  <2>2. /\ t \in Operations /\ n <= t.num_pages
        /\ Exited(t) => Exited(s)
        /\ Failed(t) => Halted(t) \/ t.pages = s.pages
        /\ ~Failed(t) => /\ ~Failed(s) /\ above \in Pages /\ above # root_page_num
                         /\ t.num_pages = above + 1
                         /\ RootGrew(s.pages, t.pages, above, new)
    BY ONLY <2>1, NewRootExactly
  <2> HIDE DEF above, t
  <2>3. left = above /\ r = t
    BY <1>4 DEF above, t
  <2> QED BY <2>2, <2>3
<1> QED BY <1>1, <1>5

\* What a split of the root leaf makes of the two halves: a root above them.
LEMMA HalvesTopped ==
  ASSUME NEW s, Good(s), InShape(s.pages), NEW new \in Pages \ {root_page_num}, s.num_pages = new + 1,
         IsLeaf(s.pages[root_page_num]), Failed(s) => Halted(s),
         NEW h,
         ~Failed(s) => \E g : Ranked(s.pages, new + 1, g, {}) /\ new \in DOMAIN g /\ DOMAIN h \subseteq DOMAIN g,
         NEW r, r = create_new_root(s, new)
  PROVE  GoesOnRanked(h, r)
<1> DEFINE left == new + 1
           n == s.num_pages
           root == s.pages[root_page_num]
<1>1. s \in Operations /\ new \in Nat /\ n \in Nat /\ n = left /\ left \in Nat
  BY PageNumbers, OperationFields DEF Good
<1>2. new # root_page_num /\ new <= n /\ n # 0 /\ new # n /\ new < left /\ n < left + 1
  BY <1>1
<1>5. /\ r \in Operations /\ n <= r.num_pages
      /\ Exited(r) => Exited(s)
      /\ Failed(r) => Halted(r) \/ r.pages = s.pages
      /\ ~Failed(r) => /\ ~Failed(s) /\ left \in Pages /\ left # root_page_num
                       /\ r.num_pages = left + 1
                       /\ RootGrew(s.pages, r.pages, left, new)
  <2> DEFINE above == left
  <2>1. above = new + 1
    OBVIOUS
  <2> HIDE DEF above
  <2>2. /\ r \in Operations /\ above <= r.num_pages
        /\ Exited(r) => Exited(s)
        /\ Failed(r) => Halted(r) \/ r.pages = s.pages
        /\ ~Failed(r) => /\ ~Failed(s) /\ above \in Pages /\ above # root_page_num
                         /\ r.num_pages = above + 1
                         /\ RootGrew(s.pages, r.pages, above, new)
    BY <2>1, LeafRootAbove
  <2> QED BY <1>1, <2>2 DEF above
<1>6. ~Exited(s)
  BY NoExitYet
<1>7. CASE Failed(r)
  <2>1. CASE Halted(r)
    BY <1>5, <1>6, <2>1 DEF GoesOnRanked
  <2>2. CASE ~Halted(r)
    <3>1. r.pages = s.pages /\ r.num_pages \in Nat
      BY <1>5, <1>7, <2>2, OperationFields
    <3>2. ~Failed(s)
      <4>1. Failed(s) => r = s
        BY LeafRootSplit
      <4> QED BY <2>2, <4>1
    <3>3. PICK g : Ranked(s.pages, left, g, {}) /\ DOMAIN h \subseteq DOMAIN g
      BY <3>2
    <3>4. Ranked(s.pages, r.num_pages, g, {})
      <4> DEFINE m == r.num_pages
      <4>1. left \in Nat /\ m \in Nat /\ left <= m
        BY <1>1, <1>5, <3>1
      <4> HIDE DEF left, m
      <4>2. Ranked(s.pages, m, g, {})
        BY ONLY <3>3, <4>1, RankedLater
      <4> QED BY <4>2 DEF m
    <3> QED BY <1>5, <1>6, <3>1, <3>3, <3>4 DEF GoesOnRanked
  <2> QED BY <2>1, <2>2
<1>8. CASE ~Failed(r)
  <2> DEFINE a == s.pages
             b == r.pages
             m == left + 1
             open == IF IsLeaf(a[root_page_num]) THEN {} ELSE {new}
  <2>1. /\ ~Failed(s) /\ left \in Pages /\ r.num_pages = m /\ RootGrew(a, b, left, new)
    BY <1>5, <1>8
  <2>2. PICK g : Ranked(a, n, g, {}) /\ new \in DOMAIN g /\ DOMAIN h \subseteq DOMAIN g
    BY <1>1, <2>1
  <2>3. left \notin DOMAIN g
    <3>1. \A q \in DOMAIN g : q \in Nat /\ q < n
      BY <2>2, RanksOf
    <3> QED BY <1>1, <3>1
  <2>4. /\ n \in Nat /\ m \in Nat /\ n < m /\ left < m /\ new < m /\ left # new
    BY <1>1, <1>2
  <2>5. IsLeaf(a[root_page_num]) /\ open = {} /\ (new \in DOMAIN g <=> IsLeaf(a[root_page_num]))
    BY <2>2
  <2>6. left \in Pages \ DOMAIN g /\ new \in Pages \ {root_page_num}
    BY <2>1, <2>3
  <2>7. open = IF IsLeaf(a[root_page_num]) THEN {} ELSE {new}
    OBVIOUS
  <2> HIDE DEF open, a, b, left, m, n
  <2>8. \E f : RanksGrown(a, b, m, g, left, new, open, f)
    BY ONLY <2>1, <2>2, <2>4, <2>5, <2>6, <2>7, RankedGrew
  <2>9. \E f : Ranked(b, m, f, {}) /\ DOMAIN h \subseteq DOMAIN f
    BY ONLY <2>2, <2>5, <2>8 DEF RanksGrown
  <2>10. \E f : Ranked(r.pages, r.num_pages, f, {}) /\ DOMAIN h \subseteq DOMAIN f
    BY <2>1, <2>9 DEF b
  <2> QED BY <1>5, <1>6, <2>10 DEF GoesOnRanked
<1> QED BY <1>7, <1>8

\* The tree of three pages that is made of a root leaf is even.
LEMMA HalvesToppedEven ==
  ASSUME NEW s, Good(s), NEW new \in Pages \ {root_page_num}, s.num_pages = new + 1,
         IsLeaf(s.pages[root_page_num]), IsLeaf(s.pages[new]),
         Filled(s.pages[root_page_num]), Filled(s.pages[new]),
         \A q \in Pages : q < new => q = root_page_num,
         NEW r, r = create_new_root(s, new), ~Failed(r)
  PROVE  EvenTree(r)
<1> DEFINE a == s.pages
           b == r.pages
<1>1. PICK left : left = new + 1
  OBVIOUS
<1>2. /\ left \in Pages /\ left # root_page_num /\ r.num_pages = left + 1
      /\ RootGrew(a, b, left, new)
  BY <1>1, LeafRootAbove
<1>3. \A q \in Pages : a[q].parent = root_page_num
  BY DEF Good, Shaped
<1>4. /\ IsLeaf(a[root_page_num]) /\ IsLeaf(a[new]) /\ Filled(a[root_page_num]) /\ Filled(a[new])
      /\ new \in Pages \ {root_page_num} /\ left \in Pages \ {root_page_num}
      /\ \A q \in Pages : q < new => q = root_page_num
  BY <1>2
<1> HIDE DEF a, b
<1>5. \E h : Ranked(b, left + 1, h, {}) /\ Even(b, left + 1, h, {}, {}, {})
  BY ONLY <1>1, <1>2, <1>3, <1>4, EvenTopped
<1> QED BY <1>2, <1>5 DEF EvenTree, b

LEMMA RootLeafSplitRanked ==
  ASSUME NEW o, NEW p, NEW c, NEW row, Target(o, p, c, row), p = root_page_num,
         Full(o.pages[p]), NEW h, Ranked(o.pages, o.num_pages, h, {}), p \in DOMAIN h
  PROVE  GoesOnEven(o, h, leaf_node_split_and_insert(o, p, c, row))
<1> DEFINE o1 == get_page(o, p)
           old == Pointer(o1, p)
           node == o1.pages[p]
           new == o1.num_pages
           o2 == get_page(o1, new)
           at == Pointer(o2, new)
           all == InsertAt(node.cells, c + 1, row)
           o3 == StoreNode(o2, at, RightHalf(node, all))
           left == LeftHalf(node, all, new)
           right == RightHalf(node, all)
           s == StoreNode(o3, old, left)
           r == create_new_root(s, new)
           t == leaf_node_split_and_insert(o, p, c, row)
<1> SUFFICES GoesOnEven(o, h, t)
  OBVIOUS
<1>1. /\ Target(o1, p, c, row) /\ o1.pages = o.pages /\ o1.num_pages = o.num_pages
      /\ With(o1, p, c, row) = all
  <2>1. /\ Target(o1, p, c, row) /\ o1.pages = o.pages /\ o1.num_pages = o.num_pages
    BY SplitTarget
  <2> QED BY <2>1 DEF With
<1>2. /\ Good(o1) /\ ~Failed(o1) /\ p \in Pages /\ IsLeaf(node) /\ node.is_root
  <2>1. Good(o1) /\ ~Failed(o1) /\ p \in Pages /\ IsLeaf(node)
    BY <1>1 DEF Target
  <2> QED BY <2>1 DEF Good, Shaped
<1>3. t = IF Failed(o2) THEN o2 ELSE r
  BY <1>2 DEF leaf_node_split_and_insert
<1>4. old.page = p /\ at.page = new
  BY DEF Pointer
<1> HIDE DEF o1, t
<1>5. CASE Failed(o2)
  <2>1. Keeps(o1, o2) /\ o2.pages = o.pages
    BY <1>1, <1>2, RequestKeeps
  <2>2. o2.num_pages \in Nat /\ o.num_pages \in Nat /\ o.num_pages <= o2.num_pages
    BY <1>1, <1>2, <2>1 DEF Keeps, Good, Shaped
  <2>3. Ranked(o.pages, o2.num_pages, h, {})
    BY <2>2, RankedLater
  <2>4. ~Exited(o2)
    BY <1>2, <2>1, NoExitYet DEF Keeps
  <2> HIDE DEF o2
  <2> QED BY <1>3, <1>5, <2>1, <2>3, <2>4 DEF GoesOnRanked, GoesOnEven
<1>6. CASE ~Failed(o2)
  <2>1. t = r
    BY <1>3, <1>6
  <2>2. /\ Full(o1.pages[p]) /\ new = o1.num_pages /\ ~Failed(get_page(o1, new))
        /\ left = LeftHalf(o1.pages[p], With(o1, p, c, row), new)
        /\ right = RightHalf(o1.pages[p], With(o1, p, c, row))
        /\ s = StoreNode(StoreNode(get_page(o1, new), at, right), old, left)
        /\ Ranked(o1.pages, o1.num_pages, h, {}) /\ p \in DOMAIN h
    BY <1>1, <1>6
  <2>3. r = create_new_root(s, new)
    OBVIOUS
  <2> HIDE DEF at, old, s, left, right, all, o2, o3, new, node, r
  <2>4. /\ Good(s) /\ s.num_pages = new + 1 /\ new \in Pages \ {p, root_page_num}
        /\ IsLeaf(s.pages[p]) /\ InShape(s.pages)
        /\ Failed(s) => Halted(s)
    BY ONLY <1>1, <1>4, <2>2, HalvesStored
  <2>5. ~Failed(s) => \E g : /\ RanksDivided(s.pages, new, h, p, g)
                             /\ EvensDivided(o1.pages, s.pages, new, h, p, g)
    BY ONLY <1>1, <1>4, <2>2, HalvesRanked
  <2>6. ~Failed(s) => \E g : Ranked(s.pages, new + 1, g, {}) /\ new \in DOMAIN g /\ DOMAIN h \subseteq DOMAIN g
    BY <2>5 DEF RanksDivided
  <2>7. IsLeaf(s.pages[root_page_num]) /\ new \in Pages \ {root_page_num}
    BY <2>4
  <2>8. GoesOnRanked(h, r)
    BY ONLY <2>3, <2>4, <2>6, <2>7, HalvesTopped
  <2>9. ASSUME Even(o.pages, o.num_pages, h, {}, {}, {}), ~Failed(r) PROVE EvenTree(r)
    <3>1. PICK above : above = new + 1
      OBVIOUS
    <3>2. ~Failed(s)
      BY ONLY <2>3, <2>4, <2>7, <2>9, <3>1, LeafRootAbove
    <3>3. PICK g : EvensDivided(o1.pages, s.pages, new, h, p, g)
      BY <2>5, <3>2
    <3>4. /\ IsLeaf(s.pages[new]) /\ Filled(s.pages[root_page_num]) /\ Filled(s.pages[new])
          /\ \A q \in Pages : q < new => q = root_page_num
      BY <1>1, <2>2, <2>9, <3>3 DEF EvensDivided
    <3> QED BY ONLY <2>3, <2>4, <2>7, <2>9, <3>4, HalvesToppedEven
  <2> QED BY <2>1, <2>8, <2>9 DEF GoesOnEven
<1> QED BY <1>5, <1>6

\* Insertion at a cursor.
LEMMA LeafInsertRanked ==
  ASSUME NEW o, NEW p, NEW c, NEW row, Target(o, p, c, row),
         NEW h, Ranked(o.pages, o.num_pages, h, {}), p \in DOMAIN h
  PROVE  GoesOnEven(o, h, leaf_node_insert(o, p, c, row))
<1> DEFINE o1 == get_page(o, p)
           node == o1.pages[p]
           with == [node EXCEPT !.cells = InsertAt(@, c + 1, row)]
           s == StoreNode(o1, Pointer(o1, p), with)
           split == leaf_node_split_and_insert(o1, p, c, row)
           r == leaf_node_insert(o, p, c, row)
<1> SUFFICES GoesOnEven(o, h, r)
  OBVIOUS
<1>1. /\ Target(o1, p, c, row) /\ o1.pages = o.pages /\ o1.num_pages = o.num_pages
  BY SplitTarget
<1>2. /\ Good(o1) /\ ~Failed(o1) /\ p \in Pages /\ IsLeaf(node)
      /\ o1 \in Operations /\ o1.pages \in [Pages -> Node]
  BY <1>1, OperationFields DEF Target, Good
<1>3. node \in LeafNode
  BY <1>2, NodeFields
<1>4. r = IF Full(node) THEN split ELSE s
  BY DEF leaf_node_insert, Full
<1>5. Ranked(o1.pages, o1.num_pages, h, {})
  BY <1>1
<1>6. CASE Full(node)
  <2>1. r = split /\ Full(o1.pages[p])
    BY <1>4, <1>6
  <2> HIDE DEF o1, node, s, r
  <2>2. GoesOnEven(o1, h, split)
    <3>1. CASE p = root_page_num
      BY ONLY <1>1, <1>5, <2>1, <3>1, p \in DOMAIN h, RootLeafSplitRanked
    <3>2. CASE p # root_page_num
      BY ONLY <1>1, <1>5, <2>1, <3>2, p \in DOMAIN h, LeafSplitRanked
    <3> QED BY <3>1, <3>2
  <2> QED BY <1>1, <2>1, <2>2 DEF GoesOnEven
<1>7. CASE ~Full(node)
  <2>1. r = s
    BY <1>4, <1>7
  <2>2. IsLeaf(with) /\ with.parent = node.parent
    BY <1>3 DEF IsLeaf, LeafNode
  <2> DEFINE all == InsertAt(node.cells, c + 1, row)
  <2>0. with.cells = all /\ Len(all) = Len(node.cells) + 1 /\ Len(node.cells) \in Nat
    <3>1. Len(all) = Len(node.cells) + 1 /\ Len(node.cells) \in Nat
      BY <1>1, RowPlaced DEF With
    <3>2. with = [node EXCEPT !.cells = all]
      OBVIOUS
    <3> HIDE DEF all, with
    <3>3. with.cells = all
      BY <1>3, <3>2 DEF LeafNode
    <3> QED BY <3>1, <3>3
  <2>3. /\ s.num_pages = o1.num_pages
        /\ Failed(s) => Halted(s)
        /\ ~Failed(s) => s.pages = [o1.pages EXCEPT ![p] = with]
    <3> DEFINE ptr == Pointer(o1, p)
    <3>1. ptr.page = p
      BY DEF Pointer
    <3>2. with \in Node
      <4>1. InsertAt(node.cells, c + 1, row) \in Seq(Rows)
        BY <1>1, RowPlaced DEF With
      <4> HIDE DEF all
      <4>2. [node EXCEPT !.cells = all] \in LeafNode
        BY <1>3, <4>1 DEF LeafNode, all
      <4> QED BY <4>2 DEF Node, all
    <3> HIDE DEF o1, with
    <3>3. ptr.page \in Pages /\ s = StoreNode(o1, ptr, with)
      BY <1>2, <3>1
    <3> HIDE DEF ptr, s
    <3>4. /\ s.num_pages = o1.num_pages
          /\ ~Failed(s) => s.pages = [o1.pages EXCEPT ![ptr.page] = with]
      BY ONLY <1>2, <3>2, <3>3, NodeStored
    <3>5. Failed(s) => Halted(s)
      BY ONLY <1>2, <3>3, StoreFails
    <3> QED BY <3>1, <3>4, <3>5
  <2> HIDE DEF s, r, with
  <2>4. CASE Failed(s)
    BY <2>1, <2>3, <2>4, NoExitYet DEF GoesOnRanked, GoesOnEven
  <2>5. CASE ~Failed(s)
    <3>1. \A q \in Pages : /\ s.pages[q].parent = o1.pages[q].parent
                           /\ IsLeaf(s.pages[q]) <=> IsLeaf(o1.pages[q])
                           /\ ~IsLeaf(o1.pages[q]) => s.pages[q] = o1.pages[q]
      BY <1>2, <2>2, <2>3, <2>5
    <3> DEFINE n == o1.num_pages
    <3>2. Ranked(o1.pages, n, h, {})
      BY <1>5
    <3> HIDE DEF n
    <3>3. Ranked(s.pages, n, h, {})
      BY <3>1, <3>2, RankedAlike
    <3>4. GoesOnRanked(h, s)
      BY <2>3, <2>5, <3>3, NoExitYet DEF GoesOnRanked, n
    <3>5. ASSUME Even(o1.pages, n, h, {}, {}, {}) PROVE Even(s.pages, n, h, {}, {}, {})
      <4>1. DOMAIN h \subseteq Pages /\ LeavesFilled(o1.pages, h)
        BY <3>2, <3>5 DEF Ranked, Even
      <4>2. LeavesFilled(s.pages, h)
        <5> SUFFICES ASSUME NEW q \in DOMAIN h \ {root_page_num}, IsLeaf(s.pages[q])
                     PROVE  Len(s.pages[q].cells) >= RIGHT_SPLIT_COUNT
          BY DEF LeavesFilled
        <5>1. Len(o1.pages[q].cells) >= RIGHT_SPLIT_COUNT
          BY <3>1, <4>1 DEF LeavesFilled
        <5>2. CASE q = p
          <6>1. Len(s.pages[q].cells) = Len(node.cells) + 1
            BY <1>2, <2>0, <2>3, <2>5, <5>2
          <6>2. RIGHT_SPLIT_COUNT \in Nat
            BY SplitCounts DEF RIGHT_SPLIT_COUNT
          <6> QED BY <2>0, <5>1, <5>2, <6>1, <6>2
        <5>3. CASE q # p
          BY <1>2, <2>3, <2>5, <4>1, <5>1, <5>3
        <5> QED BY <5>2, <5>3
      <4> QED BY <3>1, <3>2, <3>5, <4>1, <4>2, EvenAlike
    <3> QED BY <1>1, <2>1, <2>3, <3>3, <3>4, <3>5 DEF GoesOnEven, EvenTree, n
  <2> QED BY <2>4, <2>5
<1> QED BY <1>6, <1>7

-----------------------------------------------------------------------------
(***************************************************************************)
(* The table: page 0 and the pages under it are ranked as long as the      *)
(* table goes on, so that every descent ends in a leaf.                    *)
(***************************************************************************)
ShapeInv ==
  /\ stopped # "exit"
  /\ stopped = "exit on old bytes" => MayBeInvalid # {}
  /\ stopped = "none" => \E h : Ranked(pages, num_pages, h, {})

LEMMA InitShape == Init => ShapeInv
<1> SUFFICES ASSUME Init PROVE ShapeInv
  OBVIOUS
<1> DEFINE leaf == [initialize_leaf_node(ZeroPage) EXCEPT !.is_root = TRUE]
           h == [q \in {root_page_num} |-> 0]
<1>1. stopped = "none" /\ num_pages = 1 /\ pages = [q \in Pages |-> IF q = root_page_num THEN leaf ELSE ZeroPage]
  BY DEF Init
<1>2. IsLeaf(leaf)
  <2> DEFINE empty == initialize_leaf_node(ZeroPage)
  <2>1. empty = [type |-> "LEAF", is_root |-> FALSE, parent |-> ZeroPage.parent, next |-> 0, cells |-> <<>>]
    BY DEF initialize_leaf_node
  <2> HIDE DEF empty
  <2>2. ASSUME NEW yes PROVE [empty EXCEPT !.is_root = yes].type = "LEAF"
    BY <2>1
  <2>3. leaf.type = "LEAF"
    BY <2>2 DEF empty
  <2> QED BY <2>3 DEF IsLeaf
<1>3. ZeroPage.parent = root_page_num
  BY DEF ZeroPage, root_page_num
<1> HIDE DEF leaf
<1>4. root_page_num \in Pages /\ root_page_num \in Nat /\ 0 \in Nat /\ 1 \in Nat /\ 0 < 1
  BY PageNumbers
<1>5. /\ DOMAIN h = {root_page_num} /\ h \in [{root_page_num} -> Nat] /\ h[root_page_num] = 0
  BY <1>4
<1> HIDE DEF h
<1>6. IsLeaf(pages[root_page_num]) /\ Kids(pages[root_page_num]) = {}
  BY <1>1, <1>2, <1>4 DEF Kids
<1>7. \A q \in Pages \ {root_page_num} : pages[q].parent = root_page_num
  BY <1>1, <1>3
<1>8. root_page_num < 1
  BY DEF root_page_num
<1>9. Ranked(pages, num_pages, h, {})
  BY <1>1, <1>4, <1>5, <1>6, <1>7, <1>8 DEF Ranked
<1>10. stopped # "exit" /\ stopped # "exit on old bytes"
  BY <1>1
<1> QED BY <1>9, <1>10 DEF ShapeInv

\* The search for a key puts the cursor in a ranked leaf.
LEMMA CursorRanked ==
  ASSUME NEW o, Good(o), NEW h, Ranked(o.pages, o.num_pages, h, {}), NEW key \in Nat,
         NEW at, at = table_find(o.pages, key)
  PROVE  at.page \in DOMAIN h /\ at.page \in Pages /\ IsLeaf(o.pages[at.page])
<1> DEFINE found == internal_node_find(o.pages, root_page_num, key)
<1>1. at.page = IF IsLeaf(o.pages[root_page_num]) THEN root_page_num ELSE found
  BY DEF table_find
<1>2. found \in DOMAIN h /\ IsLeaf(o.pages[found])
  BY FindsLeaf
<1> HIDE DEF found
<1>3. root_page_num \in DOMAIN h /\ DOMAIN h \subseteq Pages
  BY DEF Ranked
<1> QED BY <1>1, <1>2, <1>3

\* What an insertion makes of a ranked tree.
LEMMA InsertedTree ==
  ASSUME IInv, NEW key \in Keys, NEW text \in Texts, Insert(key, text),
         NEW h, Ranked(pages, num_pages, h, {})
  PROVE  \E r : \E row \in Rows :
           /\ Returned(r, row) /\ GoesOnRanked(h, r)
           /\ Even(pages, num_pages, h, {}, {}, {}) /\ ~Failed(r) => EvenTree(r)
<1>3. PICK row \in Rows :
        Returned(InsertAtCursor(Begin(pages, num_pages), table_find(pages, row.key), row), row)
  BY RowToInsert
<1> DEFINE o == Begin(pages, num_pages)
           at == table_find(o.pages, row.key)
           r == InsertAtCursor(o, at, row)
<1>1. /\ pages \in [Pages -> Node] /\ num_pages \in 0 .. FILE_PAGES_NUM
      /\ Shaped(pages, num_pages) /\ InShape(pages)
  BY DEF IInv, TypeOK, Node
<1>2. Good(o) /\ ~Failed(o) /\ o.pages = pages /\ o.num_pages = num_pages
  BY <1>1, Begun
<1>a. row.key \in Nat
  BY KeysAreNat DEF Rows
<1>4. Returned(r, row)
  BY <1>2, <1>3
<1>5. Ranked(o.pages, o.num_pages, h, {})
  BY <1>2
<1>6. r = InsertAtCursor(o, at, row) /\ at = table_find(o.pages, row.key)
  OBVIOUS
<1> HIDE DEF o, at, r
<1>7. at.page \in DOMAIN h /\ at.page \in Pages /\ IsLeaf(o.pages[at.page])
  BY <1>2, <1>a, <1>5, <1>6, CursorRanked
<1>8. Target(o, at.page, at.cell, row)
  BY <1>1, <1>2, <1>6, <1>7, CursorFound
<1>9. r = leaf_node_insert(o, at.page, at.cell, row)
  BY <1>6, <1>7 DEF InsertAtCursor
<1>10. GoesOnEven(o, h, r)
  BY <1>5, <1>7, <1>8, <1>9, LeafInsertRanked
<1>11. GoesOnRanked(h, r) /\ (Even(pages, num_pages, h, {}, {}, {}) /\ ~Failed(r) => EvenTree(r))
  BY <1>2, <1>10 DEF GoesOnEven
<1> QED BY <1>4, <1>11

LEMMA InsertShape ==
  ASSUME IInv, ShapeInv, NEW key \in Keys, NEW text \in Texts, Insert(key, text)
  PROVE  ShapeInv'
<1>1. stopped = "none"
  BY DEF Insert, InsertWith
<1>2. PICK h : Ranked(pages, num_pages, h, {})
  BY <1>1 DEF ShapeInv
<1>3. PICK r : \E row \in Rows : Returned(r, row) /\ GoesOnRanked(h, r)
  BY <1>2, InsertedTree
<1>4. /\ pages' = r.pages /\ num_pages' = r.num_pages
      /\ stopped' = IF r.fault = "out_of_range" THEN "none" ELSE r.fault
  BY <1>3, Zenon DEF Returned
<1>5. stopped' # "exit" /\ (stopped' = "exit on old bytes" => MayBeInvalid # {})
  BY <1>3, <1>4, Zenon DEF GoesOnRanked, Exited
<1>6. stopped' = "none" => ~Halted(r)
  BY <1>4, Zenon DEF Halted
<1> QED BY <1>3, <1>4, <1>5, <1>6 DEF GoesOnRanked, ShapeInv

LEMMA NextShape == IInv /\ ShapeInv /\ [Next]_vars => ShapeInv'
<1> SUFFICES ASSUME IInv, ShapeInv, [Next]_vars PROVE ShapeInv'
  OBVIOUS
<1>1. CASE Next
  BY <1>1, InsertShape DEF Next
<1>2. CASE UNCHANGED vars
  BY <1>2 DEF vars, ShapeInv
<1> QED BY <1>1, <1>2

(* The search for the place of a row always ends in a leaf, and no child   *)
(* internal_node_child() is asked to read is missing or out of range,      *)
(* whatever was inserted before and wherever an insertion broke off        *)
(* because the file was full.  Of the child it is asked to write the next  *)
(* theorem speaks.                                                         *)
THEOREM DescentsAlwaysEnd == Spec => []DescentsEnd
<1>1. ShapeInv => DescentsEnd
  BY DEF ShapeInv, DescentsEnd
<1> QED BY InitIInv, NextIInv, InitShape, NextShape, <1>1, PTL DEF Spec

(* A table into which no row is inserted that has INVALID_PAGE_NUM where   *)
(* an internal node has a child number (among them the rows of the         *)
(* greatest key) never exits: no other bytes a cell is left with, those of *)
(* children that moved to another node among them, read as that number.    *)
THEOREM OtherRowsNeverExit ==
  ASSUME \A row \in Rows : InvalidCells(row) = {}
  PROVE  Spec => []NeverExits
<1>1. MayBeInvalid = {}
  BY DEF MayBeInvalid
<1>2. ShapeInv => NeverExits
  BY <1>1, Zenon DEF ShapeInv, NeverExits
<1> QED BY InitIInv, NextIInv, InitShape, NextShape, <1>2, PTL DEF Spec

-----------------------------------------------------------------------------
(***************************************************************************)
(* The table is even as long as every insertion returned.                  *)
(***************************************************************************)
EvenInv ==
  stopped = "none" /\ refused = EmptyBag =>
    \E h : Ranked(pages, num_pages, h, {}) /\ Even(pages, num_pages, h, {}, {}, {})

LEMMA InitEven == Init => EvenInv
<1> SUFFICES ASSUME Init PROVE EvenInv
  OBVIOUS
<1>1. stopped = "none" /\ num_pages = 1
  BY DEF Init
<1>2. PICK h : Ranked(pages, num_pages, h, {})
  BY <1>1, InitShape DEF ShapeInv
<1>3. \A q \in DOMAIN h : q = root_page_num
  BY <1>1, <1>2, PageNumbers DEF Ranked, root_page_num
<1>4. root_page_num \in DOMAIN h /\ h[root_page_num] = 0
  <2>1. root_page_num \in DOMAIN h /\ h[root_page_num] \in Nat /\ h[root_page_num] < 1
    BY <1>1, <1>2 DEF Ranked
  <2> QED BY <2>1
<1>5. IsLeaf(pages[root_page_num])
  <2> DEFINE empty == initialize_leaf_node(ZeroPage)
             leaf == [empty EXCEPT !.is_root = TRUE]
  <2>1. empty = [type |-> "LEAF", is_root |-> FALSE, parent |-> ZeroPage.parent, next |-> 0, cells |-> <<>>]
    BY DEF initialize_leaf_node
  <2>2. pages = [q \in Pages |-> IF q = root_page_num THEN leaf ELSE ZeroPage]
    BY DEF Init
  <2> HIDE DEF empty
  <2>3. ASSUME NEW yes PROVE [empty EXCEPT !.is_root = yes].type = "LEAF"
    BY <2>1
  <2>4. leaf.type = "LEAF"
    BY <2>3
  <2> HIDE DEF leaf
  <2>5. pages[root_page_num] = leaf
    BY <2>2, PageNumbers
  <2> QED BY <2>4, <2>5 DEF IsLeaf
<1>6. \A q \in DOMAIN h : IsLeaf(pages[q]) /\ Kids(pages[q]) = {}
  BY <1>3, <1>5 DEF Kids
<1>7. AllRanked(1, h)
  <2>1. \A q \in Pages : q < 1 => q = root_page_num
    BY PageNumbers DEF root_page_num
  <2> QED BY <1>4, <2>1 DEF AllRanked
<1>8. LeavesLowest(pages, h) /\ InnerFilled(pages, h, {}) /\ ParentsNextHigher(pages, h, {})
  <2>1. LeavesLowest(pages, h)
    BY <1>3, <1>4, <1>6 DEF LeavesLowest
  <2>2. InnerFilled(pages, h, {}) /\ ParentsNextHigher(pages, h, {})
    BY <1>6 DEF InnerFilled, ParentsNextHigher
  <2> QED BY <2>1, <2>2
<1>9. KidsNextLower(pages, h, {}) /\ OneParent(pages, h)
  BY <1>6 DEF KidsNextLower, OneParent
<1>10. SomeParent(pages, h, {}) /\ LeavesAgree(pages, h, {}) /\ LeavesFilled(pages, h)
  BY <1>3 DEF SomeParent, LeavesAgree, LeavesFilled
<1> QED BY <1>1, <1>2, <1>7, <1>8, <1>9, <1>10 DEF Even, EvenInv

LEMMA InsertEvenly ==
  ASSUME IInv, EvenInv, NEW key \in Keys, NEW text \in Texts, Insert(key, text)
  PROVE  EvenInv'
<1> SUFFICES ASSUME refused' = EmptyBag
             PROVE  \E h : Ranked(pages', num_pages', h, {}) /\ Even(pages', num_pages', h, {}, {}, {})
  BY DEF EvenInv
<1>1. stopped = "none"
  BY DEF Insert, InsertWith
<1>2. IsABag(refused)
  BY DEF IInv, TypeOK
<1>3. ASSUME NEW row PROVE refused (+) SetToBag({row}) # EmptyBag
  <2>1. BagToSet(refused (+) SetToBag({row})) = BagToSet(refused) \cup {row}
    BY <1>2, BagGrown
  <2>2. BagToSet(EmptyBag) = {}
    BY DEF EmptyBag, SetToBag, BagToSet
  <2> QED BY <2>1, <2>2
<1>4. refused = EmptyBag
  <2>1. PICK r, row : Returned(r, row)
    BY DEF Insert, InsertWith
  <2>2. refused' = refused (+) SetToBag({row}) \/ refused' = refused
    BY <2>1 DEF Returned
  <2> QED BY <1>3, <2>2
<1>5. PICK h : Ranked(pages, num_pages, h, {}) /\ Even(pages, num_pages, h, {}, {}, {})
  BY <1>1, <1>4 DEF EvenInv
<1>6. PICK r : \E row \in Rows : Returned(r, row) /\ (~Failed(r) => EvenTree(r))
  BY <1>5, InsertedTree
<1>7. PICK row \in Rows : Returned(r, row)
  BY <1>6
<1>8. /\ pages' = r.pages /\ num_pages' = r.num_pages
      /\ refused' = IF Failed(r) THEN refused (+) SetToBag({row}) ELSE refused
  BY <1>7 DEF Returned
<1>9. ~Failed(r)
  BY <1>3, <1>8
<1> QED BY <1>6, <1>8, <1>9 DEF EvenTree

LEMMA NextEven == IInv /\ EvenInv /\ [Next]_vars => EvenInv'
<1> SUFFICES ASSUME IInv, EvenInv, [Next]_vars PROVE EvenInv'
  OBVIOUS
<1>1. CASE Next
  BY <1>1, InsertEvenly DEF Next
<1>2. CASE UNCHANGED vars
  BY <1>2 DEF vars, EvenInv
<1> QED BY <1>1, <1>2

\* The places of a child among a node's children.
LEMMA ChildPlaces ==
  ASSUME NEW node \in InternalNode, ~Open(node), ~IsLeaf(node), Apart(node)
  PROVE  /\ \A p : p \in Kids(node) <=> \E i \in 1 .. Len(node.cells) + 1 : Children(node)[i] = p
         /\ \A i, j \in 1 .. Len(node.cells) + 1 : Children(node)[i] = Children(node)[j] => i = j
         /\ ToSet(Children(node)) = Kids(node)
<1> DEFINE n == Len(node.cells)
           all == Children(node)
           first == Firsts(node.cells)
<1>1. n \in Nat
  BY InternalFields
<1>2. /\ Len(all) = n + 1
      /\ \A i \in 1 .. n : all[i] = node.cells[i].child
      /\ all[n + 1] = node.right
  BY ChildrenElements
<1>3. first = {all[i] : i \in 1 .. n}
  BY <1>2 DEF Firsts
<1>4. Kids(node) = first \cup {node.right}
  BY DEF Kids, Open
<1>5. \A i, j \in 1 .. n : all[i] = all[j] => i = j
  BY <1>2 DEF Apart, FirstsApart
<1>6. node.right \notin first
  BY DEF Apart
<1>7. \A i : i \in 1 .. n + 1 <=> i \in 1 .. n \/ i = n + 1
  BY <1>1
<1>8. DOMAIN all = 1 .. n + 1
  <2>1. DOMAIN all = 1 .. Len(all)
    <3> DEFINE firsts == [i \in 1 .. n |-> node.cells[i].child]
    <3>1. firsts \in Seq({firsts[i] : i \in 1 .. n}) /\ <<node.right>> \in Seq({node.right})
      BY <1>1
    <3>2. all = firsts \o <<node.right>>
      BY DEF Children
    <3> HIDE DEF firsts
    <3> QED BY <3>1, <3>2
  <2> QED BY <1>1, <1>2, <2>1
<1> HIDE DEF n, all, first
<1>9. \A p : p \in Kids(node) <=> \E i \in 1 .. n + 1 : all[i] = p
  BY <1>2, <1>3, <1>4, <1>7
<1>10. \A i, j \in 1 .. n + 1 : all[i] = all[j] => i = j
  BY <1>2, <1>3, <1>5, <1>6, <1>7
<1>11. ToSet(all) = Kids(node)
  BY <1>8, <1>9 DEF ToSet
<1> QED BY <1>9, <1>10, <1>11 DEF n, all

\* What the theorem below needs of the invariants.
LEMMA EvenTable ==
  ASSUME IInv, NEW h, Ranked(pages, num_pages, h, {}), Even(pages, num_pages, h, {}, {}, {})
  PROVE  /\ DOMAIN h = Allocated /\ root_page_num \in Allocated /\ Allocated \subseteq Pages
         /\ \A p \in Allocated : h[p] \in Nat
         /\ \A p \in Allocated : ~IsLeaf(pages[p]) =>
              /\ pages[p] \in InternalNode /\ ~Open(pages[p]) /\ Apart(pages[p])
              /\ Len(pages[p].cells) \in 1 .. INTERNAL_NODE_MAX_CELLS
         /\ \A p \in Allocated : ChildrenOf(p) = Kids(pages[p])
<1>1. /\ num_pages \in Nat /\ num_pages <= FILE_PAGES_NUM /\ FILE_PAGES_NUM \in Nat
      /\ pages \in [Pages -> Node]
  BY PagePointersAssumption DEF IInv, TypeOK, Node, PagePointersAssumption
<1>2. Allocated \subseteq Pages /\ \A p \in Pages : p \in Allocated <=> p < num_pages
  BY <1>1 DEF Allocated, Pages
<1>3. DOMAIN h = Allocated /\ root_page_num \in Allocated
  <2>1. DOMAIN h \subseteq Pages /\ root_page_num \in DOMAIN h /\ \A p \in DOMAIN h : p < num_pages
    BY DEF Ranked
  <2> QED BY <1>2, <2>1 DEF Even, AllRanked
<1>4. \A p \in Allocated : h[p] \in Nat
  BY <1>3 DEF Ranked
<1>5. ASSUME NEW p \in Allocated, ~IsLeaf(pages[p])
      PROVE  /\ pages[p] \in InternalNode /\ ~Open(pages[p]) /\ Apart(pages[p])
             /\ Len(pages[p].cells) \in 1 .. INTERNAL_NODE_MAX_CELLS
  <2>1. pages[p] \in InternalNode
    BY <1>1, <1>2, <1>5, NodeFields
  <2>2. Len(pages[p].cells) <= INTERNAL_NODE_MAX_CELLS /\ ~Open(pages[p])
    BY <1>3, <1>5 DEF Ranked
  <2>3. Len(pages[p].cells) >= 1 /\ Apart(pages[p])
    BY <1>3, <1>5 DEF Even, InnerFilled
  <2>4. Len(pages[p].cells) \in Nat /\ INTERNAL_NODE_MAX_CELLS \in Nat
    BY <2>1, InternalFields DEF INTERNAL_NODE_MAX_CELLS
  <2> QED BY <2>1, <2>2, <2>3, <2>4
<1>6. ASSUME NEW p \in Allocated PROVE ChildrenOf(p) = Kids(pages[p])
  <2>1. CASE IsLeaf(pages[p])
    BY <2>1 DEF ChildrenOf, Kids
  <2>2. CASE ~IsLeaf(pages[p])
    BY <1>5, <2>2, ChildPlaces DEF ChildrenOf
  <2> QED BY <2>1, <2>2
<1> QED BY <1>2, <1>3, <1>4, <1>5, <1>6

\* So many levels below the root are the pages that are so much lower.
LEMMA LevelsReached ==
  ASSUME IInv, NEW h, Ranked(pages, num_pages, h, {}), Even(pages, num_pages, h, {}, {}, {}),
         NEW n \in Nat, n <= h[root_page_num]
  PROVE  Level(n) = {p \in Allocated : h[p] + n = h[root_page_num]}
<1> DEFINE R == root_page_num
           T == Allocated
           At(i) == {p \in T : h[p] + i = h[R]}
           Turn(f, i) == IF i = 0 THEN {R} ELSE UNION {ChildrenOf(p) : p \in f[i - 1]}
           level == CHOOSE f : f = [i \in 0 .. n |-> Turn(f, i)]
<1>1. /\ DOMAIN h = T /\ R \in T /\ \A p \in T : h[p] \in Nat
      /\ \A p \in T : ChildrenOf(p) = Kids(pages[p])
  BY EvenTable
<1>2. /\ \A p \in T \ {R} : h[p] < h[R]
      /\ \A p \in T : \A c \in Kids(pages[p]) : c \in T /\ h[p] = h[c] + 1
      /\ \A c \in T \ {R} : \E p \in T : c \in Kids(pages[p])
  <2>1. \A p \in T \ {R} : h[p] < h[R]
    BY <1>1 DEF Ranked
  <2>2. \A p \in T : \A c \in Kids(pages[p]) : c \in T /\ h[p] = h[c] + 1
    BY <1>1 DEF Ranked, Even, KidsNextLower
  <2>3. \A c \in T \ {R} : \E p \in T : c \in Kids(pages[p])
    BY <1>1 DEF Even, SomeParent
  <2> QED BY <2>1, <2>2, <2>3
<1> HIDE DEF T, R
<1>3. At(0) = {R}
  <2>1. \A p \in T : h[p] + 0 = h[R] <=> p = R
    BY <1>1, <1>2
  <2> QED BY <1>1, <2>1
<1>4. ASSUME NEW i \in 1 .. n PROVE At(i) = UNION {ChildrenOf(p) : p \in At(i - 1)}
  <2>1. ASSUME NEW c \in At(i) PROVE \E p \in At(i - 1) : c \in ChildrenOf(p)
    <3>1. c \in T /\ h[c] + i = h[R] /\ h[c] \in Nat
      BY <1>1
    <3>2. c # R
      BY <3>1
    <3>3. PICK p \in T : c \in Kids(pages[p])
      BY <1>2, <3>1, <3>2
    <3>4. h[p] = h[c] + 1
      BY <1>2, <3>3
    <3>5. p \in At(i - 1)
      BY <3>1, <3>3, <3>4
    <3> QED BY <1>1, <3>3, <3>5
  <2>2. ASSUME NEW p \in At(i - 1), NEW c \in ChildrenOf(p) PROVE c \in At(i)
    <3>1. p \in T /\ h[p] + (i - 1) = h[R] /\ c \in Kids(pages[p])
      BY <1>1
    <3>2. c \in T /\ h[p] = h[c] + 1 /\ h[c] \in Nat
      BY <1>1, <1>2, <3>1
    <3> QED BY <3>1, <3>2
  <2> HIDE DEF At
  <2> QED BY <2>1, <2>2
<1> HIDE DEF At
<1>5. \A i \in 0 .. n : i = 0 \/ (i \in 1 .. n /\ i - 1 \in 0 .. n /\ i # 0)
  OBVIOUS
<1>6. \E f : f = [i \in 0 .. n |-> Turn(f, i)]
  <2> DEFINE g == [i \in 0 .. n |-> At(i)]
  <2>1. \A i \in 0 .. n : g[i] = At(i)
    OBVIOUS
  <2>2. \A i \in 0 .. n : g[i] = Turn(g, i)
    <3> HIDE DEF g
    <3> SUFFICES ASSUME NEW i \in 0 .. n PROVE g[i] = Turn(g, i)
      OBVIOUS
    <3>1. CASE i = 0
      BY <1>3, <2>1, <3>1
    <3>2. CASE i # 0
      <4>1. i \in 1 .. n /\ i - 1 \in 0 .. n
        BY <1>5, <3>2
      <4>2. g[i] = UNION {ChildrenOf(p) : p \in At(i - 1)} /\ g[i - 1] = At(i - 1)
        BY <1>4, <2>1, <4>1
      <4> QED BY <3>2, <4>2
    <3> QED BY <3>1, <3>2
  <2>3. g = [i \in 0 .. n |-> Turn(g, i)]
    <3>1. \A i \in 0 .. n : At(i) = Turn(g, i)
      <4> HIDE DEF g, Turn
      <4> QED BY <2>1, <2>2
    <3> HIDE DEF Turn
    <3> QED BY <3>1
  <2> QED BY <2>3
<1>7. level = [i \in 0 .. n |-> Turn(level, i)]
  <2> HIDE DEF Turn
  <2> QED BY <1>6
<1>8. \A i \in 0 .. n : level[i] = Turn(level, i)
  <2> HIDE DEF Turn, level
  <2> QED BY <1>7
<1>9. level[n] = At(n)
  <2> HIDE DEF level
  <2> DEFINE S == {i \in 0 .. n : level[i] = At(i)}
  <2>1. 0 \in 0 .. n /\ n \in 0 .. n
    OBVIOUS
  <2>2. 0 \in S
    BY <1>3, <1>8, <2>1
  <2>3. ASSUME NEW i \in 0 .. n, i \in S, i + 1 <= n PROVE i + 1 \in S
    <3>1. i + 1 \in 1 .. n /\ i + 1 \in 0 .. n /\ (i + 1) - 1 = i /\ i + 1 # 0
      BY <2>3
    <3>2. level[i] = At(i)
      BY <2>3
    <3>3. level[i + 1] = UNION {ChildrenOf(p) : p \in level[i]}
      BY <1>8, <3>1
    <3>4. At(i + 1) = UNION {ChildrenOf(p) : p \in At(i)}
      BY <1>4, <3>1
    <3> QED BY <3>1, <3>2, <3>3, <3>4
  <2> HIDE DEF S
  <2>4. \A i \in 0 .. n : i \in S
    BY <2>2, <2>3, InductionTo
  <2>5. n \in S
    BY <2>1, <2>4
  <2> QED BY <2>5 DEF S
<1>10. Level(n) = level[n]
  BY DEF Level, R
<1> QED BY <1>9, <1>10 DEF At, T, R

\* Every page but the root has one place in one node.
LEMMA OnePlace ==
  ASSUME IInv, NEW h, Ranked(pages, num_pages, h, {}), Even(pages, num_pages, h, {}, {}, {}),
         NEW p \in Allocated \ {root_page_num}
  PROVE  Cardinality({place \in Allocated \X (1 .. INTERNAL_NODE_MAX_CELLS + 1) :
                        IsChildAt(place[1], place[2], p)}) = 1
<1> DEFINE all == {place \in Allocated \X (1 .. INTERNAL_NODE_MAX_CELLS + 1) :
                     IsChildAt(place[1], place[2], p)}
<1>1. /\ DOMAIN h = Allocated
      /\ \A q \in Allocated : ~IsLeaf(pages[q]) =>
           /\ pages[q] \in InternalNode /\ ~Open(pages[q]) /\ Apart(pages[q])
           /\ Len(pages[q].cells) \in 1 .. INTERNAL_NODE_MAX_CELLS
  BY EvenTable
<1>2. \A q \in Allocated : ~IsLeaf(pages[q]) =>
        /\ p \in Kids(pages[q]) <=> \E i \in 1 .. Len(pages[q].cells) + 1 : Children(pages[q])[i] = p
        /\ \A i, j \in 1 .. Len(pages[q].cells) + 1 :
             Children(pages[q])[i] = Children(pages[q])[j] => i = j
  BY <1>1, ChildPlaces
<1>3. PICK q \in Allocated : p \in Kids(pages[q])
  BY <1>1 DEF Even, SomeParent
<1>4. ~IsLeaf(pages[q])
  BY <1>3 DEF Kids
<1>5. PICK i \in 1 .. Len(pages[q].cells) + 1 : Children(pages[q])[i] = p
  BY <1>2, <1>3, <1>4
<1>6. <<q, i>> \in all
  <2>1. Len(pages[q].cells) \in Nat /\ Len(pages[q].cells) <= INTERNAL_NODE_MAX_CELLS
        /\ INTERNAL_NODE_MAX_CELLS \in Nat
    <3>1. INTERNAL_NODE_MAX_CELLS \in Nat
      BY DEF INTERNAL_NODE_MAX_CELLS
    <3>2. Len(pages[q].cells) \in 1 .. INTERNAL_NODE_MAX_CELLS
      BY <1>1, <1>4
    <3> QED BY <3>1, <3>2
  <2>2. i \in 1 .. INTERNAL_NODE_MAX_CELLS + 1 /\ i <= Len(pages[q].cells) + 1
    BY <2>1
  <2> QED BY <1>4, <1>5, <2>2 DEF IsChildAt
<1>7. ASSUME NEW place \in all PROVE place = <<q, i>>
  <2> DEFINE s == place[1]
             j == place[2]
  <2>1. /\ s \in Allocated /\ j \in 1 .. INTERNAL_NODE_MAX_CELLS + 1 /\ place = <<s, j>>
        /\ IsChildAt(s, j, p)
    OBVIOUS
  <2> HIDE DEF s, j
  <2>2. ~IsLeaf(pages[s]) /\ j <= Len(pages[s].cells) + 1 /\ Children(pages[s])[j] = p
    BY <2>1 DEF IsChildAt
  <2>3. j \in 1 .. Len(pages[s].cells) + 1
    <3>1. Len(pages[s].cells) \in Nat
      BY <1>1, <2>1, <2>2
    <3>2. INTERNAL_NODE_MAX_CELLS + 1 \in Nat
      BY DEF INTERNAL_NODE_MAX_CELLS
    <3> QED BY <2>1, <2>2, <3>1, <3>2
  <2>4. p \in Kids(pages[s])
    BY <1>2, <2>1, <2>2, <2>3
  <2>5. s = q
    BY <1>1, <1>3, <2>1, <2>4 DEF Even, OneParent
  <2>6. j = i
    BY <1>2, <1>4, <1>5, <2>2, <2>3, <2>5
  <2> QED BY <2>1, <2>5, <2>6
<1> HIDE DEF all
<1>8. all = {<<q, i>>}
  BY <1>6, <1>7
<1>9. Cardinality(all) = 1
  BY <1>8, FS_Singleton
<1> QED BY <1>9 DEF all

LEMMA EvenIsBalanced == IInv /\ EvenInv => TreeIsBalanced
<1> SUFFICES ASSUME IInv, EvenInv, stopped = "none" /\ refused = EmptyBag
             PROVE  /\ \A p \in Allocated \ {root_page_num} :
                         Cardinality({place \in Allocated \X (1 .. INTERNAL_NODE_MAX_CELLS + 1) :
                                        IsChildAt(place[1], place[2], p)}) = 1
                    /\ \E n \in 0 .. num_pages : Level(n) = Leaves
                    /\ \A p \in Allocated : pages[p].is_root <=> p = root_page_num
                    /\ \A p \in Allocated :
                         IF IsLeaf(pages[p])
                         THEN /\ Len(pages[p].cells) <= LEAF_NODE_MAX_CELLS
                              /\ p # root_page_num => Len(pages[p].cells) >= RIGHT_SPLIT_COUNT
                         ELSE Len(pages[p].cells) \in 1 .. INTERNAL_NODE_MAX_CELLS
  BY DEF TreeIsBalanced
<1>1. PICK h : Ranked(pages, num_pages, h, {}) /\ Even(pages, num_pages, h, {}, {}, {})
  BY DEF EvenInv
<1>2. /\ DOMAIN h = Allocated /\ root_page_num \in Allocated /\ Allocated \subseteq Pages
      /\ \A p \in Allocated : h[p] \in Nat
      /\ \A p \in Allocated : ~IsLeaf(pages[p]) => Len(pages[p].cells) \in 1 .. INTERNAL_NODE_MAX_CELLS
  BY <1>1, EvenTable
<1>3. Shaped(pages, num_pages) /\ InShape(pages)
  BY DEF IInv
<1>4. \A p \in Allocated \ {root_page_num} :
        Cardinality({place \in Allocated \X (1 .. INTERNAL_NODE_MAX_CELLS + 1) :
                       IsChildAt(place[1], place[2], p)}) = 1
  BY <1>1, OnePlace
<1>5. \E n \in 0 .. num_pages : Level(n) = Leaves
  <2> DEFINE n == h[root_page_num]
  <2>1. n \in Nat /\ n < num_pages /\ num_pages \in Nat
    <3>1. n < num_pages
      BY <1>1 DEF Ranked
    <3> QED BY <1>2, <3>1 DEF IInv, TypeOK
  <2>2. Level(n) = {p \in Allocated : h[p] + n = h[root_page_num]}
    <3>1. n <= h[root_page_num]
      BY <2>1
    <3> QED BY <1>1, <2>1, <3>1, LevelsReached
  <2>3. \A p \in Allocated : h[p] + n = n <=> IsLeaf(pages[p])
    <3> SUFFICES ASSUME NEW p \in Allocated PROVE h[p] + n = n <=> IsLeaf(pages[p])
      OBVIOUS
    <3>1. h[p] = 0 <=> IsLeaf(pages[p])
      BY <1>1, <1>2 DEF Even, LeavesLowest
    <3> QED BY <1>2, <2>1, <3>1
  <2>4. Level(n) = Leaves
    BY <2>2, <2>3 DEF Leaves
  <2> QED BY <2>1, <2>4
<1>6. \A p \in Allocated : pages[p].is_root <=> p = root_page_num
  BY <1>2, <1>3 DEF Shaped
<1>7. \A p \in Allocated :
        IF IsLeaf(pages[p])
        THEN /\ Len(pages[p].cells) <= LEAF_NODE_MAX_CELLS
             /\ p # root_page_num => Len(pages[p].cells) >= RIGHT_SPLIT_COUNT
        ELSE Len(pages[p].cells) \in 1 .. INTERNAL_NODE_MAX_CELLS
  <2> SUFFICES ASSUME NEW p \in Allocated
               PROVE  IF IsLeaf(pages[p])
                      THEN /\ Len(pages[p].cells) <= LEAF_NODE_MAX_CELLS
                           /\ p # root_page_num => Len(pages[p].cells) >= RIGHT_SPLIT_COUNT
                      ELSE Len(pages[p].cells) \in 1 .. INTERNAL_NODE_MAX_CELLS
    OBVIOUS
  <2>1. IsLeaf(pages[p]) => Len(pages[p].cells) <= LEAF_NODE_MAX_CELLS
    BY <1>2, <1>3 DEF InShape, Fits
  <2>2. IsLeaf(pages[p]) /\ p # root_page_num => Len(pages[p].cells) >= RIGHT_SPLIT_COUNT
    BY <1>1, <1>2 DEF Even, LeavesFilled
  <2> QED BY <1>2, <2>1, <2>2
<1> QED BY <1>4, <1>5, <1>6, <1>7

LEMMA EvenLeafParents == IInv /\ EvenInv => LeafParentsAgree
<1> SUFFICES ASSUME IInv, EvenInv, stopped = "none" /\ refused = EmptyBag,
                    NEW p \in Allocated, NEW c \in ChildrenOf(p) \cap Leaves
             PROVE  pages[c].parent = p
  BY DEF LeafParentsAgree
<1>1. PICK h : Ranked(pages, num_pages, h, {}) /\ Even(pages, num_pages, h, {}, {}, {})
  BY DEF EvenInv
<1>2. DOMAIN h = Allocated /\ \A q \in Allocated : h[q] \in Nat /\ ChildrenOf(q) = Kids(pages[q])
  BY <1>1, EvenTable
<1>3. c \in Kids(pages[p]) /\ c \in Allocated /\ IsLeaf(pages[c])
  BY <1>2 DEF Leaves
<1>4. c # root_page_num
  <2>1. h[c] < h[p] /\ h[c] \in Nat /\ h[p] \in Nat
    BY <1>1, <1>2, <1>3 DEF Ranked
  <2>2. p # root_page_num => h[p] < h[root_page_num]
    BY <1>1, <1>2 DEF Ranked
  <2>3. root_page_num \in Allocated
    BY <1>1, <1>2 DEF Ranked
  <2> QED BY <1>2, <2>1, <2>2, <2>3
<1>5. c \in Kids(pages[pages[c].parent]) /\ pages[c].parent \in DOMAIN h
  BY <1>1, <1>2, <1>3, <1>4 DEF Even, LeavesAgree, Ranked
<1> QED BY <1>1, <1>2, <1>3, <1>5 DEF Even, OneParent

(* After every insertion that returned, and in whatever order the keys     *)
(* came, the pages handed out form one balanced tree: every page but the   *)
(* root is the child of exactly one internal node, the leaves are all at   *)
(* one depth, only page 0 is marked as root, and every node is between its *)
(* least and its greatest fill, however many levels of internal nodes the  *)
(* splits have made.                                                       *)
THEOREM TreeIsBalancedAlways == Spec => []TreeIsBalanced
<1> QED BY InitIInv, NextIInv, InitEven, NextEven, EvenIsBalanced, PTL DEF Spec

(* Every leaf names as its parent the node it is a child of, so that a     *)
(* leaf split puts the new leaf beside the old one: also after splits of   *)
(* internal nodes, which tell the children they move.                      *)
THEOREM LeafParentsAlwaysAgree == Spec => []LeafParentsAgree
<1> QED BY InitIInv, NextIInv, InitEven, NextEven, EvenLeafParents, PTL DEF Spec

=============================================================================
