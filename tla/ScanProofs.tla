----------------------------- MODULE ScanProofs ------------------------------
(***************************************************************************)
(* Proofs about a scan of a Table among insertions: TableScan's cursor.    *)
(* After them, table_find() in a table whose keys came in ascending order. *)
(***************************************************************************)
EXTENDS ShapeProofs, TableScan

-----------------------------------------------------------------------------
(***************************************************************************)
(* What a cursor has yet to pass: the rows from its cell on and those of   *)
(* the leaves the links lead to from its leaf.                             *)
(***************************************************************************)

\* A set of pages that no link leads out of.
Linked(tree, A) == \A q \in A : IsLeaf(tree[q]) /\ tree[q].next # 0 => tree[q].next \in A

\* The pages the links lead to from page p, p among them.
Ahead(tree, p) == {q \in Pages : \A A \in SUBSET Pages : p \in A /\ Linked(tree, A) => q \in A}

LEMMA FirstIsAhead ==
  ASSUME NEW tree, NEW p \in Pages
  PROVE  p \in Ahead(tree, p)
BY DEF Ahead

LEMMA LastAlone ==
  ASSUME NEW tree, NEW p \in Pages, IsLeaf(tree[p]), tree[p].next = 0, NEW q \in Ahead(tree, p)
  PROVE  q = p
<1>1. {p} \in SUBSET Pages /\ Linked(tree, {p})
  BY DEF Linked
<1> QED BY <1>1 DEF Ahead

\* From one leaf to the next.
LEMMA AheadOfNext ==
  ASSUME NEW tree, NEW p \in Pages, IsLeaf(tree[p]), tree[p].next # 0, tree[p].next \in Pages
  PROVE  /\ \A q \in Ahead(tree, p) : q # p => q \in Ahead(tree, tree[p].next)
         /\ \A q \in Ahead(tree, tree[p].next) : q \in Ahead(tree, p)
<1> DEFINE next == tree[p].next
<1>1. ASSUME NEW q \in Ahead(tree, p), q # p PROVE q \in Ahead(tree, next)
  <2>1. SUFFICES ASSUME NEW A \in SUBSET Pages, next \in A, Linked(tree, A) PROVE q \in A
    BY DEF Ahead
  <2>2. A \cup {p} \in SUBSET Pages /\ Linked(tree, A \cup {p})
    BY <2>1 DEF Linked
  <2> QED BY <1>1, <2>2 DEF Ahead
<1>2. ASSUME NEW q \in Ahead(tree, next) PROVE q \in Ahead(tree, p)
  <2>1. SUFFICES ASSUME NEW A \in SUBSET Pages, p \in A, Linked(tree, A) PROVE q \in A
    BY DEF Ahead
  <2>2. next \in A
    BY <2>1 DEF Linked
  <2> QED BY <2>1, <2>2 DEF Ahead
<1> QED BY <1>1, <1>2

\* In a chain of leaves no link leads back.
LEMMA NeverBack ==
  ASSUME NEW tree, Chain(tree), NEW p \in Pages, IsLeaf(tree[p]), tree[p].next # 0,
         NEW q \in Ahead(tree, tree[p].next)
  PROVE  q # p /\ IsLeaf(tree[q]) /\ q # root_page_num
<1>1. PICK chain : Chained(tree, chain)
  BY DEF Chain
<1> DEFINE n == Len(chain)
<1>2. /\ n \in Nat \ {0}
      /\ \A i \in 1 .. n : chain[i] \in Pages /\ IsLeaf(tree[chain[i]])
      /\ \A i, j \in 1 .. n : chain[i] = chain[j] => i = j
  BY <1>1, ChainElements
<1>3. /\ \A i \in 2 .. n : chain[i] # root_page_num
      /\ \A i \in 1 .. n - 1 : tree[chain[i]].next = chain[i + 1]
      /\ tree[chain[n]].next = 0
      /\ \A x \in Pages : IsLeaf(tree[x]) <=> \E i \in 1 .. n : chain[i] = x
  BY <1>1 DEF Chained, Member
<1> HIDE DEF n
<1>4. PICK i \in 1 .. n : chain[i] = p
  BY <1>3
<1>5. i \in 1 .. n - 1
  BY <1>2, <1>3, <1>4
<1> DEFINE A == {chain[j] : j \in i + 1 .. n}
<1>6. A \in SUBSET Pages
  BY <1>2
<1>7. tree[p].next \in A
  <2>1. i + 1 \in i + 1 .. n
    BY <1>2, <1>5
  <2> QED BY <1>3, <1>4, <1>5, <2>1
<1>8. ASSUME NEW j \in i + 1 .. n, tree[chain[j]].next # 0 PROVE tree[chain[j]].next \in A
  <2>1. j \in 1 .. n - 1 /\ j + 1 \in i + 1 .. n
    BY <1>2, <1>3, <1>8
  <2> QED BY <1>3, <2>1
<1>9. Linked(tree, A)
  BY <1>8 DEF Linked
<1>10. q \in A
  BY <1>6, <1>7, <1>9 DEF Ahead
<1>11. PICK j \in i + 1 .. n : q = chain[j]
  BY <1>10
<1>12. j \in 1 .. n /\ j \in 2 .. n /\ j # i
  BY <1>2, <1>4
<1> QED BY <1>2, <1>3, <1>4, <1>11, <1>12

LEMMA AheadIsLeaf ==
  ASSUME NEW tree \in [Pages -> Node], Chain(tree), NEW p \in Pages, IsLeaf(tree[p]), NEW q \in Ahead(tree, p)
  PROVE  q \in Pages /\ IsLeaf(tree[q])
<1>1. q \in Pages
  BY DEF Ahead
<1>2. CASE tree[p].next = 0
  BY <1>1, <1>2, LastAlone
<1>3. CASE tree[p].next # 0
  <2>1. tree[p].next \in Pages
    BY NodeFields
  <2>2. CASE q = p
    BY <1>1, <2>2
  <2>3. CASE q # p
    BY <1>1, <1>3, <2>1, <2>3, AheadOfNext, NeverBack
  <2> QED BY <2>2, <2>3
<1> QED BY <1>2, <1>3

\* A row with a key is past a cell of page p, or in a leaf further on.
ToCome(tree, p, cell, key) ==
  \E q \in Ahead(tree, p) :
    /\ IsLeaf(tree[q])
    /\ \E i \in 1 .. Len(tree[q].cells) : tree[q].cells[i].key = key /\ (q = p => i > cell)

\* No leaf but the root is empty.
NoneEmpty(tree) ==
  \A q \in Pages \ {root_page_num} : IsLeaf(tree[q]) => tree[q].cells # <<>>

LEMMA KeyUnread ==
  ASSUME NEW row \in Rows
  PROVE  AsInserted(row).key = row.key
BY DEF AsInserted, Rows

\* Rows that are the same but for damaged texts have the same keys.
LEMMA SameKeys ==
  ASSUME NEW a \in Seq(Rows), NEW b \in Seq(Rows), SameRows(a, b)
  PROVE  Len(a) = Len(b) /\ \A i \in 1 .. Len(b) : a[i].key = b[i].key
<1>1. Len(a) = Len(b) /\ \A i \in 1 .. Len(b) : AsInserted(a[i]) = AsInserted(b[i])
  BY DEF SameRows
<1>2. \A i \in 1 .. Len(b) : a[i] \in Rows /\ b[i] \in Rows
  BY <1>1
<1> QED BY <1>1, <1>2, KeyUnread

\* Row i of some cells is in others, no nearer to their beginning.
PushedOn(cells, i, all) == \E j \in 1 .. Len(all) : j >= i /\ all[j] = cells[i]

\* A row put among others pushes none of them back.
LEMMA NonePushedBack ==
  ASSUME NEW cells \in Seq(Rows), NEW n \in 1 .. Len(cells) + 1, NEW row \in Rows,
         NEW i \in 1 .. Len(cells), NEW all, all = InsertAt(cells, n, row)
  PROVE  PushedOn(cells, i, all)
<1> SUFFICES \E j \in 1 .. Len(all) : j >= i /\ all[j] = cells[i]
  BY DEF PushedOn
<1>1. n \in 1 .. Len(cells) + 1 /\ Len(cells) \in Nat
  OBVIOUS
<1>2. all = InsertAt(cells, n, row)
  OBVIOUS
<1>3. /\ Len(all) = Len(cells) + 1
      /\ \A k \in 1 .. n - 1 : all[k] = cells[k]
      /\ \A k \in n + 1 .. Len(cells) + 1 : all[k] = cells[k - 1]
  <2> DEFINE S == Rows
  <2>1. cells \in Seq(S) /\ row \in S
    OBVIOUS
  <2> HIDE DEF S
  <2>2. /\ Len(InsertAt(cells, n, row)) = Len(cells) + 1
        /\ \A k \in 1 .. n - 1 : InsertAt(cells, n, row)[k] = cells[k]
        /\ \A k \in n + 1 .. Len(cells) + 1 : InsertAt(cells, n, row)[k] = cells[k - 1]
    BY ONLY <1>1, <2>1, InsertAtElements
  <2> QED BY <1>2, <2>2
<1>4. CASE i < n
  <2>1. i \in 1 .. n - 1 /\ i \in 1 .. Len(cells) + 1 /\ i >= i
    BY <1>1, <1>4
  <2> QED BY <1>3, <2>1
<1>5. CASE ~(i < n)
  <2>1. /\ i + 1 \in n + 1 .. Len(cells) + 1 /\ i + 1 \in 1 .. Len(cells) + 1
        /\ (i + 1) - 1 = i /\ i + 1 >= i
    BY <1>1, <1>5
  <2> QED BY <1>3, <2>1
<1> QED BY <1>4, <1>5

\* The pages ahead stay ahead when links are only lengthened.
LEMMA AheadKept ==
  ASSUME NEW a, NEW b, NEW X, NEW p \in Pages \ X, Linked(b, Pages),
         \A A \in SUBSET Pages : Linked(b, A) => Linked(a, A \ X)
  PROVE  \A q \in Ahead(a, p) : q \in Ahead(b, p) /\ q \notin X
<1>1. ASSUME NEW q \in Ahead(a, p), NEW A \in SUBSET Pages, p \in A, Linked(b, A) PROVE q \in A \ X
  <2>1. A \ X \in SUBSET Pages /\ p \in A \ X /\ Linked(a, A \ X)
    BY <1>1
  <2> QED BY <2>1 DEF Ahead
<1>2. ASSUME NEW q \in Ahead(a, p) PROVE q \in Ahead(b, p)
  BY <1>1 DEF Ahead
<1>3. Pages \in SUBSET Pages /\ p \in Pages
  OBVIOUS
<1> QED BY <1>1, <1>2, <1>3

\* What an insertion makes of the leaves, when it goes on and when it throws.
LeavesMade(a, b, p, all) ==
  \/ LeavesKept(a, b)
  \/ Took(a, b, p, all)
  \/ Overfull(all) /\ \E new \in Pages : Divided(a, b, p, new, all)
  \/ p = root_page_num /\ Overfull(all) /\ \E left, new \in Pages : Grew(a, b, left, new, all)

LEMMA OutcomeLeaves ==
  ASSUME NEW o, NEW p, NEW all, NEW r, Outcome(o, p, all, r), ~Halted(r)
  PROVE  LeavesMade(o.pages, r.pages, p, all)
BY DEF Outcome, LeavesMade

\* A leaf stays one, unless it is the root and splits.
LEMMA LeafStays ==
  ASSUME NEW a, NEW b, NEW p \in Pages, NEW all, LeavesMade(a, b, p, all), IsLeaf(a[p]),
         NEW q \in Pages, IsLeaf(a[q]), q # root_page_num
  PROVE  IsLeaf(b[q])
<1>1. CASE LeavesKept(a, b)
  BY <1>1 DEF LeavesKept
<1>2. CASE Took(a, b, p, all)
  BY <1>2 DEF Took, OthersKept, LeafIs
<1>3. CASE \E new \in Pages : Divided(a, b, p, new, all)
  BY <1>3 DEF Divided, OthersKept, LeafIs
<1>4. CASE \E left, new \in Pages : Grew(a, b, left, new, all)
  BY <1>4 DEF Grew, OthersKept, LeafIs
<1> QED BY <1>1, <1>2, <1>3, <1>4 DEF LeavesMade

LEMMA StillNoneEmpty ==
  ASSUME NEW a, NoneEmpty(a), NEW b, InShape(b), NEW p \in Pages, IsLeaf(a[p]), NEW all,
         all \in Seq(Rows), all # <<>>, LeavesMade(a, b, p, all)
  PROVE  NoneEmpty(b)
<1> SUFFICES ASSUME NEW q \in Pages \ {root_page_num}, IsLeaf(b[q]), b[q].cells = <<>> PROVE FALSE
  BY DEF NoneEmpty
<1>1. Len(b[q].cells) = 0
  OBVIOUS
<1>2. Len(all) # 0
  BY EmptySeq
<1>3. ~LeavesKept(a, b)
  BY DEF LeavesKept, NoneEmpty
<1>4. ~Took(a, b, p, all)
  BY <1>1, <1>2 DEF Took, OthersKept, LeafIs, SameRows, NoneEmpty
<1>5. Overfull(all) => Len(FirstHalf(all)) # 0 /\ Len(SecondHalf(all)) # 0
  <2>1. SUFFICES ASSUME Overfull(all) PROVE Len(FirstHalf(all)) # 0 /\ Len(SecondHalf(all)) # 0
    OBVIOUS
  <2>2. /\ Len(FirstHalf(all)) = LEFT_SPLIT_COUNT
        /\ Len(SecondHalf(all)) = LEAF_NODE_MAX_CELLS + 1 - LEFT_SPLIT_COUNT
    BY <2>1, HalvesFit DEF Overfull
  <2>3. LEFT_SPLIT_COUNT # 0 /\ LEAF_NODE_MAX_CELLS + 1 - LEFT_SPLIT_COUNT # 0
    BY SplitCounts
  <2> QED BY <2>2, <2>3
<1>6. ~(Overfull(all) /\ \E new \in Pages : Divided(a, b, p, new, all))
  BY <1>1, <1>5 DEF Divided, OthersKept, LeafIs, SameRows, NoneEmpty
<1>7. ~(Overfull(all) /\ \E left, new \in Pages : Grew(a, b, left, new, all))
  BY <1>1, <1>5 DEF Grew, OthersKept, LeafIs, SameRows, NoneEmpty
<1> QED BY <1>3, <1>4, <1>6, <1>7 DEF LeavesMade

\* The rows to come before an insertion are to come after it.
LEMMA StillToCome ==
  ASSUME NEW a, NEW b, a \in [Pages -> Node], b \in [Pages -> Node], InShape(a), InShape(b),
         NEW p \in Pages, IsLeaf(a[p]), NEW c \in 0 .. Len(a[p].cells), NEW row \in Rows,
         NEW all, all = InsertAt(a[p].cells, c + 1, row), all \in Seq(Rows), LeavesMade(a, b, p, all),
         NEW page \in Pages, IsLeaf(a[page]), IsLeaf(b[page]), NEW cell \in Nat, NEW key \in Nat,
         ToCome(a, page, cell, key)
  PROVE  ToCome(b, page, cell, key)
<1> DEFINE Holds(tree, q, i) == /\ i \in 1 .. Len(tree[q].cells) /\ tree[q].cells[i].key = key
                                /\ q = page => i > cell
<1>1. PICK q \in Ahead(a, page) : IsLeaf(a[q]) /\ \E i \in 1 .. Len(a[q].cells) : Holds(a, q, i)
  BY DEF ToCome
<1>2. PICK i : Holds(a, q, i)
  BY <1>1
<1>3. q \in Pages
  BY DEF Ahead
<1>4. SUFFICES \E x \in Ahead(b, page) : IsLeaf(b[x]) /\ \E j : Holds(b, x, j)
  BY DEF ToCome
<1>5. Linked(b, Pages)
  BY NodeFields DEF Linked
<1>6. \A x \in Pages : IsLeaf(a[x]) => a[x].cells \in Seq(Rows) /\ Len(a[x].cells) \in Nat
  BY NodeFields
<1>7. \A x \in Pages : IsLeaf(b[x]) => b[x].cells \in Seq(Rows) /\ Len(b[x].cells) \in Nat
  BY NodeFields
<1>8. ASSUME b[q].cells = a[q].cells PROVE Holds(b, q, i)
  BY <1>2, <1>8
<1>9. i \in Nat
  BY <1>2
<1>10. q = p => \E j \in 1 .. Len(all) : j >= i /\ all[j].key = key
  <2>1. SUFFICES ASSUME q = p PROVE \E j \in 1 .. Len(all) : j >= i /\ all[j].key = key
    OBVIOUS
  <2>2. a[p].cells \in Seq(Rows) /\ i \in 1 .. Len(a[p].cells) /\ a[p].cells[i].key = key
    BY <1>2, <1>6, <2>1
  <2> DEFINE cells == a[p].cells
             n == c + 1
  <2>4. /\ cells \in Seq(Rows) /\ n \in 1 .. Len(cells) + 1 /\ row \in Rows
        /\ all = InsertAt(cells, n, row) /\ i \in 1 .. Len(cells)
    BY <2>2
  <2> HIDE DEF Holds, cells, n
  <2>3. PushedOn(cells, i, all)
    BY ONLY <2>4, NonePushedBack
  <2> QED BY <2>2, <2>3 DEF PushedOn, cells
<1>11. CASE LeavesKept(a, b)
  <2>1. ASSUME NEW A \in SUBSET Pages, Linked(b, A) PROVE Linked(a, A \ {})
    BY <1>11, <2>1 DEF LeavesKept, Linked
  <2>2. q \in Ahead(b, page)
    BY <1>5, <2>1, AheadKept
  <2>3. IsLeaf(b[q]) /\ b[q].cells = a[q].cells
    BY <1>1, <1>3, <1>11 DEF LeavesKept
  <2> QED BY <1>8, <2>2, <2>3
<1>12. CASE Took(a, b, p, all)
  <2>0. /\ \A x \in Pages : IsLeaf(b[x]) <=> IsLeaf(a[x])
        /\ \A x \in Pages : IsLeaf(a[x]) => b[x].next = a[x].next
        /\ \A x \in Pages \ {p} : IsLeaf(a[x]) => b[x].cells = a[x].cells
        /\ IsLeaf(b[p]) /\ SameRows(b[p].cells, all)
    BY <1>12 DEF Took, OthersKept, LeafIs
  <2>1. ASSUME NEW A \in SUBSET Pages, Linked(b, A) PROVE Linked(a, A \ {})
    BY <2>0, <2>1 DEF Linked
  <2>2. q \in Ahead(b, page) /\ IsLeaf(b[q])
    BY <1>1, <1>3, <1>5, <2>0, <2>1, AheadKept
  <2>3. CASE q = p
    <3>1. PICK j \in 1 .. Len(all) : j >= i /\ all[j].key = key
      BY <1>10, <2>3
    <3>2. Len(b[p].cells) = Len(all) /\ \A k \in 1 .. Len(all) : b[p].cells[k].key = all[k].key
      BY <1>7, <2>0, SameKeys
    <3>3. q = page => j > cell
      BY <1>2, <1>9, <3>1
    <3>4. Holds(b, q, j)
      BY <2>3, <3>1, <3>2, <3>3
    <3> QED BY <2>2, <3>4
  <2>4. CASE q # p
    BY <1>1, <1>3, <1>8, <2>0, <2>2, <2>4
  <2> QED BY <2>3, <2>4
<1>13. ASSUME Overfull(all), NEW new \in Pages, Divided(a, b, p, new, all)
       PROVE  \E x \in Ahead(b, page) : IsLeaf(b[x]) /\ \E j : Holds(b, x, j)
  <2>0. /\ new # p /\ new # root_page_num /\ ~IsLeaf(a[new])
        /\ \A x \in Pages \ {p, new} : IsLeaf(b[x]) <=> IsLeaf(a[x])
        /\ \A x \in Pages \ {p, new} : IsLeaf(a[x]) => b[x].cells = a[x].cells /\ b[x].next = a[x].next
        /\ IsLeaf(b[p]) /\ SameRows(b[p].cells, FirstHalf(all)) /\ b[p].next = new
        /\ IsLeaf(b[new]) /\ SameRows(b[new].cells, SecondHalf(all)) /\ b[new].next = a[p].next
    BY <1>13 DEF Divided, OthersKept, LeafIs
  <2>1. ASSUME NEW A \in SUBSET Pages, Linked(b, A) PROVE Linked(a, A \ {})
    <3>1. SUFFICES ASSUME NEW x \in A, IsLeaf(a[x]), a[x].next # 0 PROVE a[x].next \in A
      BY DEF Linked
    <3>2. CASE x = p
      <4>1. new \in A
        BY <2>0, <2>1, <3>2 DEF Linked, root_page_num
      <4> QED BY <2>0, <2>1, <3>1, <3>2, <4>1 DEF Linked
    <3>3. CASE x # p
      <4>1. x \in Pages \ {p, new}
        BY <2>0, <3>1, <3>3
      <4> QED BY <2>0, <2>1, <3>1, <4>1 DEF Linked
    <3> QED BY <3>2, <3>3
  <2>2. q \in Ahead(b, page) /\ IsLeaf(b[q]) /\ q # new
    BY <1>1, <1>3, <1>5, <2>0, <2>1, AheadKept
  <2>3. CASE q = p
    <3>1. PICK j \in 1 .. Len(all) : j >= i /\ all[j].key = key
      BY <1>10, <2>3
    <3> DEFINE k == LEFT_SPLIT_COUNT
               first == FirstHalf(all)
               second == SecondHalf(all)
    <3>2. /\ first \in Seq(Rows) /\ second \in Seq(Rows)
          /\ Len(first) = k /\ Len(second) = LEAF_NODE_MAX_CELLS + 1 - k
          /\ \A t \in 1 .. Len(first) : first[t] = all[t]
          /\ \A t \in 1 .. Len(second) : second[t] = all[k + t]
      BY <1>13, HalvesFit DEF Overfull, Fits
    <3>3. k \in Nat /\ LEAF_NODE_MAX_CELLS \in Nat /\ Len(all) = LEAF_NODE_MAX_CELLS + 1
      BY <1>13, SplitCounts DEF Overfull
    <3> HIDE DEF k, first, second
    <3>4. /\ Len(b[p].cells) = Len(first) /\ \A t \in 1 .. Len(first) : b[p].cells[t].key = first[t].key
          /\ Len(b[new].cells) = Len(second) /\ \A t \in 1 .. Len(second) : b[new].cells[t].key = second[t].key
      <4>1. b[p].cells \in Seq(Rows) /\ b[new].cells \in Seq(Rows)
        BY <1>7, <2>0
      <4>2. SameRows(b[p].cells, first) /\ SameRows(b[new].cells, second)
        BY <2>0 DEF first, second
      <4> QED BY ONLY <3>2, <4>1, <4>2, SameKeys
    <3>5. CASE j <= k
      <4>1. j \in 1 .. Len(first)
        BY <3>1, <3>2, <3>3, <3>5
      <4>2. q = page => j > cell
        BY <1>2, <1>9, <3>1
      <4>3. Holds(b, q, j)
        BY <2>3, <3>1, <3>2, <3>4, <4>1, <4>2
      <4> QED BY <2>2, <4>3
    <3>6. CASE ~(j <= k)
      <4> DEFINE m == j - k
      <4>1. m \in 1 .. Len(second) /\ k + m = j
        BY <3>1, <3>2, <3>3, <3>6
      <4>2. new # page
        BY <2>0
      <4> HIDE DEF m
      <4>5. second[m].key = key
        BY <3>1, <3>2, <4>1
      <4>3. Holds(b, new, m)
        BY <3>4, <4>1, <4>2, <4>5
      <4>4. new \in Ahead(b, page)
        <5>1. SUFFICES ASSUME NEW A \in SUBSET Pages, page \in A, Linked(b, A) PROVE new \in A
          BY DEF Ahead
        <5>2. p \in A
          BY <2>2, <2>3, <5>1 DEF Ahead
        <5> QED BY <2>0, <5>1, <5>2 DEF Linked, root_page_num
      <4> QED BY <2>0, <4>3, <4>4
    <3> QED BY <3>5, <3>6
  <2>4. CASE q # p
    BY <1>1, <1>3, <1>8, <2>0, <2>2, <2>4
  <2> QED BY <2>3, <2>4
<1>14. ASSUME NEW left \in Pages, NEW new \in Pages, Grew(a, b, left, new, all)
       PROVE  \E x \in Ahead(b, page) : IsLeaf(b[x]) /\ \E j : Holds(b, x, j)
  <2>0. /\ ~IsLeaf(a[left]) /\ ~IsLeaf(a[new]) /\ ~IsLeaf(b[root_page_num])
        /\ \A x \in Pages \ {root_page_num, left, new} :
             /\ IsLeaf(b[x]) <=> IsLeaf(a[x])
             /\ IsLeaf(a[x]) => b[x].cells = a[x].cells /\ b[x].next = a[x].next
    BY <1>14 DEF Grew, OthersKept
  <2>1. ASSUME NEW A \in SUBSET Pages, Linked(b, A) PROVE Linked(a, A \ {root_page_num})
    <3>1. SUFFICES ASSUME NEW x \in A \ {root_page_num}, IsLeaf(a[x]), a[x].next # 0
                   PROVE  a[x].next \in A \ {root_page_num}
      BY DEF Linked
    <3>2. x \in Pages \ {root_page_num, left, new}
      BY <2>0, <3>1
    <3>3. IsLeaf(b[x]) /\ b[x].next = a[x].next
      BY <2>0, <3>1, <3>2
    <3>4. b[x].next \in A
      BY <2>1, <3>1, <3>3 DEF Linked
    <3> QED BY <3>1, <3>3, <3>4 DEF root_page_num
  <2>2. page \in Pages \ {root_page_num}
    BY <2>0
  <2>3. q \in Ahead(b, page) /\ q # root_page_num
    <3> DEFINE X == {root_page_num}
    <3>1. page \in Pages \ X /\ \A A \in SUBSET Pages : Linked(b, A) => Linked(a, A \ X)
      BY <2>1, <2>2
    <3> HIDE DEF X
    <3>2. q \in Ahead(b, page) /\ q \notin X
      BY <1>5, <3>1, AheadKept
    <3> QED BY <3>2 DEF X
  <2>4. q \in Pages \ {root_page_num, left, new}
    BY <1>1, <1>3, <2>0, <2>3
  <2> QED BY <1>1, <1>8, <2>0, <2>3, <2>4
<1> QED BY <1>11, <1>12, <1>13, <1>14 DEF LeavesMade

\* The search for the least key stops at a row, if there is one.
LEMMA FirstCellFound ==
  ASSUME NEW cells \in Seq(Rows), cells # <<>>
  PROVE  CellSearch(cells, 0) \in 0 .. Len(cells) - 1
<1> DEFINE n == Len(cells)
           S == Searches(cells)
           turn == FindCellTurn(cells, 0)
           Inv == [i \in 0 .. n |-> {s \in S : IF i = 0 THEN s = Whole(cells) ELSE s.ans < n}]
<1>1. n \in Nat \ {0} /\ 0 \in Nat /\ \A i \in 1 .. n : cells[i].key \in Nat
  <2>1. n \in Nat \ {0} /\ \A i \in 1 .. n : cells[i] \in Rows
    BY EmptySeq
  <2> HIDE DEF n
  <2> QED BY <2>1, KeysAreNat DEF Rows
<1>2. \A s \in S : turn[s] \in S
  BY <1>1, FindCellTurns
<1>3. ASSUME NEW s \in S, s = Whole(cells) \/ s.ans < n PROVE turn[s].ans < n
  <2> DEFINE index == (s.min + s.max) \div 2
             middle == cells[index + 1].key
  <2>1. /\ s.min \in 0 .. n /\ s.max \in -1 .. n - 1 /\ s.ans \in 0 .. n
        /\ s = [min |-> s.min, max |-> s.max, ans |-> s.ans]
    BY DEF Searches
  <2>2. turn[s] = IF s.min > s.max THEN s
                  ELSE IF 0 = middle
                  THEN [s EXCEPT !.min = s.max + 1, !.ans = index]
                  ELSE IF 0 < middle
                  THEN [s EXCEPT !.max = index - 1, !.ans = index]
                  ELSE [s EXCEPT !.min = index + 1]
    BY DEF FindCellTurn
  <2>3. ~(s.min > s.max) => index \in 0 .. n - 1 /\ index + 1 \in 1 .. n
    BY <1>1, <2>1
  <2>4. s = Whole(cells) => ~(s.min > s.max)
    BY <1>1 DEF Whole
  <2>5. ~(s.min > s.max) => middle \in Nat
    BY <1>1, <2>3
  <2> HIDE DEF index, middle, n, turn
  <2>6. CASE s.min > s.max
    BY <1>3, <2>2, <2>4, <2>6
  <2>7. CASE ~(s.min > s.max)
    <3>1. 0 = middle \/ 0 < middle
      BY <2>5, <2>7
    <3>2. turn[s].ans = index
      BY <2>1, <2>2, <2>7, <3>1
    <3> QED BY <1>1, <2>3, <2>7, <3>2
  <2> QED BY <2>6, <2>7
<1>4. /\ \A i \in 0 .. n : Inv[i] \subseteq S
      /\ Whole(cells) \in Inv[0]
      /\ \A i \in 1 .. n : \A s \in Inv[i - 1] : turn[s] \in Inv[i]
  <2>1. Whole(cells) \in S /\ 0 \in 0 .. n
    BY <1>1 DEF Whole, Searches
  <2>2. \A i \in 1 .. n : i - 1 \in 0 .. n /\ i \in 0 .. n /\ i # 0
    BY <1>1
  <2> HIDE DEF n, S, turn
  <2> QED BY <1>2, <1>3, <2>1, <2>2
<1>5. Repeat(turn, Whole(cells), n) \in Inv[n]
  <2> HIDE DEF n, S, turn, Inv
  <2> QED BY <1>1, <1>2, <1>4, Repeated
<1>6. CellSearch(cells, 0) = Repeat(turn, Whole(cells), n).ans
  BY DEF CellSearch
<1>7. n \in 0 .. n /\ n # 0
  BY <1>1
<1> DEFINE last == Repeat(turn, Whole(cells), n)
<1> HIDE DEF last, turn
<1>8. last \in S /\ last.ans < n
  BY <1>5, <1>7 DEF last
<1>9. last.ans \in 0 .. n
  BY <1>8 DEF Searches
<1> QED BY <1>1, <1>6, <1>8, <1>9 DEF last

\* What a list of rows that begins with those of page q is made of.
Passes(tree, q, list) ==
  /\ list \in Seq(Rows)
  /\ \A t \in 1 .. Len(list) :
       \/ t <= Len(tree[q].cells) /\ list[t] = tree[q].cells[t]
       \/ \E w \in Ahead(tree, q) \ {q} :
            IsLeaf(tree[w]) /\ \E i \in 1 .. Len(tree[w].cells) : tree[w].cells[i] = list[t]

LEMMA PassesNext ==
  ASSUME NEW tree, tree \in [Pages -> Node], Chain(tree), NEW q \in Pages, IsLeaf(tree[q]),
         NEW further \in Seq(Rows), tree[q].next = 0 => further = <<>>,
         tree[q].next # 0 => Passes(tree, tree[q].next, further)
  PROVE  Passes(tree, q, tree[q].cells \o further)
<1> DEFINE cells == tree[q].cells
           list == cells \o further
           next == tree[q].next
           There(t, x) == \E w \in Ahead(tree, q) \ {q} :
             IsLeaf(tree[w]) /\ \E i \in 1 .. Len(tree[w].cells) : tree[w].cells[i] = x
<1>1. cells \in Seq(Rows) /\ next \in Pages
  BY NodeFields
<1> HIDE DEF cells
<1>2. /\ list \in Seq(Rows) /\ Len(list) = Len(cells) + Len(further)
      /\ \A t \in 1 .. Len(list) : list[t] = IF t <= Len(cells) THEN cells[t] ELSE further[t - Len(cells)]
  <2>1. list \in Seq(Rows)
    BY <1>1
  <2> QED BY <1>1, <2>1, ConcatProperties
<1>3. Len(cells) \in Nat /\ Len(further) \in Nat
  BY <1>1
<1> HIDE DEF list, next
<1>4. ASSUME NEW t \in 1 .. Len(further) PROVE There(t, further[t])
  <2>1. next # 0
    <3>1. further # <<>>
      <4>1. further = <<>> => Len(further) = 0
        OBVIOUS
      <4> QED BY <1>3, <1>4, <4>1
    <3> QED BY <3>1 DEF next
  <2>2. IsLeaf(tree[next]) /\ next # q /\ next \in Ahead(tree, q)
    <3>1. next \in Ahead(tree, next)
      BY <1>1, FirstIsAhead
    <3>2. next # q /\ IsLeaf(tree[next])
      BY <2>1, <3>1, NeverBack DEF next
    <3> QED BY <1>1, <2>1, <3>1, <3>2, AheadOfNext DEF next
  <2>3. \/ t <= Len(tree[next].cells) /\ further[t] = tree[next].cells[t]
        \/ \E w \in Ahead(tree, next) \ {next} :
             IsLeaf(tree[w]) /\ \E i \in 1 .. Len(tree[w].cells) : tree[w].cells[i] = further[t]
    BY <2>1 DEF Passes, next
  <2>4. CASE t <= Len(tree[next].cells) /\ further[t] = tree[next].cells[t]
    <3>1. tree[next].cells \in Seq(Rows) /\ Len(tree[next].cells) \in Nat
      BY <1>1, <2>2, NodeFields
    <3>2. t \in 1 .. Len(tree[next].cells)
      BY <1>3, <2>4, <3>1
    <3> QED BY <2>2, <2>4, <3>2
  <2>5. ASSUME NEW w \in Ahead(tree, next), IsLeaf(tree[w]),
               \E i \in 1 .. Len(tree[w].cells) : tree[w].cells[i] = further[t]
        PROVE  There(t, further[t])
    <3>1. w \in Ahead(tree, q)
      BY <1>1, <2>1, AheadOfNext DEF next
    <3>2. w # q
      BY <2>1, NeverBack DEF next
    <3> QED BY <2>5, <3>1, <3>2
  <2> QED BY <2>3, <2>4, <2>5
<1>5. ASSUME NEW t \in 1 .. Len(list)
      PROVE  \/ t <= Len(cells) /\ list[t] = cells[t]
             \/ There(t, list[t])
  <2>1. CASE t <= Len(cells)
    BY <1>2, <2>1
  <2>2. CASE ~(t <= Len(cells))
    <3> DEFINE s == t - Len(cells)
    <3>1. s \in 1 .. Len(further)
      BY <1>2, <1>3, <2>2
    <3>2. list[t] = further[s]
      BY <1>2, <2>2
    <3> HIDE DEF s, There
    <3>3. There(s, further[s])
      BY <1>4, <3>1
    <3> QED BY <3>2, <3>3 DEF There
  <2> QED BY <2>1, <2>2
<1> QED BY <1>2, <1>5 DEF Passes, list, cells

\* What advance() passes from a leaf on.
LEMMA RowsFromPasses ==
  ASSUME pages \in [Pages -> Node], Chain(pages), NEW p \in Pages, IsLeaf(pages[p])
  PROVE  Passes(pages, p, RowsFrom(p))
<1> DEFINE N == FILE_PAGES_NUM
           S == [Pages -> Seq(Rows)]
           At(n, f, q) ==
             IF n = 0 \/ ~IsLeaf(pages[q]) THEN <<>>
             ELSE pages[q].cells \o (IF pages[q].next = 0 THEN <<>> ELSE f[n - 1][pages[q].next])
           Followed(n, f) == [q \in Pages |-> At(n, f, q)]
           from == CHOOSE f : f = [n \in 0 .. N |-> Followed(n, f)]
<1>1. N \in Nat /\ N # 0
  BY PagePointersAssumption DEF PagePointersAssumption
<1>2. \A q \in Pages : IsLeaf(pages[q]) => pages[q].cells \in Seq(Rows) /\ pages[q].next \in Pages
  BY NodeFields
<1>3. ASSUME NEW n \in 0 .. N, NEW f, n = 0 \/ f[n - 1] \in S PROVE Followed(n, f) \in S
  <2>1. ASSUME NEW q \in Pages PROVE At(n, f, q) \in Seq(Rows)
    <3>1. CASE n = 0 \/ ~IsLeaf(pages[q])
      BY <3>1, EmptySeq
    <3>2. CASE ~(n = 0 \/ ~IsLeaf(pages[q]))
      <4> DEFINE further == IF pages[q].next = 0 THEN <<>> ELSE f[n - 1][pages[q].next]
      <4>1. further \in Seq(Rows)
        BY <1>2, <1>3, <3>2, EmptySeq
      <4>2. pages[q].cells \in Seq(Rows)
        BY <1>2, <3>2
      <4>3. At(n, f, q) = pages[q].cells \o further
        BY <3>2
      <4> HIDE DEF further, At
      <4> QED BY <4>1, <4>2, <4>3
    <3> QED BY <3>1, <3>2
  <2> HIDE DEF At
  <2> QED BY <2>1
<1>4. \E f : f = [n \in 0 .. N |-> Followed(n, f)]
  <2> DEFINE step == [i \in 1 .. N |-> [g \in S |-> Followed(i, [j \in {i - 1} |-> g])]]
             first == Followed(0, <<>>)
  <2>1. first \in S
    <3>1. 0 \in 0 .. N
      BY <1>1
    <3> HIDE DEF Followed, S
    <3> QED BY <1>3, <3>1
  <2>2. step \in [1 .. N -> [S -> S]]
    <3>1. ASSUME NEW i \in 1 .. N, NEW g \in S PROVE Followed(i, [j \in {i - 1} |-> g]) \in S
      <4>1. [j \in {i - 1} |-> g][i - 1] = g /\ i \in 0 .. N
        OBVIOUS
      <4> HIDE DEF Followed, S
      <4> QED BY <1>3, <4>1
    <3> HIDE DEF Followed, S
    <3> QED BY <3>1
  <2>3. PICK f \in [0 .. N -> S] : f[0] = first /\ \A i \in 1 .. N : f[i] = step[i][f[i - 1]]
    <3>1. N \in Nat
      BY <1>1
    <3> HIDE DEF step, first, S, N
    <3> QED BY ONLY <2>1, <2>2, <3>1, Loop
  <2>4. ASSUME NEW n \in 0 .. N PROVE f[n] = Followed(n, f)
    <3>1. CASE n = 0
      BY <2>3, <3>1
    <3>2. CASE n # 0
      <4>1. n \in 1 .. N /\ n - 1 \in 0 .. N /\ f[n - 1] \in S
        BY <2>3, <3>2, <1>1
      <4>2. f[n] = Followed(n, [j \in {n - 1} |-> f[n - 1]])
        BY <2>3, <4>1
      <4>3. [j \in {n - 1} |-> f[n - 1]][n - 1] = f[n - 1]
        OBVIOUS
      <4> QED BY <4>2, <4>3
    <3> QED BY <3>1, <3>2
  <2>5. f = [n \in 0 .. N |-> Followed(n, f)]
    <3> HIDE DEF Followed
    <3> QED BY <2>3, <2>4
  <2> QED BY <2>5
<1>5. from = [n \in 0 .. N |-> Followed(n, from)]
  <2> HIDE DEF Followed
  <2> QED BY <1>4
<1>6. RowsFrom(p) = from[N][p]
  BY DEF RowsFrom
<1> HIDE DEF from
<1>7. \A n \in 0 .. N : \A q \in Pages : from[n][q] = At(n, from, q)
  <2>1. \A n \in 0 .. N : from[n] = Followed(n, from)
    <3> HIDE DEF Followed
    <3> QED BY <1>5
  <2> HIDE DEF At
  <2> QED BY <2>1
<1> HIDE DEF Followed
<1> DEFINE Right(n) == \A q \in Pages : IsLeaf(pages[q]) => Passes(pages, q, from[n][q])
           T == {n \in 0 .. N : Right(n)}
<1>8. 0 \in T
  <2>1. ASSUME NEW q \in Pages PROVE Passes(pages, q, from[0][q])
    <3>1. from[0][q] = <<>>
      BY <1>1, <1>7
    <3>2. <<>> \in Seq(Rows) /\ Len(<<>>) = 0
      BY EmptySeq
    <3> QED BY <3>1, <3>2 DEF Passes
  <2> QED BY <1>1, <2>1
<1>9. ASSUME NEW n \in 0 .. N, n \in T, n + 1 <= N PROVE n + 1 \in T
  <2>1. n + 1 \in 0 .. N /\ n + 1 # 0 /\ (n + 1) - 1 = n /\ Right(n)
    BY <1>1, <1>9
  <2>2. ASSUME NEW q \in Pages, IsLeaf(pages[q]) PROVE Passes(pages, q, from[n + 1][q])
    <3> DEFINE next == pages[q].next
               further == IF next = 0 THEN <<>> ELSE from[n][next]
    <3>1. from[n + 1][q] = pages[q].cells \o further
      BY <1>7, <2>1, <2>2
    <3>2. next = 0 => further = <<>> /\ further \in Seq(Rows)
      BY EmptySeq
    <3>3. next # 0 => further \in Seq(Rows) /\ Passes(pages, next, further)
      <4>1. SUFFICES ASSUME next # 0 PROVE Passes(pages, next, from[n][next])
        BY DEF Passes
      <4>2. next \in Ahead(pages, next) /\ next \in Pages
        BY <1>2, <2>2, FirstIsAhead
      <4>3. IsLeaf(pages[next])
        BY <2>2, <4>1, <4>2, NeverBack
      <4> QED BY <2>1, <4>2, <4>3
    <3> HIDE DEF further
    <3> QED BY <2>2, <3>1, <3>2, <3>3, PassesNext
  <2> QED BY <2>1, <2>2
<1> HIDE DEF T
<1>10. \A n \in 0 .. N : n \in T
  BY <1>1, <1>8, <1>9, InductionTo
<1>11. N \in 0 .. N
  BY <1>1
<1> QED BY <1>6, <1>10, <1>11 DEF T

\* The keys of a scan are to come.
LEMMA ScanToCome ==
  ASSUME pages \in [Pages -> Node], Chain(pages), NEW p \in Pages, IsLeaf(pages[p]),
         NEW cell \in Nat, NEW list, list = RowsFrom(p),
         NEW t \in 1 .. Len(SubSeq(list, cell + 1, Len(list)))
  PROVE  ToCome(pages, p, cell, SubSeq(list, cell + 1, Len(list))[t].key)
<1>1. Passes(pages, p, list)
  BY RowsFromPasses
<1>2. list \in Seq(Rows) /\ Len(list) \in Nat
  BY <1>1 DEF Passes
<1> DEFINE part == SubSeq(list, cell + 1, Len(list))
           s == cell + t
<1>3. s \in 1 .. Len(list) /\ s > cell /\ part[t] = list[s]
  BY <1>2
<1> HIDE DEF part, s
<1>4. part[t].key = list[s].key
  BY <1>3
<1>5. CASE s <= Len(pages[p].cells) /\ list[s] = pages[p].cells[s]
  <2>1. Len(pages[p].cells) \in Nat
    BY NodeFields
  <2>2. s \in 1 .. Len(pages[p].cells)
    BY <1>2, <1>3, <1>5, <2>1
  <2>3. p \in Ahead(pages, p)
    BY FirstIsAhead
  <2> QED BY <1>3, <1>4, <1>5, <2>2, <2>3 DEF ToCome, part
<1>6. CASE \E w \in Ahead(pages, p) \ {p} :
             IsLeaf(pages[w]) /\ \E i \in 1 .. Len(pages[w].cells) : pages[w].cells[i] = list[s]
  BY <1>4, <1>6 DEF ToCome, part
<1> QED BY <1>1, <1>3, <1>5, <1>6 DEF Passes

-----------------------------------------------------------------------------
(***************************************************************************)
(* The inductive invariant of a scan.                                      *)
(***************************************************************************)
InsertedKeys == {row.key : row \in BagToSet(rows (+) refused)}

\* Every row in a leaf was inserted.
KeysHeld ==
  stopped = "none" =>
    \A q \in Pages : IsLeaf(pages[q]) =>
      \A i \in 1 .. Len(pages[q].cells) : pages[q].cells[i].key \in InsertedKeys

NoneEmptyInv == stopped = "none" => NoneEmpty(pages)

\* What the caller has seen.
SeenInv ==
  /\ InsertedKeys \subseteq Keys /\ passed \subseteq InsertedKeys /\ due \subseteq Keys
  /\ under = <<>> \/ \E key \in InsertedKeys : under = <<key>>
  /\ scanning \in {"no", "value", "advance"} /\ rooted \in BOOLEAN

\* The cursor while there is a row or a node under it.
PlaceInv ==
  /\ cursor \in [page : Pages, end : BOOLEAN,
                 cell : (0 .. LEAF_NODE_MAX_CELLS) \cup (0 .. INTERNAL_NODE_MAX_CELLS)]
  /\ scanning # "no" => /\ ~cursor.end
                        /\ cursor.cell < LEAF_NODE_MAX_CELLS \/ cursor.cell < INTERNAL_NODE_MAX_CELLS
  /\ rooted /\ scanning # "no" => under # <<>>

\* It is on a page of the tree.
TreePlaceInv ==
  stopped = "none" => \E h : /\ Ranked(pages, num_pages, h, {})
                             /\ IsLeaf(pages[cursor.page]) \/ cursor.page \in DOMAIN h

\* The cells the scan has passed.
PassedCells == IF scanning = "value" THEN cursor.cell ELSE cursor.cell + 1

\* A scan whose leaf is still one reads its rows, and what it has not passed
\* is to come.
LeafPlaceInv ==
  stopped = "none" /\ rooted /\ scanning # "no" =>
    /\ IsLeaf(pages[cursor.page])
    /\ cursor.cell < Len(pages[cursor.page].cells) =>
         under = <<pages[cursor.page].cells[cursor.cell + 1].key>>
    /\ \A key \in due \ passed : ToCome(pages, cursor.page, PassedCells, key)

ScanInv == SeenInv /\ PlaceInv /\ TreePlaceInv /\ LeafPlaceInv /\ NothingMissed

LEMMA OneIsSome ==
  ASSUME NEW x
  PROVE  <<x>> # <<>>
<1>1. Len(<<x>>) = 1 /\ Len(<<>>) = 0
  OBVIOUS
<1> QED BY <1>1

LEMMA RowsHeld == IInv /\ RowsInv => KeysHeld
<1> SUFFICES ASSUME IInv, RowsInv, stopped = "none", NEW q \in Pages, IsLeaf(pages[q]),
                    NEW i \in 1 .. Len(pages[q].cells)
             PROVE  pages[q].cells[i].key \in InsertedKeys
  BY DEF KeysHeld
<1>1. q \in Leaves
  BY LeafPages
<1>2. pages[q].cells \in Seq(Rows)
  BY DEF IInv, InShape, Fits
<1>3. AsInserted(pages[q].cells[i]) \in BagToSet(rows (+) refused)
  BY <1>1, <1>2, CountedAsKept DEF RowsKept
<1>4. AsInserted(pages[q].cells[i]).key = pages[q].cells[i].key
  BY <1>2, KeyUnread
<1> QED BY <1>3, <1>4 DEF InsertedKeys

\* An insertion adds its key to those inserted.
LEMMA KeyAdded ==
  ASSUME IInv, NEW key \in Keys, NEW text \in Texts, Insert(key, text)
  PROVE  \A k : k \in InsertedKeys' <=> k \in InsertedKeys \/ k = key
<1>2. PICK row, r : row \in Rows /\ row.key = key /\ Returned(r, row)
  BY RowToInsert
<1>1. Returned(r, row)
  BY <1>2
<1>3. /\ rows' = IF Failed(r) THEN rows ELSE rows (+) SetToBag({row})
      /\ refused' = IF Failed(r) THEN refused (+) SetToBag({row}) ELSE refused
  BY <1>1 DEF Returned
<1>4. IsABag(rows) /\ IsABag(refused)
  BY DEF IInv, TypeOK
<1>5. \A e : e \in BagToSet(rows') \cup BagToSet(refused') <=>
             e \in BagToSet(rows) \cup BagToSet(refused) \/ e = row
  <2>1. /\ BagToSet(rows (+) SetToBag({row})) = BagToSet(rows) \cup {row}
        /\ BagToSet(refused (+) SetToBag({row})) = BagToSet(refused) \cup {row}
    BY <1>4, BagGrown
  <2>2. CASE Failed(r)
    <3>1. rows' = rows /\ BagToSet(refused') = BagToSet(refused) \cup {row}
      BY <1>3, <2>1, <2>2
    <3> QED BY <3>1
  <2>3. CASE ~Failed(r)
    <3>1. refused' = refused /\ BagToSet(rows') = BagToSet(rows) \cup {row}
      BY <1>3, <2>1, <2>3
    <3> QED BY <3>1
  <2> QED BY <2>2, <2>3
<1>6. IsABag(rows') /\ IsABag(refused')
  BY <1>3, <1>4, BagGrown
<1>7. \A e : e \in BagToSet(rows (+) refused)' <=> e \in BagToSet(rows (+) refused) \/ e = row
  <2>1. \A e : e \in BagToSet(rows (+) refused) <=> e \in BagToSet(rows) \/ e \in BagToSet(refused)
    BY <1>4, BagsAdded
  <2>2. \A e : e \in BagToSet(rows' (+) refused') <=> e \in BagToSet(rows') \/ e \in BagToSet(refused')
    BY <1>6, BagsAdded
  <2> QED BY <1>5, <2>1, <2>2
<1> QED BY <1>2, <1>7 DEF InsertedKeys

LEMMA InitNoneEmpty == Init => NoneEmptyInv
<1> SUFFICES ASSUME Init, NEW q \in Pages \ {root_page_num} PROVE ~IsLeaf(pages[q])
  BY DEF NoneEmptyInv, NoneEmpty
<1> DEFINE leaf == [initialize_leaf_node(ZeroPage) EXCEPT !.is_root = TRUE]
<1>1. pages[q] = ZeroPage
  BY DEF Init
<1> QED BY <1>1 DEF ZeroPage, IsLeaf

\* What an insertion that goes on makes of the leaves.
LEMMA InsertedLeaves ==
  ASSUME IInv, NEW key \in Keys, NEW text \in Texts, Insert(key, text), stopped' = "none"
  PROVE  /\ pages \in [Pages -> Node] /\ pages' \in [Pages -> Node]
         /\ InShape(pages) /\ InShape(pages')
         /\ \E row \in Rows, p \in Pages : \E c \in 0 .. Len(pages[p].cells), all \in Seq(Rows) :
              /\ IsLeaf(pages[p]) /\ all = InsertAt(pages[p].cells, c + 1, row) /\ all # <<>>
              /\ LeavesMade(pages, pages', p, all)
<1> DEFINE o == Begin(pages, num_pages)
<1>1. PICK row, r, p, c :
        /\ row \in Rows /\ o.pages = pages /\ ~Halted(r)
        /\ Target(o, p, c, row) /\ Outcome(o, p, With(o, p, c, row), r)
        /\ Returned(r, row)
  BY GoesOn
<1> HIDE DEF o
<1>2. pages' = r.pages /\ Good(r) /\ InShape(r.pages)
  BY <1>1 DEF Returned, Outcome
<1>3. pages' \in [Pages -> Node] /\ InShape(pages')
  BY <1>2, OperationFields DEF Good
<1>4. pages \in [Pages -> Node] /\ InShape(pages)
  BY DEF IInv, TypeOK, Node
<1> DEFINE all == With(o, p, c, row)
<1>5. all \in Seq(Rows) /\ Len(all) = Len(pages[p].cells) + 1 /\ Len(pages[p].cells) \in Nat
  BY <1>1, RowPlaced
<1>6. all = InsertAt(pages[p].cells, c + 1, row)
  BY <1>1 DEF With
<1>7. LeavesMade(pages, pages', p, all)
  BY <1>1, <1>2, OutcomeLeaves
<1>8. p \in Pages /\ IsLeaf(pages[p]) /\ c \in 0 .. Len(pages[p].cells)
  BY <1>1 DEF Target
<1> HIDE DEF all
<1>9. all # <<>>
  <2>1. all = <<>> => Len(all) = 0
    OBVIOUS
  <2> QED BY <1>5, <2>1
<1> QED BY <1>1, <1>3, <1>4, <1>5, <1>6, <1>7, <1>8, <1>9

LEMMA NextNoneEmpty == IInv /\ NoneEmptyInv /\ [Next]_vars => NoneEmptyInv'
<1> SUFFICES ASSUME IInv, NoneEmptyInv, [Next]_vars, stopped' = "none" PROVE NoneEmpty(pages')
  BY DEF NoneEmptyInv, NoneEmpty, IsLeaf
<1>1. CASE Next
  <2>1. PICK key \in Keys, text \in Texts : Insert(key, text)
    BY <1>1 DEF Next
  <2>2. NoneEmpty(pages)
    BY <2>1 DEF Insert, InsertWith, NoneEmptyInv
  <2>3. PICK row \in Rows, p \in Pages :
          \E c \in 0 .. Len(pages[p].cells), all \in Seq(Rows) :
            /\ IsLeaf(pages[p]) /\ all = InsertAt(pages[p].cells, c + 1, row) /\ all # <<>>
            /\ LeavesMade(pages, pages', p, all)
    BY <2>1, InsertedLeaves
  <2>4. InShape(pages')
    BY <2>1, InsertedLeaves
  <2>5. PICK all \in Seq(Rows) : IsLeaf(pages[p]) /\ all # <<>> /\ LeavesMade(pages, pages', p, all)
    BY <2>3
  <2> DEFINE b == pages'
  <2> HIDE DEF b
  <2> QED BY <2>2, <2>4, <2>5, StillNoneEmpty
<1>2. CASE UNCHANGED vars
  BY <1>2 DEF vars, NoneEmptyInv
<1> QED BY <1>1, <1>2

\* Where the cursor's page stays in the tree, and a leaf if it was not the root.
LEMMA PageStays ==
  ASSUME IInv, NEW key \in Keys, NEW text \in Texts, Insert(key, text), stopped' = "none",
         TreePlaceInv, cursor.page \in Pages, cursor' = cursor
  PROVE  TreePlaceInv'
<1>1. stopped = "none"
  BY DEF Insert, InsertWith
<1>2. PICK h : /\ Ranked(pages, num_pages, h, {})
               /\ IsLeaf(pages[cursor.page]) \/ cursor.page \in DOMAIN h
  BY <1>1 DEF TreePlaceInv
<1>3. PICK r : \E row \in Rows : Returned(r, row) /\ GoesOnRanked(h, r)
  BY <1>2, InsertedTree
<1>4. /\ pages' = r.pages /\ num_pages' = r.num_pages
      /\ stopped' = IF r.fault = "out_of_range" THEN "none" ELSE r.fault
  BY <1>3, Zenon DEF Returned
<1>5. ~Halted(r)
  BY <1>4, Zenon DEF Halted
<1>6. PICK g : Ranked(pages', num_pages', g, {}) /\ DOMAIN h \subseteq DOMAIN g
  BY <1>3, <1>4, <1>5 DEF GoesOnRanked
<1>7. IsLeaf(pages'[cursor.page]) \/ cursor.page \in DOMAIN g
  <2>1. CASE cursor.page \in DOMAIN h
    BY <1>6, <2>1
  <2>2. CASE cursor.page = root_page_num
    BY <1>6, <2>2 DEF Ranked
  <2>3. CASE IsLeaf(pages[cursor.page]) /\ cursor.page # root_page_num
    <3>1. PICK row \in Rows, p \in Pages :
            \E c \in 0 .. Len(pages[p].cells), all \in Seq(Rows) :
              /\ IsLeaf(pages[p]) /\ all = InsertAt(pages[p].cells, c + 1, row) /\ all # <<>>
              /\ LeavesMade(pages, pages', p, all)
      BY InsertedLeaves
    <3>2. PICK all : IsLeaf(pages[p]) /\ LeavesMade(pages, pages', p, all)
      BY <3>1
    <3>3. IsLeaf(pages'[cursor.page])
      BY <2>3, <3>2, LeafStays
    <3> QED BY <3>3
  <2> QED BY <1>2, <2>1, <2>2, <2>3
<1> QED BY <1>6, <1>7 DEF TreePlaceInv, IsLeaf

LEMMA InsertScan ==
  ASSUME IInv, ScanInv, KeysHeld', NEW key \in Keys, NEW text \in Texts, InsertRow(key, text)
  PROVE  ScanInv'
<1>1. /\ Insert(key, text) /\ stopped = "none"
      /\ cursor' = cursor /\ scanning' = scanning /\ passed' = passed /\ due' = due
      /\ scanning = "no" \/ stopped' # "none" => under' = under /\ rooted' = rooted
      /\ ~(scanning = "no" \/ stopped' # "none") =>
           /\ under' = UnderAfter(pages'[cursor.page])
           /\ rooted' = (rooted /\ IsLeaf(pages'[cursor.page]))
  BY DEF InsertRow, Insert, InsertWith
<1>2. \A k : k \in InsertedKeys' <=> k \in InsertedKeys \/ k = key
  BY <1>1, KeyAdded
<1>3. cursor \in [page : Pages, end : BOOLEAN,
                  cell : (0 .. LEAF_NODE_MAX_CELLS) \cup (0 .. INTERNAL_NODE_MAX_CELLS)]
  BY DEF ScanInv, PlaceInv
<1>4. cursor.page \in Pages /\ cursor.cell \in Nat
  <2>1. cursor.page \in Pages /\ cursor.cell \in (0 .. LEAF_NODE_MAX_CELLS) \cup (0 .. INTERNAL_NODE_MAX_CELLS)
    BY <1>3
  <2> QED BY <2>1, SplitCounts DEF INTERNAL_NODE_MAX_CELLS
<1>5. CASE scanning = "no" \/ stopped' # "none"
  <2>1. SeenInv'
    BY <1>1, <1>2, <1>5 DEF ScanInv, SeenInv
  <2>2. PlaceInv'
    BY <1>1, <1>5 DEF ScanInv, PlaceInv
  <2>3. TreePlaceInv'
    BY <1>1, <1>4, <1>5, PageStays DEF ScanInv, TreePlaceInv
  <2>4. LeafPlaceInv'
    BY <1>1, <1>5 DEF LeafPlaceInv
  <2>5. NothingMissed'
    BY <1>1, <1>5 DEF ScanInv, NothingMissed, Ended
  <2> QED BY <2>1, <2>2, <2>3, <2>4, <2>5 DEF ScanInv
<1>6. CASE scanning # "no" /\ stopped' = "none"
  <2> DEFINE node == pages'[cursor.page]
             cell == cursor.cell
  <2>1. under' = UnderAfter(node) /\ rooted' = (rooted /\ IsLeaf(node))
    BY <1>1, <1>6
  <2>2. pages' \in [Pages -> Node] /\ pages \in [Pages -> Node]
    BY <1>1, <1>6, InsertedLeaves
  <2>3. IsLeaf(node) => Len(node.cells) \in Nat
    BY <1>4, <2>2, NodeFields
  <2> HIDE DEF node
  <2>4. IsLeaf(node) /\ cell < Len(node.cells) =>
          /\ under' = <<node.cells[cell + 1].key>>
          /\ node.cells[cell + 1].key \in InsertedKeys'
    <3>1. SUFFICES ASSUME IsLeaf(node), cell < Len(node.cells)
                   PROVE  /\ under' = <<node.cells[cell + 1].key>>
                          /\ node.cells[cell + 1].key \in InsertedKeys'
      OBVIOUS
    <3>2. cell + 1 \in 1 .. Len(node.cells)
      BY <1>4, <2>3, <3>1
    <3>3. node.cells[cell + 1].key \in InsertedKeys'
      BY <1>4, <1>6, <3>1, <3>2 DEF KeysHeld, IsLeaf, node
    <3> QED BY <2>1, <3>1, <3>3 DEF UnderAfter, KeyAt
  <2>5. ~IsLeaf(node) => under' = <<>>
    BY <2>1 DEF UnderAfter
  <2>6. IsLeaf(node) /\ ~(cell < Len(node.cells)) => under' = under
    BY <2>1 DEF UnderAfter
  <2>7. under' = <<>> \/ \E k \in InsertedKeys' : under' = <<k>>
    BY <1>2, <2>4, <2>5, <2>6 DEF ScanInv, SeenInv
  <2>8. SeenInv'
    BY <1>1, <1>2, <2>1, <2>7 DEF ScanInv, SeenInv
  <2>9. rooted' => rooted /\ IsLeaf(node)
    BY <2>1
  <2>10. rooted' => under' # <<>>
    <3>1. rooted => under # <<>>
      BY <1>6 DEF ScanInv, PlaceInv
    <3>2. IsLeaf(node) /\ cell < Len(node.cells) => under' # <<>>
      BY <2>4, OneIsSome
    <3> HIDE DEF cell
    <3> QED BY <2>6, <2>9, <3>1, <3>2
  <2>11. PlaceInv'
    BY <1>1, <2>10 DEF ScanInv, PlaceInv
  <2>12. TreePlaceInv'
    BY <1>1, <1>4, <1>6, PageStays DEF ScanInv
  <2>13. ASSUME rooted' PROVE \A k \in due \ passed : ToCome(pages', cursor.page, PassedCells, k)
    <3>1. /\ IsLeaf(pages[cursor.page])
          /\ \A k \in due \ passed : ToCome(pages, cursor.page, PassedCells, k)
      BY <1>1, <1>6, <2>9, <2>13 DEF ScanInv, LeafPlaceInv
    <3>2. PassedCells \in Nat
      BY <1>4 DEF PassedCells
    <3>3. PICK row \in Rows, p \in Pages :
            \E c \in 0 .. Len(pages[p].cells), all \in Seq(Rows) :
              /\ IsLeaf(pages[p]) /\ all = InsertAt(pages[p].cells, c + 1, row) /\ all # <<>>
              /\ LeavesMade(pages, pages', p, all)
      BY <1>1, <1>6, InsertedLeaves
    <3>4. PICK c \in 0 .. Len(pages[p].cells), all \in Seq(Rows) :
              /\ IsLeaf(pages[p]) /\ all = InsertAt(pages[p].cells, c + 1, row)
              /\ LeavesMade(pages, pages', p, all)
      BY <3>3
    <3>5. InShape(pages) /\ InShape(pages')
      BY <1>1, <1>6, InsertedLeaves
    <3>6. due \subseteq Nat
      BY TableAssumption DEF ScanInv, SeenInv, TableAssumption
    <3>7. IsLeaf(pages'[cursor.page])
      BY <2>9, <2>13 DEF node
    <3> SUFFICES ASSUME NEW k \in due \ passed PROVE ToCome(pages', cursor.page, PassedCells, k)
      OBVIOUS
    <3> DEFINE page == cursor.page
               least == PassedCells
               b == pages'
    <3>8. /\ b \in [Pages -> Node] /\ InShape(b) /\ LeavesMade(pages, b, p, all) /\ IsLeaf(b[page])
          /\ page \in Pages /\ IsLeaf(pages[page]) /\ least \in Nat /\ k \in Nat
          /\ ToCome(pages, page, least, k)
      BY <1>4, <2>2, <3>1, <3>2, <3>4, <3>5, <3>6, <3>7
    <3> HIDE DEF page, least, b
    <3>9. ToCome(b, page, least, k)
      BY ONLY <2>2, <3>4, <3>5, <3>8, StillToCome
    <3> QED BY <3>9 DEF page, least, b
  <2>14. LeafPlaceInv'
    <3>1. SUFFICES ASSUME rooted'
                   PROVE  /\ IsLeaf(node)
                          /\ cell < Len(node.cells) => under' = <<node.cells[cell + 1].key>>
                          /\ \A k \in due \ passed : ToCome(pages', cursor.page, PassedCells, k)
      BY <1>1 DEF LeafPlaceInv, IsLeaf, ToCome, Ahead, Linked, PassedCells, node
    <3> QED BY <2>4, <2>9, <2>13, <3>1
  <2>15. NothingMissed'
    BY <1>1, <1>6 DEF NothingMissed, Ended
  <2> QED BY <2>8, <2>11, <2>12, <2>14, <2>15 DEF ScanInv
<1> QED BY <1>5, <1>6

\* Where table_start() puts the cursor, and what there is to scan from it.
LEMMA CursorStarted ==
  ASSUME IInv, ChainInv, ShapeInv, NoneEmptyInv, KeysHeld, stopped = "none",
         NEW at, at = table_find(pages, 0)
  PROVE  /\ at.page \in Pages /\ IsLeaf(pages[at.page]) /\ at.cell \in 0 .. LEAF_NODE_MAX_CELLS
         /\ pages[root_page_num].cells # <<>> =>
              at.cell < Len(pages[at.page].cells) /\ at.cell < LEAF_NODE_MAX_CELLS
         /\ pages[root_page_num].cells = <<>> => ToSet(Scan) = {}
         /\ \A row \in ToSet(Scan) : ToCome(pages, at.page, at.cell, row.key)
<1> DEFINE o == Begin(pages, num_pages)
           cells == pages[at.page].cells
           list == RowsFrom(at.page)
<1>1. /\ pages \in [Pages -> Node] /\ num_pages \in 0 .. FILE_PAGES_NUM
      /\ Shaped(pages, num_pages) /\ InShape(pages)
  BY DEF IInv, TypeOK, Node
<1>2. Good(o) /\ o.pages = pages /\ o.num_pages = num_pages
  BY <1>1, Begun
<1>3. PICK h : Ranked(o.pages, o.num_pages, h, {})
  BY <1>2 DEF ShapeInv
<1> HIDE DEF o
<1>4. at.page \in Pages /\ IsLeaf(pages[at.page])
  <2>1. 0 \in Nat /\ at = table_find(o.pages, 0)
    BY <1>2
  <2>2. at.page \in Pages /\ IsLeaf(o.pages[at.page])
    BY <1>2, <1>3, <2>1, CursorRanked
  <2> QED BY <1>2, <2>2
<1>5. at.cell = CellSearch(cells, 0)
  <2>1. at.page # INVALID_PAGE_NUM
    BY <1>4, PageNumbers
  <2> QED BY <2>1 DEF table_find
<1>6. cells \in Seq(Rows) /\ InOrder(cells) /\ Len(cells) \in Nat /\ Len(cells) <= LEAF_NODE_MAX_CELLS
  <2>1. Fits(cells)
    BY <1>1, <1>4 DEF InShape
  <2> HIDE DEF cells
  <2> QED BY <2>1 DEF Fits
<1>7. pages[root_page_num].cells # <<>> => cells # <<>>
  BY <1>4 DEF NoneEmptyInv, NoneEmpty
<1> HIDE DEF cells
<1>8. at.cell \in 0 .. Len(cells)
  BY <1>5, <1>6, CellFound
<1>9. pages[root_page_num].cells # <<>> => at.cell \in 0 .. Len(cells) - 1
  BY <1>5, <1>6, <1>7, FirstCellFound
<1>10. LEAF_NODE_MAX_CELLS \in Nat
  BY SplitCounts
<1>11. Scan = IF pages[root_page_num].cells = <<>> THEN <<>> ELSE SubSeq(list, at.cell + 1, Len(list))
  BY DEF Scan
<1>12. ToSet(<<>>) = {}
  BY DEF ToSet
<1>13. ASSUME NEW row \in ToSet(Scan) PROVE ToCome(pages, at.page, at.cell, row.key)
  <2>1. Scan = SubSeq(list, at.cell + 1, Len(list))
    BY <1>11, <1>12, <1>13
  <2>2. Chain(pages) /\ at.cell \in Nat
    BY <1>6, <1>8 DEF ChainInv
  <2> DEFINE part == SubSeq(list, at.cell + 1, Len(list))
  <2>3. Passes(pages, at.page, list)
    BY <1>1, <1>4, <2>2, RowsFromPasses
  <2>4. list \in Seq(Rows)
    BY <2>3 DEF Passes
  <2>5. DOMAIN part = 1 .. Len(part)
    BY <2>2, <2>4
  <2>6. PICK t \in 1 .. Len(part) : row = part[t]
    BY <2>1, <2>5 DEF ToSet
  <2> DEFINE p == at.page
             cell == at.cell
  <2>7. p \in Pages /\ IsLeaf(pages[p]) /\ cell \in Nat /\ list = RowsFrom(p) /\ t \in 1 .. Len(SubSeq(list, cell + 1, Len(list)))
    BY <1>4, <2>2, <2>6
  <2> HIDE DEF p, cell, list
  <2>8. ToCome(pages, p, cell, SubSeq(list, cell + 1, Len(list))[t].key)
    BY ONLY <1>1, <2>2, <2>7, ScanToCome
  <2> QED BY <2>6, <2>8 DEF p, cell
<1>14. at.cell \in 0 .. LEAF_NODE_MAX_CELLS
  BY ONLY <1>6, <1>8, <1>10
<1>15. pages[root_page_num].cells # <<>> => at.cell < Len(cells) /\ at.cell < LEAF_NODE_MAX_CELLS
  <2> DEFINE filled == pages[root_page_num].cells # <<>>
  <2>1. filled => at.cell \in 0 .. Len(cells) - 1
    BY <1>9
  <2> HIDE DEF filled
  <2>2. filled => at.cell < Len(cells) /\ at.cell < LEAF_NODE_MAX_CELLS
    BY ONLY <1>6, <1>10, <2>1
  <2> QED BY <2>2 DEF filled
<1>16. pages[root_page_num].cells = <<>> => ToSet(Scan) = {}
  BY <1>11, <1>12
<1>17. \A row \in ToSet(Scan) : ToCome(pages, at.page, at.cell, row.key)
  BY ONLY <1>13
<1> QED BY <1>4, <1>14, <1>15, <1>16, <1>17, Zenon DEF cells

\* A key to come is one inserted.
LEMMA ComeInserted ==
  ASSUME KeysHeld, stopped = "none", NEW p, NEW cell, NEW key, ToCome(pages, p, cell, key)
  PROVE  key \in InsertedKeys
BY DEF ToCome, KeysHeld, Ahead

LEMMA StartScan ==
  ASSUME IInv, ChainInv, ShapeInv, NoneEmptyInv, KeysHeld, ScanInv, Start
  PROVE  ScanInv'
<1> DEFINE at == table_find(pages, 0)
           empty == pages[root_page_num].cells = <<>>
<1>1. /\ stopped = "none" /\ cursor' = [page |-> at.page, cell |-> at.cell, end |-> empty]
      /\ scanning' = (IF cursor'.end THEN "no" ELSE "value")
      /\ under' = KeyAt(pages[cursor'.page], cursor'.cell)
      /\ passed' = {} /\ due' = {row.key : row \in ToSet(Scan)} /\ rooted' = TRUE
      /\ pages' = pages /\ num_pages' = num_pages /\ stopped' = stopped
      /\ rows' = rows /\ refused' = refused
  BY DEF Start, table_start, vars
<1>2. at = table_find(pages, 0) /\ empty \in BOOLEAN
  OBVIOUS
<1>3. empty <=> pages[root_page_num].cells = <<>>
  OBVIOUS
<1> HIDE DEF at, empty
<1>4. /\ at.page \in Pages /\ IsLeaf(pages[at.page]) /\ at.cell \in 0 .. LEAF_NODE_MAX_CELLS
      /\ ~empty => at.cell < Len(pages[at.page].cells) /\ at.cell < LEAF_NODE_MAX_CELLS
      /\ empty => ToSet(Scan) = {}
      /\ \A row \in ToSet(Scan) : ToCome(pages, at.page, at.cell, row.key)
  BY <1>1, <1>2, <1>3, CursorStarted
<1>5. cursor'.page = at.page /\ cursor'.cell = at.cell /\ cursor'.end = empty
  BY <1>1
<1>6. \A key \in due' : ToCome(pages, at.page, at.cell, key) /\ key \in InsertedKeys
  <2>1. \A key \in due' : ToCome(pages, at.page, at.cell, key)
    BY <1>1, <1>4
  <2> QED BY <1>1, <2>1, ComeInserted
<1>7. InsertedKeys' = InsertedKeys
  BY <1>1 DEF InsertedKeys
<1> DEFINE node == pages[at.page]
           cell == at.cell
<1>8. cell < Len(node.cells) =>
        under' = <<node.cells[cell + 1].key>> /\ node.cells[cell + 1].key \in InsertedKeys
  <2>1. SUFFICES ASSUME cell < Len(node.cells)
                 PROVE  under' = <<node.cells[cell + 1].key>> /\ node.cells[cell + 1].key \in InsertedKeys
    OBVIOUS
  <2>2. node.cells \in Seq(Rows) /\ Len(node.cells) \in Nat
    BY <1>4, NodeFields DEF IInv, TypeOK, Node
  <2>3. cell + 1 \in 1 .. Len(node.cells)
    BY <1>4, <2>1, <2>2
  <2> QED BY <1>1, <1>4, <1>5, <2>1, <2>3 DEF KeysHeld, KeyAt
<1>9. ~(cell < Len(node.cells)) => under' = <<>>
  BY <1>1, <1>5 DEF KeyAt
<1>10. SeenInv'
  <2>1. InsertedKeys \subseteq Keys
    BY DEF ScanInv, SeenInv
  <2>2. under' = <<>> \/ \E key \in InsertedKeys : under' = <<key>>
    BY <1>8, <1>9
  <2> QED BY <1>1, <1>6, <1>7, <2>1, <2>2 DEF SeenInv
<1>11. PlaceInv'
  <2>1. cursor' \in [page : Pages, end : BOOLEAN,
                     cell : (0 .. LEAF_NODE_MAX_CELLS) \cup (0 .. INTERNAL_NODE_MAX_CELLS)]
    BY <1>1, <1>2, <1>4
  <2>2. scanning' # "no" => ~empty
    BY <1>1, <1>5
  <2>3. ~empty => under' # <<>>
    BY <1>4, <1>8, OneIsSome
  <2> QED BY <1>4, <1>5, <2>1, <2>2, <2>3 DEF PlaceInv
<1>12. TreePlaceInv'
  BY <1>1, <1>4, <1>5 DEF TreePlaceInv, ShapeInv, IsLeaf
<1>13. LeafPlaceInv'
  <2>1. pages' = pages
    BY <1>1
  <2>2. SUFFICES ASSUME scanning' # "no"
                 PROVE  /\ IsLeaf(pages[cursor'.page])
                        /\ cursor'.cell < Len(pages[cursor'.page].cells) =>
                             under' = <<pages[cursor'.page].cells[cursor'.cell + 1].key>>
                        /\ \A key \in due' \ passed' : ToCome(pages, cursor'.page, PassedCells', key)
    BY <2>1 DEF LeafPlaceInv, IsLeaf, ToCome, Ahead, Linked
  <2>3. PassedCells' = at.cell
    BY <1>1, <1>5, <2>2 DEF PassedCells
  <2> QED BY <1>4, <1>5, <1>6, <1>8, <2>3
<1>14. NothingMissed'
  <2>1. SUFFICES ASSUME Ended' PROVE due' \subseteq passed'
    BY DEF NothingMissed
  <2>2. empty
    BY <1>5, <2>1 DEF Ended
  <2> QED BY <1>1, <1>4, <2>2
<1> QED BY <1>10, <1>11, <1>12, <1>13, <1>14 DEF ScanInv

LEMMA ValueScan ==
  ASSUME ScanInv, value
  PROVE  ScanInv'
<1>1. /\ stopped = "none" /\ scanning = "value" /\ scanning' = "advance"
      /\ passed' = passed \cup ToSet(under)
      /\ cursor' = cursor /\ under' = under /\ due' = due /\ rooted' = rooted
      /\ pages' = pages /\ num_pages' = num_pages /\ stopped' = stopped
      /\ rows' = rows /\ refused' = refused
  BY DEF value, vars
<1>2. ToSet(<<>>) = {} /\ \A key : ToSet(<<key>>) = {key}
  <2>1. \A key : DOMAIN <<key>> = {1} /\ <<key>>[1] = key
    OBVIOUS
  <2> QED BY <2>1 DEF ToSet
<1>3. InsertedKeys' = InsertedKeys
  BY <1>1 DEF InsertedKeys
<1>4. SeenInv'
  BY <1>1, <1>2, <1>3 DEF ScanInv, SeenInv
<1>5. PlaceInv'
  BY <1>1 DEF ScanInv, PlaceInv
<1>6. TreePlaceInv'
  BY <1>1 DEF ScanInv, TreePlaceInv
<1>7. LeafPlaceInv'
  <2>1. SUFFICES ASSUME rooted
                 PROVE  /\ IsLeaf(pages[cursor.page])
                        /\ cursor.cell < Len(pages[cursor.page].cells) =>
                             under = <<pages[cursor.page].cells[cursor.cell + 1].key>>
                        /\ \A key \in due \ passed' : ToCome(pages, cursor.page, cursor.cell + 1, key)
    BY <1>1 DEF LeafPlaceInv, IsLeaf, ToCome, Ahead, Linked, PassedCells
  <2>2. /\ IsLeaf(pages[cursor.page])
        /\ cursor.cell < Len(pages[cursor.page].cells) =>
             under = <<pages[cursor.page].cells[cursor.cell + 1].key>>
        /\ \A key \in due \ passed : ToCome(pages, cursor.page, cursor.cell, key)
    BY <1>1, <2>1 DEF ScanInv, LeafPlaceInv, PassedCells
  <2>3. cursor.cell \in Nat
    <3>1. cursor.cell \in (0 .. LEAF_NODE_MAX_CELLS) \cup (0 .. INTERNAL_NODE_MAX_CELLS)
      BY DEF ScanInv, PlaceInv
    <3> QED BY <3>1, SplitCounts DEF INTERNAL_NODE_MAX_CELLS
  <2>4. ASSUME NEW key \in due \ passed' PROVE ToCome(pages, cursor.page, cursor.cell + 1, key)
    <3> DEFINE page == cursor.page
               cell == cursor.cell
    <3>1. ToCome(pages, page, cell, key)
      BY <1>1, <2>2, <2>4
    <3>2. PICK q \in Ahead(pages, page) :
            /\ IsLeaf(pages[q])
            /\ \E i \in 1 .. Len(pages[q].cells) : pages[q].cells[i].key = key /\ (q = page => i > cell)
      BY <3>1 DEF ToCome
    <3>3. PICK i \in 1 .. Len(pages[q].cells) : pages[q].cells[i].key = key /\ (q = page => i > cell)
      BY <3>2
    <3>4. q = page => i # cell + 1
      <4>1. SUFFICES ASSUME q = page, i = cell + 1 PROVE FALSE
        OBVIOUS
      <4>2. cell < Len(pages[page].cells)
        BY <2>3, <3>3, <4>1
      <4>3. under = <<key>>
        BY <2>2, <3>3, <4>1, <4>2
      <4>4. key \in passed'
        BY <1>1, <1>2, <4>3
      <4> QED BY <2>4, <4>4
    <3>5. q = page => i > cell + 1
      BY <2>3, <3>3, <3>4
    <3> QED BY <3>2, <3>3, <3>5 DEF ToCome
  <2> QED BY <2>2, <2>4
<1>8. NothingMissed'
  BY <1>1 DEF NothingMissed, Ended
<1> QED BY <1>4, <1>5, <1>6, <1>7, <1>8 DEF ScanInv

\* Where advance() puts the cursor: on the next cell, past the last row, or
\* at the first cell of another page.
LEMMA CursorAdvanced ==
  ASSUME IInv, ChainInv, ScanInv, stopped = "none", scanning # "no",
         NEW node, node = pages[cursor.page], NEW new, new = NextPosition(node)
  PROVE  /\ node \in Node /\ Len(node.cells) \in Nat /\ cursor.page \in Pages /\ cursor.cell \in Nat
         /\ \/ /\ cursor.cell + 1 < Len(node.cells)
               /\ new.page = cursor.page /\ new.cell = cursor.cell + 1 /\ ~new.end
               /\ new.cell < LEAF_NODE_MAX_CELLS \/ new.cell < INTERNAL_NODE_MAX_CELLS
            \/ /\ ~(cursor.cell + 1 < Len(node.cells)) /\ next_leaf(node) = 0
               /\ new.page = cursor.page /\ new.cell = cursor.cell + 1 /\ new.end
            \/ /\ ~(cursor.cell + 1 < Len(node.cells)) /\ next_leaf(node) # 0
               /\ new.page = next_leaf(node) /\ new.cell = 0 /\ ~new.end
               /\ new.cell < LEAF_NODE_MAX_CELLS
         /\ new \in [page : Pages, end : BOOLEAN,
                     cell : (0 .. LEAF_NODE_MAX_CELLS) \cup (0 .. INTERNAL_NODE_MAX_CELLS)]
         /\ \E h : /\ Ranked(pages, num_pages, h, {})
                   /\ IsLeaf(pages[new.page]) \/ new.page \in DOMAIN h
<1> DEFINE page == cursor.page
           cell == cursor.cell
           next == next_leaf(node)
           n == Len(node.cells)
<1>1. /\ cursor \in [page : Pages, end : BOOLEAN,
                     cell : (0 .. LEAF_NODE_MAX_CELLS) \cup (0 .. INTERNAL_NODE_MAX_CELLS)]
      /\ ~cursor.end
      /\ cursor.cell < LEAF_NODE_MAX_CELLS \/ cursor.cell < INTERNAL_NODE_MAX_CELLS
  BY DEF ScanInv, PlaceInv
<1>2. /\ LEAF_NODE_MAX_CELLS \in Nat /\ LEAF_NODE_MAX_CELLS > 0
      /\ INTERNAL_NODE_MAX_CELLS \in Nat /\ INTERNAL_NODE_MAX_CELLS > 0
  BY SplitCounts DEF INTERNAL_NODE_MAX_CELLS
<1>3. /\ page \in Pages /\ cursor.end = FALSE
      /\ cell \in Nat /\ cell + 1 \in (0 .. LEAF_NODE_MAX_CELLS) \cup (0 .. INTERNAL_NODE_MAX_CELLS)
  <2>1. page \in Pages /\ cursor.end = FALSE /\ cell \in (0 .. LEAF_NODE_MAX_CELLS) \cup (0 .. INTERNAL_NODE_MAX_CELLS)
    BY <1>1
  <2> QED BY <1>1, <1>2, <2>1
<1>4. pages \in [Pages -> Node] /\ InShape(pages)
  BY DEF IInv, TypeOK, Node
<1>5. node \in Node /\ n \in Nat
  <2>1. node \in Node
    BY <1>3, <1>4
  <2>2. node.cells \in Seq(Rows) \/ node.cells \in Seq(InternalCell)
    BY <2>1, NodeFields
  <2> QED BY <2>1, <2>2
<1>6. PICK h : Ranked(pages, num_pages, h, {}) /\ (IsLeaf(node) \/ page \in DOMAIN h)
  BY DEF ScanInv, TreePlaceInv
<1>7. n <= LEAF_NODE_MAX_CELLS \/ n <= INTERNAL_NODE_MAX_CELLS
  <2>1. IsLeaf(node) => n <= LEAF_NODE_MAX_CELLS
    BY <1>3, <1>4 DEF InShape, Fits
  <2>2. ~IsLeaf(node) => n <= INTERNAL_NODE_MAX_CELLS
    BY <1>6 DEF Ranked
  <2> QED BY <2>1, <2>2
<1>8. next # 0 => next \in Pages /\ (IsLeaf(pages[next]) \/ next \in DOMAIN h)
  <2>1. CASE IsLeaf(node)
    <3>1. next = node.next /\ node.next \in Pages
      BY <1>5, <2>1, NodeFields DEF next_leaf
    <3>2. next \in Ahead(pages, next)
      BY <3>1, FirstIsAhead
    <3>3. next # 0 => IsLeaf(pages[next])
      BY <1>3, <2>1, <3>1, <3>2, NeverBack DEF ChainInv
    <3> QED BY <3>1, <3>3
  <2>2. CASE ~IsLeaf(node)
    <3>1. next = node.right
      BY <2>2 DEF next_leaf
    <3>2. ~Open(node) /\ DOMAIN h \subseteq Pages /\ \A k \in Kids(node) : k \in DOMAIN h
      BY <1>6, <2>2 DEF Ranked
    <3>3. node.right \in Kids(node)
      BY <2>2, <3>2 DEF Open, Kids
    <3> QED BY <3>1, <3>2, <3>3
  <2> QED BY <2>1, <2>2
<1>9. new = IF cell + 1 < n THEN [cursor EXCEPT !.cell = @ + 1]
            ELSE IF next = 0 THEN [cursor EXCEPT !.cell = @ + 1, !.end = TRUE]
            ELSE [cursor EXCEPT !.page = next, !.cell = 0]
  BY DEF NextPosition, num_cells
<1> DEFINE C == (0 .. LEAF_NODE_MAX_CELLS) \cup (0 .. INTERNAL_NODE_MAX_CELLS)
           R == [page : Pages, end : BOOLEAN, cell : C]
<1>10. cursor \in R /\ cursor.page = page /\ cursor.cell = cell /\ ~cursor.end
  BY <1>1
<1>11. [cursor EXCEPT !.cell = @ + 1] = [cursor EXCEPT !.cell = cell + 1]
       /\ [cursor EXCEPT !.cell = @ + 1, !.end = TRUE] = [cursor EXCEPT !.cell = cell + 1, !.end = TRUE]
  OBVIOUS
<1>12. cell + 1 \in C /\ 0 \in C
  BY <1>2, <1>3
<1> HIDE DEF page, cell, next, n, C
<1>13. CASE cell + 1 < n
  <2>1. new = [cursor EXCEPT !.cell = cell + 1]
    BY <1>9, <1>11, <1>13
  <2>2. new \in R /\ new.page = page /\ new.cell = cell + 1 /\ ~new.end
    BY ONLY <1>10, <1>12, <2>1
  <2>3. cell + 1 < LEAF_NODE_MAX_CELLS \/ cell + 1 < INTERNAL_NODE_MAX_CELLS
    BY <1>2, <1>3, <1>5, <1>7, <1>13
  <2> QED BY <1>3, <1>5, <1>6, <1>13, <2>2, <2>3 DEF page, cell, n, C
<1>14. CASE ~(cell + 1 < n) /\ next = 0
  <2>1. new = [cursor EXCEPT !.cell = cell + 1, !.end = TRUE]
    BY <1>9, <1>11, <1>14
  <2>2. new \in R /\ new.page = page /\ new.cell = cell + 1 /\ new.end
    BY ONLY <1>10, <1>12, <2>1
  <2> QED BY <1>3, <1>5, <1>6, <1>14, <2>2 DEF page, cell, n, next, C
<1>15. CASE ~(cell + 1 < n) /\ next # 0
  <2>1. new = [cursor EXCEPT !.page = next, !.cell = 0]
    BY <1>9, <1>15
  <2>2. new \in R /\ new.page = next /\ new.cell = 0 /\ ~new.end
    <3>1. next \in Pages
      BY <1>8, <1>15
    <3> QED BY ONLY <1>10, <1>12, <2>1, <3>1
  <2> QED BY <1>2, <1>3, <1>5, <1>6, <1>8, <1>15, <2>2 DEF page, cell, n, next, C
<1> QED BY <1>13, <1>14, <1>15

\* What the rows to come are once the cursor has moved.
LEMMA ToComeAdvanced ==
  ASSUME NEW tree, tree \in [Pages -> Node], Chain(tree), NEW p \in Pages, IsLeaf(tree[p]),
         NEW cell \in Nat, ~(cell < Len(tree[p].cells)), NEW key, ToCome(tree, p, cell, key)
  PROVE  tree[p].next # 0 /\ ToCome(tree, tree[p].next, 0, key)
<1>1. PICK q \in Ahead(tree, p) :
        /\ IsLeaf(tree[q])
        /\ \E i \in 1 .. Len(tree[q].cells) : tree[q].cells[i].key = key /\ (q = p => i > cell)
  BY DEF ToCome
<1>2. PICK i \in 1 .. Len(tree[q].cells) : tree[q].cells[i].key = key /\ (q = p => i > cell)
  BY <1>1
<1>3. q # p
  <2>1. Len(tree[p].cells) \in Nat
    BY NodeFields
  <2> QED BY <1>2, <2>1
<1>4. tree[p].next # 0
  BY <1>3, LastAlone
<1>5. tree[p].next \in Pages
  BY NodeFields
<1>6. q \in Ahead(tree, tree[p].next)
  BY <1>3, <1>4, <1>5, AheadOfNext
<1>7. i > 0
  OBVIOUS
<1> QED BY <1>1, <1>2, <1>4, <1>6, <1>7 DEF ToCome

LEMMA AdvanceScan ==
  ASSUME IInv, ChainInv, NoneEmptyInv, KeysHeld, ScanInv, advance
  PROVE  ScanInv'
<1> DEFINE node == pages[cursor.page]
           new == NextPosition(node)
<1>1. /\ stopped = "none" /\ scanning = "advance" /\ cursor' = new
      /\ scanning' = IF new.end THEN "no" ELSE "value"
      /\ under' = IF new.end \/ ~IsLeaf(pages[new.page]) THEN <<>> ELSE KeyAt(pages[new.page], new.cell)
      /\ passed' = passed /\ due' = due /\ rooted' = rooted
      /\ pages' = pages /\ num_pages' = num_pages /\ stopped' = stopped
      /\ rows' = rows /\ refused' = refused
  BY DEF advance, vars
<1>2. node = pages[cursor.page] /\ new = NextPosition(node)
  OBVIOUS
<1> HIDE DEF node, new
<1>3. /\ node \in Node /\ Len(node.cells) \in Nat /\ cursor.page \in Pages /\ cursor.cell \in Nat
      /\ \/ /\ cursor.cell + 1 < Len(node.cells)
            /\ new.page = cursor.page /\ new.cell = cursor.cell + 1 /\ ~new.end
            /\ new.cell < LEAF_NODE_MAX_CELLS \/ new.cell < INTERNAL_NODE_MAX_CELLS
         \/ /\ ~(cursor.cell + 1 < Len(node.cells)) /\ next_leaf(node) = 0
            /\ new.page = cursor.page /\ new.cell = cursor.cell + 1 /\ new.end
         \/ /\ ~(cursor.cell + 1 < Len(node.cells)) /\ next_leaf(node) # 0
            /\ new.page = next_leaf(node) /\ new.cell = 0 /\ ~new.end
            /\ new.cell < LEAF_NODE_MAX_CELLS
      /\ new \in [page : Pages, end : BOOLEAN,
                  cell : (0 .. LEAF_NODE_MAX_CELLS) \cup (0 .. INTERNAL_NODE_MAX_CELLS)]
      /\ \E h : /\ Ranked(pages, num_pages, h, {})
                /\ IsLeaf(pages[new.page]) \/ new.page \in DOMAIN h
  BY <1>1, <1>2, CursorAdvanced
<1>4. pages \in [Pages -> Node] /\ Chain(pages) /\ NoneEmpty(pages)
  BY <1>1 DEF IInv, TypeOK, Node, ChainInv, NoneEmptyInv
<1>5. new.page \in Pages /\ new.cell \in Nat
  BY <1>3
<1> DEFINE to == pages[new.page]
<1>6. IsLeaf(to) => to.cells \in Seq(Rows) /\ Len(to.cells) \in Nat
  BY <1>4, <1>5, NodeFields
<1>7. ~new.end /\ IsLeaf(to) /\ new.cell < Len(to.cells) =>
        under' = <<to.cells[new.cell + 1].key>> /\ to.cells[new.cell + 1].key \in InsertedKeys
  <2>1. SUFFICES ASSUME ~new.end, IsLeaf(to), new.cell < Len(to.cells)
                 PROVE  under' = <<to.cells[new.cell + 1].key>> /\ to.cells[new.cell + 1].key \in InsertedKeys
    OBVIOUS
  <2>2. new.cell + 1 \in 1 .. Len(to.cells)
    BY <1>5, <1>6, <2>1
  <2> QED BY <1>1, <1>5, <2>1, <2>2 DEF KeysHeld, KeyAt
<1>8. ~(~new.end /\ IsLeaf(to) /\ new.cell < Len(to.cells)) => under' = <<>>
  BY <1>1 DEF KeyAt
<1>9. InsertedKeys' = InsertedKeys
  BY <1>1 DEF InsertedKeys
<1>10. SeenInv'
  <2>1. under' = <<>> \/ \E key \in InsertedKeys : under' = <<key>>
    BY <1>7, <1>8
  <2> QED BY <1>1, <1>9, <2>1 DEF ScanInv, SeenInv
<1>11. /\ rooted => IsLeaf(node) /\ \A key \in due \ passed : ToCome(pages, cursor.page, cursor.cell + 1, key)
       /\ due \subseteq Nat
  <2>1. due \subseteq Nat
    BY TableAssumption DEF ScanInv, SeenInv, TableAssumption
  <2> QED BY <1>1, <1>2, <2>1 DEF ScanInv, LeafPlaceInv, PassedCells
<1>12. rooted /\ ~new.end =>
         /\ IsLeaf(to) /\ new.cell < Len(to.cells)
         /\ \A key \in due \ passed : ToCome(pages, new.page, new.cell, key)
  <2>1. SUFFICES ASSUME rooted, ~new.end
                 PROVE  /\ IsLeaf(to) /\ new.cell < Len(to.cells)
                        /\ \A key \in due \ passed : ToCome(pages, new.page, new.cell, key)
    OBVIOUS
  <2>2. CASE cursor.cell + 1 < Len(node.cells)
    <3>1. new.page = cursor.page /\ new.cell = cursor.cell + 1
      BY <1>3, <2>1, <2>2
    <3> QED BY <1>2, <1>11, <2>1, <2>2, <3>1
  <2>3. CASE ~(cursor.cell + 1 < Len(node.cells))
    <3>1. next_leaf(node) # 0 /\ new.page = next_leaf(node) /\ new.cell = 0
      BY <1>3, <2>1, <2>3
    <3>2. IsLeaf(node) /\ next_leaf(node) = node.next
      BY <1>11, <2>1 DEF next_leaf
    <3>3. new.page \in Ahead(pages, new.page)
      BY <1>5, FirstIsAhead
    <3>4. IsLeaf(to) /\ new.page # root_page_num
      BY <1>2, <1>3, <1>4, <3>1, <3>2, <3>3, NeverBack
    <3>5. Len(to.cells) # 0
      <4>1. to.cells # <<>>
        BY <1>4, <1>5, <3>4 DEF NoneEmpty
      <4> QED BY <1>6, <3>4, <4>1, EmptySeq
    <3>6. 0 < Len(to.cells)
      BY <1>6, <3>4, <3>5
    <3>7. ASSUME NEW key \in due \ passed PROVE ToCome(pages, new.page, 0, key)
      <4>1. ToCome(pages, cursor.page, cursor.cell + 1, key) /\ cursor.cell + 1 \in Nat
        BY <1>3, <1>11, <2>1
      <4> DEFINE p == cursor.page
                 cell == cursor.cell + 1
      <4>2. /\ p \in Pages /\ IsLeaf(pages[p]) /\ cell \in Nat /\ ~(cell < Len(pages[p].cells))
            /\ ToCome(pages, p, cell, key) /\ pages[p].next = new.page
        BY <1>2, <1>3, <2>3, <3>1, <3>2, <4>1
      <4> HIDE DEF p, cell
      <4> QED BY <1>4, <4>2, ToComeAdvanced
    <3> QED BY <3>1, <3>4, <3>6, <3>7
  <2> QED BY <2>2, <2>3
<1>13. rooted /\ new.end => due \subseteq passed
  <2>1. SUFFICES ASSUME rooted, new.end, NEW key \in due \ passed PROVE FALSE
    OBVIOUS
  <2>2. ~(cursor.cell + 1 < Len(node.cells)) /\ next_leaf(node) = 0
    BY <1>3, <2>1
  <2>3. IsLeaf(node) /\ node.next = 0
    BY <1>11, <2>1, <2>2 DEF next_leaf
  <2>4. ToCome(pages, cursor.page, cursor.cell + 1, key) /\ cursor.cell + 1 \in Nat
    BY <1>3, <1>11, <2>1
  <2> DEFINE p == cursor.page
             cell == cursor.cell + 1
  <2>5. /\ p \in Pages /\ IsLeaf(pages[p]) /\ cell \in Nat /\ ~(cell < Len(pages[p].cells))
        /\ ToCome(pages, p, cell, key) /\ pages[p].next = 0
    BY <1>2, <1>3, <2>2, <2>3, <2>4
  <2> HIDE DEF p, cell
  <2> QED BY <1>4, <2>5, ToComeAdvanced
<1>14. PlaceInv'
  <2>1. rooted /\ ~new.end => under' # <<>>
    BY <1>7, <1>12, OneIsSome
  <2>2. ~new.end => new.cell < LEAF_NODE_MAX_CELLS \/ new.cell < INTERNAL_NODE_MAX_CELLS
    BY <1>3
  <2> QED BY <1>1, <1>3, <2>1, <2>2 DEF PlaceInv
<1>15. TreePlaceInv'
  BY <1>1, <1>3 DEF TreePlaceInv, IsLeaf
<1>16. LeafPlaceInv'
  <2>1. pages' = pages
    BY <1>1
  <2>2. SUFFICES ASSUME scanning' # "no", rooted'
                 PROVE  /\ IsLeaf(pages[cursor'.page])
                        /\ cursor'.cell < Len(pages[cursor'.page].cells) =>
                             under' = <<pages[cursor'.page].cells[cursor'.cell + 1].key>>
                        /\ \A key \in due' \ passed' : ToCome(pages, cursor'.page, PassedCells', key)
    BY <2>1 DEF LeafPlaceInv, IsLeaf, ToCome, Ahead, Linked
  <2>3. rooted /\ ~new.end /\ PassedCells' = new.cell
    BY <1>1, <2>2 DEF PassedCells
  <2> QED BY <1>1, <1>7, <1>12, <2>3
<1>17. NothingMissed'
  BY <1>1, <1>13 DEF NothingMissed, Ended
<1> QED BY <1>10, <1>14, <1>15, <1>16, <1>17 DEF ScanInv

LEMMA InitScan == ScanInit => ScanInv
<1> SUFFICES ASSUME ScanInit PROVE ScanInv
  OBVIOUS
<1>1. /\ Init /\ cursor = [page |-> root_page_num, cell |-> 0, end |-> TRUE]
      /\ scanning = "no" /\ under = <<>> /\ passed = {} /\ due = {} /\ rooted = TRUE
  BY DEF ScanInit
<1>2. cursor.page = root_page_num /\ cursor.page \in Pages
  BY <1>1, PageNumbers DEF root_page_num
<1>3. cursor \in [page : Pages, end : BOOLEAN,
                  cell : (0 .. LEAF_NODE_MAX_CELLS) \cup (0 .. INTERNAL_NODE_MAX_CELLS)]
  <2>1. 0 \in 0 .. LEAF_NODE_MAX_CELLS
    BY SplitCounts
  <2>2. root_page_num \in Pages
    BY <1>1, <1>2
  <2> QED BY <1>1, <2>1, <2>2
<1>4. rows = EmptyBag /\ refused = EmptyBag
  BY <1>1 DEF Init
<1>5. BagToSet(rows (+) refused) = {}
  <2>1. IsABag(EmptyBag) /\ BagToSet(EmptyBag) = {}
    BY DEF IsABag, EmptyBag, SetToBag, BagToSet
  <2>2. BagToSet(EmptyBag (+) EmptyBag) = {}
    BY <2>1 DEF (+), BagToSet
  <2> QED BY <1>4, <2>2
<1>6. InsertedKeys = {}
  BY <1>5 DEF InsertedKeys
<1>7. SeenInv
  BY <1>1, <1>6 DEF SeenInv
<1>8. PlaceInv
  BY <1>1, <1>3 DEF PlaceInv
<1>9. TreePlaceInv
  <2>1. ShapeInv /\ stopped = "none"
    BY <1>1, InitShape DEF Init
  <2>2. PICK h : Ranked(pages, num_pages, h, {})
    BY <2>1 DEF ShapeInv
  <2>3. root_page_num \in DOMAIN h
    BY <2>2 DEF Ranked
  <2> QED BY <1>2, <2>2, <2>3 DEF TreePlaceInv
<1>10. LeafPlaceInv /\ NothingMissed
  BY <1>1 DEF LeafPlaceInv, NothingMissed
<1> QED BY <1>7, <1>8, <1>9, <1>10 DEF ScanInv

\* To the table, a step of a scan is none.
LEMMA ScanSteps == [ScanNext]_<<vars, scanVars>> => [Next]_vars
<1>1. ASSUME NEW key \in Keys, NEW text \in Texts, InsertRow(key, text) PROVE Next
  BY <1>1 DEF InsertRow, Next
<1> QED BY <1>1 DEF ScanNext, CallerStep, Start, value, advance

LEMMA NextScan ==
  ASSUME IInv, ChainInv, ShapeInv, NoneEmptyInv, KeysHeld, KeysHeld', ScanInv,
         [ScanNext]_<<vars, scanVars>>
  PROVE  ScanInv'
<1>1. CASE Start
  BY <1>1, StartScan
<1>2. CASE value
  BY <1>2, ValueScan
<1>3. CASE advance
  BY <1>3, AdvanceScan
<1>4. ASSUME NEW key \in Keys, NEW text \in Texts, InsertRow(key, text) PROVE ScanInv'
  BY <1>4, InsertScan
<1>5. CASE UNCHANGED <<vars, scanVars>>
  <2>1. /\ pages' = pages /\ num_pages' = num_pages /\ stopped' = stopped
        /\ rows' = rows /\ refused' = refused
        /\ cursor' = cursor /\ scanning' = scanning /\ under' = under
        /\ passed' = passed /\ due' = due /\ rooted' = rooted
    BY <1>5 DEF vars, scanVars
  <2>2. SeenInv'
    BY <2>1 DEF ScanInv, SeenInv, InsertedKeys
  <2>3. PlaceInv'
    BY <2>1 DEF ScanInv, PlaceInv
  <2>4. TreePlaceInv'
    BY <2>1 DEF ScanInv, TreePlaceInv, IsLeaf
  <2>5. LeafPlaceInv'
    BY <2>1 DEF ScanInv, LeafPlaceInv, IsLeaf, ToCome, Ahead, Linked, PassedCells
  <2>6. NothingMissed'
    BY <2>1 DEF ScanInv, NothingMissed, Ended
  <2> QED BY <2>2, <2>3, <2>4, <2>5, <2>6 DEF ScanInv
<1> QED BY <1>1, <1>2, <1>3, <1>4, <1>5 DEF ScanNext, CallerStep

(* The cursor and what the scan has seen keep their types: its page is one *)
(* of the file and its cell number one that a node can have, even where    *)
(* advance() reads the fields of an internal node.                         *)
THEOREM ScanTypeCorrect == ScanSpec => []ScanTypeOK
<1>1. ScanInv => ScanTypeOK
  <2>1. SUFFICES ASSUME ScanInv PROVE ScanTypeOK
    OBVIOUS
  <2>2. under = <<>> \/ under \in {<<k>> : k \in Keys}
    BY <2>1 DEF ScanInv, SeenInv
  <2> QED BY <2>1, <2>2 DEF ScanInv, SeenInv, PlaceInv, ScanTypeOK
<1>2. ScanInit => Init
  BY DEF ScanInit
<1> QED BY <1>1, <1>2, InitIInv, NextIInv, InitChain, NextChain, InitRows, NextRows, RowsHeld,
           InitShape, NextShape, InitNoneEmpty, NextNoneEmpty, InitScan, NextScan, ScanSteps,
           PTL DEF ScanSpec

(* A scan that ends has passed every row it would have passed undisturbed, *)
(* whatever was inserted between its steps and whichever leaf split under  *)
(* the cursor, unless it was the root.                                     *)
THEOREM NothingMissedAlways == ScanSpec => []NothingMissed
<1>1. ScanInv => NothingMissed
  BY DEF ScanInv
<1>2. ScanInit => Init
  BY DEF ScanInit
<1> QED BY <1>1, <1>2, InitIInv, NextIInv, InitChain, NextChain, InitRows, NextRows, RowsHeld,
           InitShape, NextShape, InitNoneEmpty, NextNoneEmpty, InitScan, NextScan, ScanSteps,
           PTL DEF ScanSpec

(* value() returns rows that were inserted and nothing else; there is one  *)
(* at the cursor as long as the root has not split under it.               *)
THEOREM RowsPassedAlways == ScanSpec => []RowsPassed
<1>1. ScanInv => RowsPassed
  BY DEF ScanInv, SeenInv, PlaceInv, InsertedKeys, RowsPassed
<1>2. ScanInit => Init
  BY DEF ScanInit
<1> QED BY <1>1, <1>2, InitIInv, NextIInv, InitChain, NextChain, InitRows, NextRows, RowsHeld,
           InitShape, NextShape, InitNoneEmpty, NextNoneEmpty, InitScan, NextScan, ScanSteps,
           PTL DEF ScanSpec

-----------------------------------------------------------------------------
(***************************************************************************)
(* table_find() in a table whose rows come in ascending order of their     *)
(* keys.                                                                   *)
(***************************************************************************)

Rising(cells) == \A i, j \in DOMAIN cells : i < j => cells[i].key < cells[j].key

\* leaf_node_find() finds a key that is there once.
LEMMA KeyHit ==
  ASSUME NEW cells \in Seq(Rows), Rising(cells), NEW i \in 1 .. Len(cells)
  PROVE  Hit(cells, CellSearch(cells, cells[i].key), cells[i].key)
<1> DEFINE key == cells[i].key
           ans == CellSearch(cells, key)
<1>1. Len(cells) \in Nat /\ \A j \in 1 .. Len(cells) : cells[j].key \in Nat
  <2>1. Len(cells) \in Nat /\ \A j \in 1 .. Len(cells) : cells[j] \in Rows
    OBVIOUS
  <2> QED BY <2>1, KeysAreNat DEF Rows
<1>2. InOrder(cells) /\ key \in Nat
  BY <1>1 DEF InOrder, Rising
<1>3. /\ ans \in 0 .. Len(cells) /\ FromOn(cells, ans, key)
      /\ Hit(cells, ans, key) \/ Below(cells, ans, key)
  BY <1>2, CellFound
<1> HIDE DEF ans
<1>4. ASSUME Below(cells, ans, key) PROVE Hit(cells, ans, key)
  <2>1. i > ans
    BY <1>1, <1>3, <1>4 DEF Below
  <2>2. key <= cells[ans + 1].key
    BY <1>1, <1>3, <2>1 DEF FromOn
  <2>3. ~(ans + 1 < i)
    BY <1>1, <1>3, <2>2 DEF Rising
  <2> QED BY <1>1, <1>3, <2>1, <2>3 DEF Hit
<1> QED BY <1>3, <1>4 DEF ans

\* Child m of an internal node, and the keys that belong under it.
KidAt(node, m) == IF m <= Len(node.cells) THEN node.cells[m].child ELSE node.right

Belongs(node, m, key) ==
  \A i \in 1 .. Len(node.cells) :
    IF m <= i THEN key <= node.cells[i].key ELSE node.cells[i].key < key

\* internal_node_find() goes on to the child under which a key belongs.
LEMMA KidFound ==
  ASSUME NEW node \in InternalNode, InOrder(node.cells), NEW m \in 1 .. Len(node.cells) + 1,
         NEW key \in Nat, Belongs(node, m, key)
  PROVE  NextDown(node, key) = KidAt(node, m)
<1> DEFINE n == Len(node.cells)
           i == internal_node_find_child(node.cells, key)
<1>1. node.cells \in Seq(InternalCell) /\ n \in Nat /\ \A j \in 1 .. n : node.cells[j].key \in Nat
  BY InternalFields DEF InternalCell
<1>2. i \in 0 .. n /\ Below(node.cells, i, key) /\ FromOn(node.cells, i, key)
  BY <1>1, ChildFound
<1>3. /\ \A j \in 1 .. n : Children(node)[j] = node.cells[j].child
      /\ Children(node)[n + 1] = node.right
  BY ChildrenElements
<1>4. NextDown(node, key) = Children(node)[i + 1]
  BY DEF NextDown
<1> HIDE DEF i
<1>5. i + 1 <= m
  <2>1. ASSUME i + 1 > m PROVE FALSE
    <3>1. m \in 1 .. i /\ m \in 1 .. n
      BY <1>1, <1>2, <2>1
    <3>2. node.cells[m].key < key /\ key <= node.cells[m].key
      BY <1>1, <1>2, <3>1 DEF Below, Belongs
    <3> QED BY <1>1, <3>1, <3>2
  <2> QED BY <1>1, <1>2, <2>1
<1>6. m <= i + 1
  <2>1. ASSUME i + 1 < m PROVE FALSE
    <3>1. i + 1 \in 1 .. n /\ ~(m <= i + 1)
      BY <1>1, <1>2, <2>1
    <3>2. key <= node.cells[i + 1].key /\ node.cells[i + 1].key < key
      BY <1>1, <1>2, <3>1 DEF FromOn, Belongs
    <3> QED BY <1>1, <3>1, <3>2
  <2> QED BY <1>1, <1>2, <2>1
<1>7. m = i + 1
  BY <1>1, <1>2, <1>5, <1>6
<1> QED BY <1>1, <1>3, <1>4, <1>7 DEF KidAt

\* So it ends there when that is a leaf.
LEMMA FindsUnderRoot ==
  ASSUME NEW tree, tree[root_page_num] \in InternalNode, InOrder(tree[root_page_num].cells),
         NEW m \in 1 .. Len(tree[root_page_num].cells) + 1, NEW key \in Nat,
         Belongs(tree[root_page_num], m, key),
         NEW q \in Pages, q = KidAt(tree[root_page_num], m), IsLeaf(tree[q])
  PROVE  internal_node_find(tree, root_page_num, key) = q
<1> DEFINE N == FILE_PAGES_NUM
<1>1. PICK leaf : /\ Descends(tree, key, leaf)
                  /\ internal_node_find(tree, root_page_num, key) = leaf[N][root_page_num]
  BY FindDescends
<1>2. N \in Nat /\ N # 0 /\ N \in 0 .. N /\ N - 1 \in 0 .. N
  BY PagePointersAssumption DEF PagePointersAssumption
<1>3. ~IsLeaf(tree[root_page_num]) /\ root_page_num \in Pages
  BY InternalFields, PageNumbers
<1>4. NextDown(tree[root_page_num], key) = q
  BY KidFound
<1>5. leaf[N][root_page_num] = leaf[N - 1][q]
  BY <1>1, <1>2, <1>3, <1>4 DEF Descends
<1>6. leaf[N - 1][q] = q
  BY <1>1, <1>2 DEF Descends
<1> QED BY <1>1, <1>5, <1>6

-----------------------------------------------------------------------------
(***************************************************************************)
(* A tree whose root's children are leaves.                                *)
(***************************************************************************)

Flat(tree) == \A c \in Kids(tree[root_page_num]) : IsLeaf(tree[c])

\* The pages in use are the root and its children, which are leaves.
TwoLevels(tree, n) ==
  LET root == tree[root_page_num]
  IN /\ root \in InternalNode /\ ~Open(root) /\ Apart(root)
     /\ Len(root.cells) \in 1 .. INTERNAL_NODE_MAX_CELLS
     /\ \A c : c \in Kids(root) <=> c \in Pages /\ c < n /\ c # root_page_num
     /\ \A c \in Kids(root) : IsLeaf(tree[c]) /\ tree[c].parent = root_page_num

LEMMA FlatTree ==
  ASSUME NEW tree \in [Pages -> Node], NEW n \in Nat, NEW h, Ranked(tree, n, h, {}),
         Even(tree, n, h, {}, {}, {}), ~IsLeaf(tree[root_page_num]), Flat(tree)
  PROVE  TwoLevels(tree, n)
<1> DEFINE root == tree[root_page_num]
<1>1. /\ root_page_num \in DOMAIN h /\ DOMAIN h \subseteq Pages /\ root_page_num \in Pages
      /\ \A p \in DOMAIN h : p \in Nat /\ p < n /\ h[p] \in Nat
      /\ \A p \in DOMAIN h \ {root_page_num} : h[p] < h[root_page_num] /\ tree[p].parent \in DOMAIN h
      /\ \A p \in DOMAIN h : \A c \in Kids(tree[p]) : c \in DOMAIN h /\ h[c] < h[p]
  BY RanksOf
<1>2. AllRanked(n, h) /\ LeavesLowest(tree, h) /\ KidsNextLower(tree, h, {}) /\ SomeParent(tree, h, {})
      /\ LeavesAgree(tree, h, {}) /\ InnerFilled(tree, h, {})
  BY DEF Even
<1>3. root \in InternalNode /\ ~Open(root) /\ Apart(root)
      /\ Len(root.cells) <= INTERNAL_NODE_MAX_CELLS /\ Len(root.cells) >= 1
  BY <1>1, <1>2, NodeFields DEF Ranked, InnerFilled
<1>4. Len(root.cells) \in Nat /\ INTERNAL_NODE_MAX_CELLS \in Nat /\ root.right \in Kids(root)
  BY <1>3, InternalFields DEF INTERNAL_NODE_MAX_CELLS, Kids, Open
<1>5. h[root_page_num] = 1
  <2>1. IsLeaf(tree[root.right]) /\ root.right \in DOMAIN h
    BY <1>1, <1>4 DEF Flat
  <2>2. h[root.right] = 0 /\ h[root_page_num] = h[root.right] + 1
    BY <1>1, <1>2, <1>4, <2>1 DEF LeavesLowest, KidsNextLower
  <2> QED BY <2>2
<1>6. ASSUME NEW c \in DOMAIN h \ {root_page_num}
      PROVE  h[c] = 0 /\ IsLeaf(tree[c])
  <2>1. h[c] \in Nat /\ h[c] < 1
    BY <1>1, <1>5
  <2>2. h[c] = 0
    BY <2>1
  <2> QED BY <1>2, <2>2 DEF LeavesLowest
<1>7. ASSUME NEW c \in DOMAIN h \ {root_page_num}
      PROVE  c \in Kids(root) /\ tree[c].parent = root_page_num
  <2>1. ASSUME NEW q \in DOMAIN h, c \in Kids(tree[q]) PROVE q = root_page_num
    BY <1>6, <2>1 DEF Kids
  <2>2. PICK q \in DOMAIN h : c \in Kids(tree[q])
    BY <1>2 DEF SomeParent
  <2>3. tree[c].parent \in DOMAIN h /\ c \in Kids(tree[tree[c].parent])
    BY <1>1, <1>2, <1>6 DEF LeavesAgree
  <2> QED BY <2>1, <2>2, <2>3
<1>8. ASSUME NEW c
      PROVE  c \in Kids(root) <=> c \in Pages /\ c < n /\ c # root_page_num
  <2>1. ASSUME c \in Kids(root) PROVE c \in Pages /\ c < n /\ c # root_page_num
    <3>1. c \in DOMAIN h /\ h[c] < 1 /\ h[c] # 1
      BY <1>1, <1>5, <2>1
    <3> QED BY <1>1, <1>5, <3>1
  <2>2. ASSUME c \in Pages, c < n, c # root_page_num PROVE c \in Kids(root)
    BY <1>2, <1>7, <2>2 DEF AllRanked
  <2> QED BY <2>1, <2>2
<1>9. \A c \in Kids(root) : c \in DOMAIN h \ {root_page_num}
  BY <1>1, <1>8
<1> QED BY <1>3, <1>4, <1>6, <1>7, <1>8, <1>9 DEF TwoLevels

\* The root has a child for each other page.
LEMMA KidsCounted ==
  ASSUME NEW tree, NEW n \in Nat, n <= FILE_PAGES_NUM, TwoLevels(tree, n)
  PROVE  n = Len(tree[root_page_num].cells) + 2
<1> DEFINE root == tree[root_page_num]
           k == Len(root.cells) + 1
           f == [i \in 1 .. k |-> Children(root)[i]]
<1>1. /\ root \in InternalNode /\ ~Open(root) /\ ~IsLeaf(root) /\ Apart(root) /\ k \in Nat
      /\ Len(root.cells) \in Nat
  BY InternalFields DEF TwoLevels
<1>2. /\ \A p : p \in Kids(root) <=> \E i \in 1 .. k : Children(root)[i] = p
      /\ \A i, j \in 1 .. k : Children(root)[i] = Children(root)[j] => i = j
  BY <1>1, ChildPlaces
<1>3. \A c : c \in Kids(root) <=> c \in 1 .. n - 1
  <2>1. \A c : c \in Kids(root) <=> c \in Pages /\ c < n /\ c # root_page_num
    BY DEF TwoLevels
  <2>2. FILE_PAGES_NUM \in Nat
    BY PagePointersAssumption DEF PagePointersAssumption
  <2>3. \A c : c \in Pages /\ c < n /\ c # root_page_num <=> c \in 1 .. n - 1
    BY <2>2 DEF Pages, root_page_num
  <2> QED BY <2>1, <2>3
<1> HIDE DEF root, k
<1>4. /\ f \in [1 .. k -> 1 .. n - 1]
      /\ \A i, j \in 1 .. k : f[i] = f[j] => i = j
      /\ \A p \in 1 .. n - 1 : \E i \in 1 .. k : f[i] = p
  BY <1>2, <1>3
<1> HIDE DEF f
<1>5. /\ IsFiniteSet(1 .. k) /\ Cardinality(1 .. k) = k
  <2>1. 1 \in Int /\ k \in Int /\ k >= 1
    BY <1>1 DEF k
  <2>2. IsFiniteSet(1 .. k) /\ Cardinality(1 .. k) = IF 1 > k THEN 0 ELSE k - 1 + 1
    BY <2>1, FS_Interval
  <2> QED BY <2>1, <2>2
<1>6. Cardinality(1 .. n - 1) = k
  <2> DEFINE T == 1 .. n - 1
             S == 1 .. k
  <2>1. f \in [S -> T] /\ IsFiniteSet(S) /\ Cardinality(S) = k
        /\ (\A x, y \in S : f[x] = f[y] => x = y) /\ \A t \in T : \E x \in S : f[x] = t
    BY <1>4, <1>5
  <2> HIDE DEF S, T
  <2>2. Cardinality(T) = Cardinality(S)
    BY ONLY <2>1, OneToOne
  <2> QED BY <2>1, <2>2 DEF T
<1>7. n >= 1
  <2>1. k >= 1 /\ 1 \in 1 .. k
    BY <1>1 DEF k
  <2>2. f[1] \in 1 .. n - 1
    BY <1>4, <2>1
  <2> QED BY <2>2
<1>8. Cardinality(1 .. n - 1) = n - 1
  BY <1>7, FS_Interval
<1>9. n - 1 = Len(root.cells) + 1 /\ Len(root.cells) \in Nat
  BY <1>1, <1>6, <1>8 DEF k
<1> QED BY <1>9 DEF root

\* A root under which another page found its place had room for it.
LEMMA RootHadRoom ==
  ASSUME NEW a, NEW n \in Nat, TwoLevels(a, n), NEW b, NEW m \in Nat, TwoLevels(b, m),
         n < m, m <= FILE_PAGES_NUM
  PROVE  Len(a[root_page_num].cells) < INTERNAL_NODE_MAX_CELLS
<1>1. FILE_PAGES_NUM \in Nat
  BY PagePointersAssumption DEF PagePointersAssumption
<1>2. n = Len(a[root_page_num].cells) + 2 /\ m = Len(b[root_page_num].cells) + 2
  BY <1>1, KidsCounted
<1>3. /\ Len(a[root_page_num].cells) \in 1 .. INTERNAL_NODE_MAX_CELLS
      /\ Len(b[root_page_num].cells) \in 1 .. INTERNAL_NODE_MAX_CELLS
  BY DEF TwoLevels
<1> DEFINE k == Len(a[root_page_num].cells)
           l == Len(b[root_page_num].cells)
<1>4. n = k + 2 /\ m = l + 2 /\ k \in 1 .. 3 /\ l \in 1 .. 3
  BY <1>2, <1>3 DEF INTERNAL_NODE_MAX_CELLS
<1> HIDE DEF k, l
<1>5. k < 3
  BY <1>4
<1> QED BY <1>5 DEF k, INTERNAL_NODE_MAX_CELLS

-----------------------------------------------------------------------------
(***************************************************************************)
(* What a split puts into the root.                                        *)
(***************************************************************************)

\* Node p has child c past its last, under which the keys up to key are.
PutLast(a, b, p, c, key) ==
  /\ b[p] \in InternalNode /\ b[p].right = c
  /\ b[p].cells = Append(a[p].cells, [child |-> a[p].right, key |-> key])
  /\ \A q \in Pages \ {p} : b[q] = a[q]

LEMMA StoredPutLast ==
  ASSUME NEW o \in Operations, NEW x \in Operations, x.pages = o.pages, NEW ptr, NEW p \in Pages, ptr.page = p,
         o.pages[p] \in InternalNode, o.pages[p].right \in Pages, NEW c \in Pages, NEW key \in Nat,
         NEW r, ~Failed(r),
         r = StoreNode(x, ptr, WithLast(o.pages[p], c, key))
  PROVE  PutLast(o.pages, r.pages, p, c, key)
<1> DEFINE node == o.pages[p]
           cell == [child |-> node.right, key |-> key]
           new == WithLast(node, c, key)
<1>1. node.cells \in Seq(InternalCell) /\ node \in InternalNode /\ c \in Nat
  BY InternalFields, PageNumbers
<1>2. cell \in InternalCell
  BY DEF InternalCell
<1>3. r = StoreNode(x, ptr, new)
  OBVIOUS
<1> HIDE DEF node, cell
<1>4. new \in InternalNode /\ new.cells = Append(node.cells, cell) /\ new.right = c
  <2> DEFINE more == Append(node.cells, cell)
  <2>1. more \in Seq(InternalCell)
    BY <1>1, <1>2
  <2> HIDE DEF more
  <2>2. LET to == [node EXCEPT !.cells = more, !.right = c, !.leftover = @ \ {Len(node.cells)}]
        IN to \in InternalNode /\ to.cells = more /\ to.right = c
    BY <1>1, <2>1 DEF InternalNode
  <2>3. new = [node EXCEPT !.cells = more, !.right = c, !.leftover = @ \ {Len(node.cells)}]
    BY DEF WithLast, more, cell
  <2> HIDE DEF new
  <2> QED BY <2>2, <2>3 DEF more
<1> HIDE DEF new
<1>5. new \in Node
  BY <1>4 DEF Node
<1>6. \A q \in Pages : r.pages[q] = IF q = p THEN new ELSE x.pages[q]
  BY ONLY <1>3, <1>5, x \in Operations, p \in Pages, ptr.page = p, ~Failed(r), StoredExactly
<1> QED BY <1>4, <1>6 DEF PutLast, node, cell

\* A child whose keys are greater than all, put into a node with room.
LEMMA GreatestChildPut ==
  ASSUME NEW insert, NEW o, Good(o), Grown(o), NEW p, Inner(o, p),
         Len(o.pages[p].cells) < INTERNAL_NODE_MAX_CELLS, o.pages[p].right \in Pages,
         o.pages[p].right < o.num_pages, NEW c \in Pages, c < o.num_pages,
         NEW key, key = get_node_max_key(o.pages, o.pages[p].right), get_node_max_key(o.pages, c) > key,
         NEW r, r = InsertChild(o, p, c, insert), ~Failed(r)
  PROVE  PutLast(o.pages, r.pages, p, c, key)
<1> DEFINE o1 == get_page(o, p)
           parent == Pointer(o1, p)
           o11 == get_page(o1, c)
           o2 == Use(o11, {parent})
           child_max == get_node_max_key(o2.pages, c)
           node == o2.pages[p]
           index == internal_node_find_child(node.cells, child_max)
           o3 == get_page(o2, node.right)
           right_max == get_node_max_key(o3.pages, node.right)
           o4 == IF child_max > right_max \/ index = Len(node.cells)
                 THEN TestCell(o3, parent, node, Len(node.cells)) ELSE o3
           last == WithLast(node, c, right_max)
           inside == WithCell(node, index, c, child_max)
           new == IF child_max > right_max THEN last ELSE inside
<1>1. /\ o \in Operations /\ p \in Pages /\ o.pages \in [Pages -> Node] /\ o.num_pages \in Nat
      /\ o.pages[p] \in InternalNode /\ Len(o.pages[p].cells) \in Nat
  BY InnerNode, OperationFields DEF Good
<1>2. r = IF Failed(o2) THEN o2
          ELSE IF Len(node.cells) >= INTERNAL_NODE_MAX_CELLS
          THEN internal_node_split_and_insert(o2, p, c, insert)
          ELSE IF node.right = INVALID_PAGE_NUM THEN StoreNode(o2, parent, [node EXCEPT !.right = c])
          ELSE IF Failed(o3) THEN o3
          ELSE StoreNode(o4, parent, new)
  BY DEF InsertChild
<1>3. Good(o1) /\ o1.pages = o.pages
  BY RequestKeeps DEF Keeps
<1>4. parent.page = p
  BY DEF Pointer
<1> HIDE DEF o1, parent
<1>5. Good(o11) /\ o11.pages = o.pages
  BY <1>3, RequestKeeps DEF Keeps
<1> HIDE DEF o11
<1>6. Good(o2) /\ o2.pages = o.pages
  BY <1>5, UseKeeps DEF Keeps
<1> HIDE DEF o2
<1>7. Good(o3) /\ o3.pages = o.pages
  BY <1>6, RequestKeeps DEF Keeps
<1>8. node = o.pages[p] /\ child_max = get_node_max_key(o.pages, c) /\ right_max = key
  BY <1>6, <1>7
<1> HIDE DEF o3, index
<1>9. ~(Len(node.cells) >= INTERNAL_NODE_MAX_CELLS) /\ node.right # INVALID_PAGE_NUM
  BY <1>1, <1>8, PageNumbers DEF INTERNAL_NODE_MAX_CELLS
<1>10. child_max > right_max
  BY <1>8
<1>11. new = last
  BY <1>10
<1>12. r = StoreNode(o4, parent, last)
  <2> HIDE DEF new, last, node, o4
  <2> QED BY <1>2, <1>9, <1>11
<1>13. key \in Nat
  BY <1>1, MaxKeyIsNat
<1>14. r = StoreNode(o4, parent, WithLast(o.pages[p], c, key))
  BY <1>8, <1>12
<1>15. o4 \in Operations /\ o4.pages = o.pages
  BY <1>1, <1>7, <1>8, CellTested DEF Good
<1> HIDE DEF node, child_max, right_max, last, inside, new, o4
<1> QED
  <2>1. /\ o \in Operations /\ o4 \in Operations /\ o4.pages = o.pages /\ p \in Pages /\ parent.page = p
        /\ o.pages[p] \in InternalNode /\ o.pages[p].right \in Pages /\ c \in Pages /\ key \in Nat /\ ~Failed(r)
    BY <1>1, <1>4, <1>13, <1>15
  <2> QED BY ONLY <2>1, <1>14, StoredPutLast

LEMMA GreatestPut ==
  ASSUME NEW o, Good(o), Grown(o), NEW p, Inner(o, p),
         Len(o.pages[p].cells) < INTERNAL_NODE_MAX_CELLS, o.pages[p].right \in Pages,
         o.pages[p].right < o.num_pages, NEW c \in Pages, c < o.num_pages,
         NEW key, key = get_node_max_key(o.pages, o.pages[p].right), get_node_max_key(o.pages, c) > key,
         NEW r, r = internal_node_insert(o, p, c), ~Failed(r)
  PROVE  PutLast(o.pages, r.pages, p, c, key)
<1> DEFINE N == FILE_PAGES_NUM
           call == Call(o, p, c)
<1>1. PICK insert : Nested(insert) /\ internal_node_insert(o, p, c) = insert[N][call]
  BY CallsNested
<1>2. N \in Nat /\ N - 1 \in 0 .. N /\ N - 1 + 1 = N
  BY PagePointersAssumption DEF PagePointersAssumption
<1>3. call \in Calls /\ call.op = o /\ call.parent = p /\ call.child = c
  <2>1. o \in Operations /\ p \in Nat /\ c \in Nat
    BY PageNumbers DEF Good, Inner
  <2> QED BY <2>1 DEF Call, Calls
<1> HIDE DEF call
<1>4. PICK k : k = N - 1
  OBVIOUS
<1>5. k \in 0 .. N /\ k + 1 <= N /\ k + 1 = N
  BY <1>2, <1>4
<1>6. insert[k + 1][call] = InsertChild(o, p, c, insert[k])
  BY <1>1, <1>3, <1>5 DEF Nested
<1>7. r = InsertChild(o, p, c, insert[k])
  BY <1>1, <1>5, <1>6
<1> QED BY <1>7, GreatestChildPut

\* A node with one key, up to which the keys are in the leaf left.
TopIs(node, left, key, right) ==
  ~IsLeaf(node) /\ node.cells = <<[child |-> left, key |-> key]>> /\ node.right = right

LEMMA ParentsSetBelow ==
  ASSUME NEW o \in Operations, NEW ptr, ptr.page \in Pages \ {root_page_num}, NEW parent \in Pages,
         NEW r, r = SetParent(o, ptr, parent), ~Failed(r)
  PROVE  r \in Operations /\ ~Failed(o) /\ r.pages[root_page_num] = o.pages[root_page_num]
<1>1. r \in Operations /\ ~Failed(o) /\ r.pages = Reparented(o.pages, ptr.page, parent)
  BY ParentSetExactly
<1>2. o.pages \in [Pages -> Node] /\ root_page_num \in Pages /\ root_page_num # ptr.page
  BY OperationFields, PageNumbers
<1> QED BY <1>1, <1>2 DEF Reparented

\* RootAbove() by its fields.
LEMMA TopStored ==
  ASSUME NEW o \in Operations, NEW root, root.page = root_page_num,
         NEW right, right.page \in Pages, NEW left, left.page \in Pages,
         o.pages[left.page].cells # <<>>,
         NEW r, r = RootAbove(o, root, right, left), ~Failed(r)
  PROVE  TopIs(r.pages[root_page_num], left.page, Last(o.pages[left.page].cells).key, right.page)
<1> DEFINE old == o.pages[root_page_num]
           max == get_node_max_key(o.pages, left.page)
           cells == <<[child |-> left.page, key |-> max]>>
           blank == initialize_internal_node(old)
           node == [blank EXCEPT !.is_root = TRUE, !.cells = cells, !.right = right.page, !.leftover = @ \ {0}]
           tested == TestCell(o, root, blank, 0)
<1>1. o.pages \in [Pages -> Node] /\ root_page_num \in Pages /\ old \in Node /\ right.page \in Nat
  BY OperationFields, PageNumbers
<1>2. max \in Nat /\ max = Last(o.pages[left.page].cells).key
  BY <1>1, MaxKeyIsNat
<1>3. r = StoreNode(tested, root, node)
  BY DEF RootAbove
<1>4. blank \in InternalNode
  BY <1>1, NodeInitialized
<1>a. tested \in Operations /\ tested.pages = o.pages
  BY <1>4, CellTested
<1> HIDE DEF max, blank, tested
<1>5. cells \in Seq(InternalCell)
  BY <1>2 DEF InternalCell
<1> HIDE DEF cells, old
<1>6. node \in InternalNode /\ node.cells = cells /\ node.right = right.page
  BY <1>1, <1>4, <1>5 DEF InternalNode
<1> HIDE DEF node
<1>7. node \in Node /\ ~IsLeaf(node)
  BY <1>6, InternalFields
<1>8. r.pages[root_page_num] = node
  <2>1. \A q \in Pages : r.pages[q] = IF q = root.page THEN node ELSE o.pages[q]
    <3>1. root.page \in Pages /\ node \in Node /\ tested \in Operations /\ ~Failed(r)
      BY <1>1, <1>7, <1>a
    <3>2. \A q \in Pages : r.pages[q] = IF q = root.page THEN node ELSE tested.pages[q]
      BY ONLY <3>1, <1>3, StoredExactly
    <3> QED BY <1>a, <3>2
  <2> QED BY <1>1, <2>1
<1>9. cells = <<[child |-> left.page, key |-> Last(o.pages[left.page].cells).key]>>
  BY <1>2 DEF cells
<1> QED BY <1>6, <1>7, <1>8, <1>9 DEF TopIs

LEMMA LeafRootTop ==
  ASSUME NEW o, Good(o), InShape(o.pages), IsLeaf(o.pages[root_page_num]),
         o.pages[root_page_num].cells # <<>>,
         NEW root, root.page = root_page_num,
         NEW right, right.page \in Pages \ {root_page_num}, NEW left, Fresh(o, left.page),
         NEW r, r = GrowRoot(o, root, right, left), ~Failed(r)
  PROVE  TopIs(r.pages[root_page_num], left.page, Last(o.pages[root_page_num].cells).key, right.page)
<1> DEFINE old == o.pages[root_page_num]
           a == AdoptChildren(CopyRoot(o, root, right, left), left)
           b == RootAbove(a, root, right, left)
           s == SetParent(b, left, root_page_num)
<1>1. r = SetParent(s, right, root_page_num)
  BY DEF GrowRoot
<1>2. /\ o \in Operations /\ o.pages \in [Pages -> Node] /\ root_page_num \in Pages
      /\ left.page \in Pages /\ left.page # root_page_num /\ old \in LeafNode
  BY OperationFields, NodeFields, PageNumbers DEF Good, Fresh
<1> HIDE DEF old
<1>3. /\ Good(a) /\ FailsHalted(o, a) /\ InShape(a.pages) /\ IsLeaf(a.pages[root_page_num])
      /\ ~Failed(a) => a.pages = [o.pages EXCEPT ![left.page] = LeftCopy(old)]
  BY LeafCopied DEF old
<1> HIDE DEF a
<1>4. b \in Operations /\ FailsHalted(a, b)
  <2>1. Good(b) /\ FailsHalted(a, b)
    BY <1>2, <1>3, RootPut
  <2> QED BY <2>1 DEF Good
<1> HIDE DEF b
<1>5. s \in Operations
  <2>1. FailsHalted(b, s) /\ s \in Operations
    BY <1>2, <1>4, ParentSetExactly
  <2> QED BY <2>1
<1>6. ~Failed(s) /\ r.pages[root_page_num] = s.pages[root_page_num]
  <2> HIDE DEF s
  <2> QED BY <1>1, <1>2, <1>5, ParentsSetBelow
<1>7. ~Failed(b) /\ s.pages[root_page_num] = b.pages[root_page_num]
  BY <1>2, <1>4, <1>6, ParentsSetBelow
<1>8. ~Failed(a)
  BY <1>4, <1>7 DEF FailsHalted
<1>9. LeftCopy(old).cells = old.cells
  BY <1>2 DEF LeftCopy, LeafNode
<1>10. a.pages[left.page].cells = old.cells
  BY <1>2, <1>3, <1>8, <1>9
<1>11. a \in Operations /\ old.cells # <<>>
  BY <1>3 DEF Good, old
<1>12. TopIs(b.pages[root_page_num], left.page, Last(old.cells).key, right.page)
  <2>1. TopIs(b.pages[root_page_num], left.page, Last(a.pages[left.page].cells).key, right.page)
    BY <1>2, <1>7, <1>10, <1>11, TopStored DEF b
  <2> QED BY <1>10, <2>1
<1> QED BY <1>6, <1>7, <1>12 DEF old

\* The root, a leaf, is split: its rows go left, its right half to the page new.
LEMMA RootLeafTop ==
  ASSUME NEW o, Good(o), InShape(o.pages), IsLeaf(o.pages[root_page_num]),
         o.pages[root_page_num].cells # <<>>,
         NEW new \in Pages \ {root_page_num}, NEW r, r = create_new_root(o, new), ~Failed(r)
  PROVE  \E left \in Pages \ {root_page_num} :
           /\ ~IsLeaf(o.pages[left]) /\ RootMoved(o.pages, r.pages, left)
           /\ TopIs(r.pages[root_page_num], left, Last(o.pages[root_page_num].cells).key, new)
<1> DEFINE o0 == get_page(o, root_page_num)
           o1 == get_page(o0, new)
           n == o1.num_pages
           o2 == get_page(o1, n)
           root == Pointer(o2, root_page_num)
           right == Pointer(o2, new)
           left == Pointer(o2, n)
           grown == GrowRoot(o2, root, right, left)
<1>1. r = IF Failed(o2) THEN o2 ELSE grown
  BY DEF create_new_root
<1>2. Good(o0) /\ o0.pages = o.pages
  BY RequestKeeps DEF Keeps
<1> HIDE DEF o0
<1>3. Good(o1) /\ o1.pages = o.pages
  BY <1>2, RequestKeeps DEF Keeps
<1> HIDE DEF o1
<1>4. Good(o2) /\ o2.pages = o.pages
  BY <1>3, RequestKeeps DEF Keeps
<1>5. ~Failed(o2) /\ r = grown
  <2> HIDE DEF o2, grown
  <2> QED BY <1>1
<1>6. Fresh(o2, n)
  BY <1>3, <1>5, FreshPage
<1>7. root.page = root_page_num /\ right.page = new /\ left.page = n
  BY DEF Pointer
<1> HIDE DEF o2, n
<1>8. r = GrowRoot(o2, root, right, left)
  BY <1>5
<1> HIDE DEF root, right, left, grown
<1>9. InShape(o2.pages) /\ IsLeaf(o2.pages[root_page_num]) /\ o2.pages[root_page_num].cells # <<>>
  BY <1>4
<1>10. RootMoved(o.pages, r.pages, n)
  BY <1>4, <1>6, <1>7, <1>8, <1>9, LeafRootGrown
<1>11. TopIs(r.pages[root_page_num], n, Last(o.pages[root_page_num].cells).key, new)
  BY <1>4, <1>6, <1>7, <1>8, <1>9, LeafRootTop
<1>12. n \in Pages \ {root_page_num} /\ ~IsLeaf(o.pages[n])
  BY <1>4, <1>6 DEF Fresh
<1> QED BY <1>10, <1>11, <1>12

-----------------------------------------------------------------------------
(***************************************************************************)
(* Rows in ascending order.                                                *)
(***************************************************************************)

\* A row whose key is greater than all is put last.
LEMMA RowGoesLast ==
  ASSUME NEW cells \in Seq(Rows), Rising(cells), NEW row \in Rows,
         \A i \in 1 .. Len(cells) : cells[i].key < row.key,
         NEW c \in 0 .. Len(cells), FromOn(cells, c, row.key),
         NEW all, all = InsertAt(cells, c + 1, row)
  PROVE  /\ all \in Seq(Rows) /\ Len(all) = Len(cells) + 1 /\ Rising(all)
         /\ \A i \in 1 .. Len(all) : IF i <= Len(cells) THEN all[i] = cells[i] ELSE all[i] = row
<1>1. Len(cells) \in Nat /\ \A i \in 1 .. Len(cells) : cells[i] \in Rows
  OBVIOUS
<1>2. row.key \in Nat /\ \A i \in 1 .. Len(cells) : cells[i].key \in Nat
  BY <1>1, KeysAreNat DEF Rows
<1>3. c = Len(cells)
  <2>1. ASSUME c < Len(cells) PROVE FALSE
    <3>1. c + 1 \in c + 1 .. Len(cells) /\ c + 1 \in 1 .. Len(cells)
      BY <1>1, <2>1
    <3>2. row.key <= cells[c + 1].key /\ cells[c + 1].key < row.key
      BY <3>1 DEF FromOn
    <3> QED BY <1>2, <3>1, <3>2
  <2> QED BY <1>1, <2>1
<1>4. /\ all \in Seq(Rows) /\ Len(all) = Len(cells) + 1
      /\ \A i \in 1 .. c : all[i] = cells[i]
      /\ all[c + 1] = row
  <2> DEFINE S == Rows
  <2>1. PICK n : n = c + 1
    OBVIOUS
  <2>2. n \in 1 .. Len(cells) + 1 /\ all = InsertAt(cells, n, row) /\ n - 1 = c
    BY <1>1, <2>1
  <2>3. cells \in Seq(S) /\ row \in S
    OBVIOUS
  <2> HIDE DEF S
  <2>4. /\ InsertAt(cells, n, row) \in Seq(S)
        /\ Len(InsertAt(cells, n, row)) = Len(cells) + 1
        /\ \A i \in 1 .. n - 1 : InsertAt(cells, n, row)[i] = cells[i]
        /\ InsertAt(cells, n, row)[n] = row
    BY ONLY <2>2, <2>3, InsertAtElements
  <2> QED BY <2>1, <2>2, <2>4 DEF S
<1>5. \A i \in 1 .. Len(all) : IF i <= Len(cells) THEN all[i] = cells[i] ELSE all[i] = row
  BY <1>1, <1>3, <1>4
<1>6. \A i \in 1 .. Len(all) : i <= Len(cells) => i \in 1 .. Len(cells)
  BY <1>1
<1>7. ASSUME NEW i \in 1 .. Len(all), NEW j \in 1 .. Len(all), i < j PROVE all[i].key < all[j].key
  <2>1. i <= Len(cells) /\ i \in 1 .. Len(cells)
    BY <1>1, <1>4, <1>7
  <2>2. CASE j <= Len(cells)
    BY <1>5, <1>6, <1>7, <2>1, <2>2 DEF Rising
  <2>3. CASE ~(j <= Len(cells))
    BY <1>5, <1>7, <2>1, <2>3
  <2> QED BY <2>2, <2>3
<1>8. Rising(all)
  BY <1>4, <1>7 DEF Rising
<1> QED BY <1>4, <1>5, <1>8

\* The keys of some rows are among those of others.
KeysAmong(x, all) == \A i \in 1 .. Len(x) : \E j \in 1 .. Len(all) : x[i].key = all[j].key

\* The halves of rows in ascending order, whose texts may be damaged.
LEMMA HalvesRise ==
  ASSUME NEW all, Overfull(all), Rising(all),
         NEW x \in Seq(Rows), SameRows(x, FirstHalf(all)), NEW y \in Seq(Rows), SameRows(y, SecondHalf(all))
  PROVE  /\ Len(x) >= 1 /\ Len(y) >= 1 /\ Rising(x) /\ Rising(y)
         /\ KeysAmong(x, all) /\ KeysAmong(y, all)
         /\ \A i \in 1 .. Len(x) : x[i].key <= x[Len(x)].key
         /\ \A i \in 1 .. Len(y) : x[Len(x)].key < y[i].key
<1> DEFINE f == FirstHalf(all)
           s == SecondHalf(all)
           l == LEFT_SPLIT_COUNT
           n == Len(all)
<1>1. all \in Seq(Rows) /\ InOrder(all) /\ n = LEAF_NODE_MAX_CELLS + 1 /\ n \in Nat
  BY SplitCounts DEF Overfull
<1>2. l \in Nat /\ l >= 1 /\ l < n /\ n - l >= 1
  BY <1>1, SplitCounts
<1>3. /\ f \in Seq(Rows) /\ s \in Seq(Rows) /\ Len(f) = l /\ Len(s) = n - l
      /\ \A i \in 1 .. Len(f) : f[i] = all[i]
      /\ \A i \in 1 .. Len(s) : s[i] = all[l + i]
  <2>1. all \in Seq(Rows) /\ InOrder(all) /\ Len(all) = LEAF_NODE_MAX_CELLS + 1
    BY <1>1
  <2>2. /\ Fits(f) /\ Fits(s) /\ Len(f) = l /\ Len(s) = LEAF_NODE_MAX_CELLS + 1 - l
        /\ \A i \in 1 .. Len(f) : f[i] = all[i]
        /\ \A i \in 1 .. Len(s) : s[i] = all[l + i]
    BY ONLY <2>1, HalvesFit
  <2>3. LEAF_NODE_MAX_CELLS \in Nat
    BY SplitCounts
  <2> HIDE DEF f, s, l, n
  <2>4. f \in Seq(Rows) /\ s \in Seq(Rows)
    BY <2>2 DEF Fits
  <2>5. Len(s) = n - l
    BY <1>1, <1>2, <2>2, <2>3
  <2> QED BY <2>2, <2>4, <2>5
<1> HIDE DEF f, s
<1>4. /\ Len(x) = l /\ \A i \in 1 .. l : x[i].key = all[i].key
      /\ Len(y) = n - l /\ \A i \in 1 .. n - l : y[i].key = all[l + i].key
  <2>1. Len(x) = Len(f) /\ \A i \in 1 .. Len(f) : x[i].key = f[i].key
    BY <1>3, SameKeys DEF f
  <2>2. Len(y) = Len(s) /\ \A i \in 1 .. Len(s) : y[i].key = s[i].key
    BY <1>3, SameKeys DEF s
  <2> QED BY <1>3, <2>1, <2>2
<1> HIDE DEF l
<1>5. \A i, j \in 1 .. n : i < j => all[i].key < all[j].key
  BY <1>1 DEF Rising
<1>6. \A i \in 1 .. n : all[i].key \in Nat
  <2>1. \A i \in 1 .. n : all[i] \in Rows
    BY <1>1
  <2> QED BY <2>1, KeysAreNat DEF Rows
<1> HIDE DEF n
<1>7. (\A i \in 1 .. l : i \in 1 .. n) /\ \A i \in 1 .. n - l : l + i \in 1 .. n /\ l < l + i
  BY <1>1, <1>2
<1>8. Rising(x)
  BY <1>4, <1>5, <1>7 DEF Rising
<1>9. Rising(y)
  <2>1. ASSUME NEW i \in 1 .. n - l, NEW j \in 1 .. n - l, i < j PROVE y[i].key < y[j].key
    <3>1. l + i < l + j
      BY <1>2, <2>1
    <3> QED BY <1>4, <1>5, <1>7, <3>1
  <2> QED BY <1>4, <2>1 DEF Rising
<1>10. KeysAmong(x, all) /\ KeysAmong(y, all)
  BY <1>4, <1>7 DEF KeysAmong, n
<1>11. l \in 1 .. l /\ l \in 1 .. n
  BY <1>2, <1>7
<1>12. ASSUME NEW i \in 1 .. Len(x) PROVE x[i].key <= x[Len(x)].key
  <2>1. i \in 1 .. l /\ i \in 1 .. n /\ (i = l \/ i < l)
    BY <1>2, <1>4, <1>7
  <2>2. i < l => all[i].key < all[l].key
    BY <1>5, <1>11, <2>1
  <2> QED BY <1>4, <1>6, <1>11, <2>1, <2>2
<1>13. \A i \in 1 .. Len(y) : x[Len(x)].key < y[i].key
  BY <1>4, <1>5, <1>7, <1>11
<1> QED BY <1>2, <1>4, <1>8, <1>9, <1>10, <1>12, <1>13

-----------------------------------------------------------------------------
(***************************************************************************)
(* The root's keys part those of the leaves under it.                      *)
(***************************************************************************)

Orderly(tree) ==
  LET root == tree[root_page_num]
  IN IF IsLeaf(root) THEN Rising(root.cells)
     ELSE \A m \in 1 .. Len(root.cells) + 1 :
            LET cells == tree[KidAt(root, m)].cells
            IN Rising(cells) /\ \A j \in 1 .. Len(cells) : Belongs(root, m, cells[j].key)

LEMMA KidsNumbered ==
  ASSUME NEW node \in InternalNode, ~Open(node)
  PROVE  /\ \A m \in 1 .. Len(node.cells) + 1 : KidAt(node, m) \in Kids(node)
         /\ \A c \in Kids(node) : \E m \in 1 .. Len(node.cells) + 1 : KidAt(node, m) = c
         /\ KidAt(node, Len(node.cells) + 1) = node.right
         /\ Apart(node) => \A m \in 1 .. Len(node.cells) : KidAt(node, m) # node.right
<1>1. Len(node.cells) \in Nat /\ ~IsLeaf(node) /\ node.right # INVALID_PAGE_NUM
  BY InternalFields DEF Open
<1> DEFINE n == Len(node.cells)
<1>2. Kids(node) = Firsts(node.cells) \cup {node.right}
  BY <1>1 DEF Kids
<1>3. KidAt(node, n + 1) = node.right /\ n + 1 \in 1 .. n + 1
  BY <1>1 DEF KidAt
<1>4. \A m \in 1 .. n : KidAt(node, m) = node.cells[m].child /\ KidAt(node, m) \in Firsts(node.cells)
  BY <1>1 DEF KidAt, Firsts
<1>5. \A c \in Firsts(node.cells) : \E m \in 1 .. n : KidAt(node, m) = c
  BY <1>4 DEF Firsts
<1>6. \A m \in 1 .. n + 1 : m \in 1 .. n \/ m = n + 1
  BY <1>1
<1>7. \A m \in 1 .. n : m \in 1 .. n + 1
  BY <1>1
<1> HIDE DEF n
<1>8. \A m \in 1 .. n + 1 : KidAt(node, m) \in Kids(node)
  BY <1>2, <1>3, <1>4, <1>6
<1>9. \A c \in Kids(node) : \E m \in 1 .. n + 1 : KidAt(node, m) = c
  BY <1>2, <1>3, <1>5, <1>7
<1>10. Apart(node) => \A m \in 1 .. n : KidAt(node, m) # node.right
  BY <1>4 DEF Apart
<1> QED BY <1>3, <1>8, <1>9, <1>10 DEF n

\* The keys of the root of a tree in order are in order.
LEMMA RootKeysRise ==
  ASSUME NEW tree \in [Pages -> Node], NEW n, TwoLevels(tree, n), Orderly(tree), InShape(tree), NoneEmpty(tree)
  PROVE  LET root == tree[root_page_num]
         IN /\ InOrder(root.cells)
            /\ \A m \in 1 .. Len(root.cells) + 1 :
                 LET cells == tree[KidAt(root, m)].cells
                 IN /\ KidAt(root, m) \in Pages \ {root_page_num} /\ IsLeaf(tree[KidAt(root, m)])
                    /\ cells \in Seq(Rows) /\ 1 \in 1 .. Len(cells) /\ cells[1].key \in Nat
                    /\ Belongs(root, m, cells[1].key)
<1> DEFINE root == tree[root_page_num]
           k == Len(root.cells)
           KidCells(m) == tree[KidAt(root, m)].cells
<1>1. /\ root \in InternalNode /\ ~Open(root) /\ Apart(root) /\ ~IsLeaf(root)
      /\ \A c \in Kids(root) : c \in Pages /\ c # root_page_num /\ IsLeaf(tree[c])
  BY InternalFields DEF TwoLevels
<1>2. \A m \in 1 .. k + 1 : KidAt(root, m) \in Kids(root)
  BY <1>1, KidsNumbered
<1>3. k \in Nat /\ \A i \in 1 .. k : root.cells[i].key \in Nat
  <2>1. root.cells \in Seq(InternalCell)
    BY <1>1, InternalFields
  <2>2. k \in Nat /\ \A i \in 1 .. k : root.cells[i] \in InternalCell
    BY <2>1
  <2> QED BY <2>2 DEF InternalCell
<1>4. \A m \in 1 .. k + 1 : \A j \in 1 .. Len(KidCells(m)) : Belongs(root, m, KidCells(m)[j].key)
  BY <1>1 DEF Orderly
<1> HIDE DEF root, k
<1>5. ASSUME NEW m \in 1 .. k + 1
      PROVE  /\ KidAt(root, m) \in Pages \ {root_page_num} /\ IsLeaf(tree[KidAt(root, m)])
             /\ KidCells(m) \in Seq(Rows) /\ 1 \in 1 .. Len(KidCells(m)) /\ KidCells(m)[1].key \in Nat
             /\ Belongs(root, m, KidCells(m)[1].key)
  <2> DEFINE q == KidAt(root, m)
             cells == tree[q].cells
  <2>1. q \in Pages \ {root_page_num} /\ IsLeaf(tree[q])
    BY <1>1, <1>2
  <2>2. cells \in Seq(Rows) /\ cells # <<>>
    BY <2>1 DEF InShape, Fits, NoneEmpty
  <2> HIDE DEF q
  <2>3. cells = KidCells(m)
    BY DEF q
  <2> HIDE DEF cells, KidCells
  <2>4. 1 \in 1 .. Len(cells)
    BY <2>2
  <2>5. cells[1] \in Rows
    BY <2>2, <2>4
  <2>6. cells[1].key \in Nat
    BY <2>5, KeysAreNat DEF Rows
  <2>7. Belongs(root, m, cells[1].key)
    BY <1>4, <2>3, <2>4
  <2> QED BY <2>1, <2>2, <2>3, <2>4, <2>6, <2>7 DEF q
<1>6. ASSUME NEW i \in 1 .. k, NEW j \in 1 .. k, i < j PROVE root.cells[i].key <= root.cells[j].key
  <2>1. j \in 1 .. k + 1 /\ ~(j <= i) /\ j <= j
    BY <1>3, <1>6
  <2> DEFINE key == KidCells(j)[1].key
  <2>2. key \in Nat /\ Belongs(root, j, key)
    BY <1>5, <2>1
  <2> HIDE DEF key
  <2>3. root.cells[i].key < key /\ key <= root.cells[j].key
    BY <2>1, <2>2 DEF Belongs, k
  <2> QED BY <1>3, <2>2, <2>3
<1>7. DOMAIN root.cells = 1 .. k
  <2>1. root.cells \in Seq(InternalCell)
    BY <1>1, InternalFields
  <2> QED BY <2>1 DEF k
<1>8. InOrder(root.cells)
  BY <1>6, <1>7 DEF InOrder
<1> QED BY <1>5, <1>8 DEF root, k

\* A key greater than all in the tree belongs under the last child.
LEMMA GreatestIsLast ==
  ASSUME NEW tree \in [Pages -> Node], NEW n, TwoLevels(tree, n), Orderly(tree), InShape(tree), NoneEmpty(tree),
         NEW key \in Nat,
         \A q \in Pages : IsLeaf(tree[q]) => \A j \in 1 .. Len(tree[q].cells) : tree[q].cells[j].key < key
  PROVE  /\ Belongs(tree[root_page_num], Len(tree[root_page_num].cells) + 1, key)
         /\ table_find(tree, key).page = tree[root_page_num].right
<1> DEFINE root == tree[root_page_num]
           k == Len(root.cells)
<1>1. root \in InternalNode /\ ~Open(root) /\ Apart(root) /\ ~IsLeaf(root)
  BY InternalFields DEF TwoLevels
<1>2. k \in Nat /\ \A i \in 1 .. k : root.cells[i].key \in Nat
  <2>1. root.cells \in Seq(InternalCell)
    BY <1>1, InternalFields
  <2>2. k \in Nat /\ \A i \in 1 .. k : root.cells[i] \in InternalCell
    BY <2>1
  <2> QED BY <2>2 DEF InternalCell
<1>3. /\ InOrder(root.cells)
      /\ \A m \in 1 .. k + 1 :
           LET cells == tree[KidAt(root, m)].cells
           IN /\ KidAt(root, m) \in Pages \ {root_page_num} /\ IsLeaf(tree[KidAt(root, m)])
              /\ cells \in Seq(Rows) /\ 1 \in 1 .. Len(cells) /\ cells[1].key \in Nat
              /\ Belongs(root, m, cells[1].key)
  BY RootKeysRise
<1>4. KidAt(root, k + 1) = root.right
  BY <1>1, KidsNumbered
<1>5. k + 1 \in 1 .. k + 1
  BY <1>2
<1> HIDE DEF root
<1>6. ASSUME NEW i \in 1 .. k PROVE ~(k + 1 <= i) /\ root.cells[i].key < key
  <2>1. PICK m : m = i + 1
    OBVIOUS
  <2>2. m \in 1 .. k + 1 /\ ~(m <= i) /\ ~(k + 1 <= i)
    BY <1>2, <2>1
  <2> DEFINE first == tree[KidAt(root, m)].cells[1].key
  <2>3. first \in Nat /\ first < key /\ Belongs(root, m, first)
    BY <1>3, <2>2
  <2> HIDE DEF first
  <2>4. root.cells[i].key < first
    BY <2>2, <2>3 DEF Belongs, k
  <2> QED BY <1>2, <2>2, <2>3, <2>4
<1>7. Belongs(root, k + 1, key)
  BY <1>6 DEF Belongs
<1>8. root.right \in Pages /\ IsLeaf(tree[root.right])
  BY <1>3, <1>4, <1>5
<1>9. internal_node_find(tree, root_page_num, key) = root.right
  BY <1>1, <1>3, <1>4, <1>5, <1>7, <1>8, FindsUnderRoot DEF root
<1>10. table_find(tree, key).page = root.right
  BY <1>1, <1>9 DEF table_find, root
<1> QED BY <1>7, <1>10 DEF root

\* Rows added in the last leaf, which has room.
LEMMA OrderlyMore ==
  ASSUME NEW a, NEW n, TwoLevels(a, n), Orderly(a),
         NEW all, Rising(all),
         \A j \in 1 .. Len(all) : Belongs(a[root_page_num], Len(a[root_page_num].cells) + 1, all[j].key),
         NEW b, b[a[root_page_num].right].cells = all,
         \A q \in Pages \ {a[root_page_num].right} : b[q] = a[q]
  PROVE  Orderly(b)
<1> DEFINE root == a[root_page_num]
           k == Len(root.cells)
<1>1. /\ root \in InternalNode /\ ~Open(root) /\ Apart(root) /\ ~IsLeaf(root) /\ k \in Nat
      /\ \A c \in Kids(root) : c \in Pages /\ c # root_page_num
  BY InternalFields DEF TwoLevels
<1>2. /\ \A m \in 1 .. k + 1 : KidAt(root, m) \in Pages
      /\ KidAt(root, k + 1) = root.right /\ root.right # root_page_num
      /\ \A m \in 1 .. k : KidAt(root, m) # root.right
  <2>1. k + 1 \in 1 .. k + 1
    BY <1>1
  <2> QED BY <1>1, <2>1, KidsNumbered
<1>3. \A m \in 1 .. k + 1 : /\ Rising(a[KidAt(root, m)].cells)
                            /\ \A j \in 1 .. Len(a[KidAt(root, m)].cells) :
                                 Belongs(root, m, a[KidAt(root, m)].cells[j].key)
  BY <1>1 DEF Orderly
<1>4. b[root_page_num] = root
  BY <1>2, PageNumbers
<1> HIDE DEF root
<1>5. ASSUME NEW m \in 1 .. k + 1
      PROVE  /\ Rising(b[KidAt(root, m)].cells)
             /\ \A j \in 1 .. Len(b[KidAt(root, m)].cells) : Belongs(root, m, b[KidAt(root, m)].cells[j].key)
  <2>1. CASE m = k + 1
    <3>1. b[KidAt(root, m)].cells = all
      BY <1>2, <2>1 DEF root
    <3> QED BY <2>1, <3>1 DEF root
  <2>2. CASE m # k + 1
    <3>1. m \in 1 .. k
      BY <1>1, <2>2
    <3>2. b[KidAt(root, m)] = a[KidAt(root, m)]
      BY <1>2, <3>1 DEF root
    <3> QED BY <1>3, <3>2
  <2> QED BY <2>1, <2>2
<1> QED BY <1>1, <1>4, <1>5 DEF Orderly

\* The last leaf split, its second half put past it under the root.
LEMMA OrderlySplit ==
  ASSUME NEW a, NEW n, TwoLevels(a, n), Orderly(a),
         NEW p, p = a[root_page_num].right,
         NEW all, Overfull(all), Rising(all),
         \A j \in 1 .. Len(all) : Belongs(a[root_page_num], Len(a[root_page_num].cells) + 1, all[j].key),
         InShape(a), NEW x, InShape(x), NEW new, Divided(a, x, p, new, all), x[root_page_num] = a[root_page_num],
         new \notin Kids(a[root_page_num]),
         NEW key, x[p].cells # <<>> => key = Last(x[p].cells).key,
         NEW b, PutLast(x, b, root_page_num, new, key)
  PROVE  Orderly(b)
<1> DEFINE root == a[root_page_num]
           k == Len(root.cells)
           top == b[root_page_num]
           f == x[p].cells
           s == x[new].cells
<1>1. /\ root \in InternalNode /\ ~Open(root) /\ Apart(root) /\ ~IsLeaf(root) /\ k \in Nat
      /\ \A c \in Kids(root) : c \in Pages /\ c # root_page_num /\ IsLeaf(a[c])
      /\ root.cells \in Seq(InternalCell)
  BY InternalFields DEF TwoLevels
<1>2. /\ \A m \in 1 .. k + 1 : KidAt(root, m) \in Kids(root)
      /\ KidAt(root, k + 1) = p /\ p \in Kids(root)
      /\ \A m \in 1 .. k : KidAt(root, m) # p
  <2>1. k + 1 \in 1 .. k + 1
    BY <1>1
  <2> QED BY <1>1, <2>1, KidsNumbered
<1>3. \A m \in 1 .. k + 1 : /\ Rising(a[KidAt(root, m)].cells)
                            /\ \A j \in 1 .. Len(a[KidAt(root, m)].cells) :
                                 Belongs(root, m, a[KidAt(root, m)].cells[j].key)
  BY <1>1 DEF Orderly
<1>4. /\ new \in Pages \ {p, root_page_num} /\ IsLeaf(x[p]) /\ IsLeaf(x[new])
      /\ SameRows(f, FirstHalf(all)) /\ SameRows(s, SecondHalf(all))
      /\ \A q \in Pages \ {p, new} : IsLeaf(a[q]) => x[q].cells = a[q].cells
  BY DEF Divided, OthersKept, LeafIs
<1>5. f \in Seq(Rows) /\ s \in Seq(Rows)
  BY <1>1, <1>2, <1>4 DEF InShape, Fits
<1>6. /\ top \in InternalNode /\ ~IsLeaf(top) /\ top.right = new
      /\ top.cells = Append(root.cells, [child |-> p, key |-> key])
      /\ \A q \in Pages \ {root_page_num} : b[q] = x[q]
  BY InternalFields DEF PutLast
<1> HIDE DEF root, top, f, s
<1>7. /\ Len(f) >= 1 /\ Len(s) >= 1 /\ Rising(f) /\ Rising(s)
      /\ KeysAmong(f, all) /\ KeysAmong(s, all)
      /\ \A i \in 1 .. Len(f) : f[i].key <= f[Len(f)].key
      /\ \A i \in 1 .. Len(s) : f[Len(f)].key < s[i].key
  BY <1>4, <1>5, HalvesRise
<1>8. Len(f) \in Nat /\ Len(f) \in 1 .. Len(f) /\ key = f[Len(f)].key
  <2>1. Len(f) \in Nat /\ Len(f) \in 1 .. Len(f) /\ f # <<>>
    BY <1>5, <1>7
  <2> QED BY <2>1 DEF Last, f
<1>9. /\ Len(top.cells) = k + 1
      /\ \A i \in 1 .. k : top.cells[i] = root.cells[i]
      /\ top.cells[k + 1].child = p /\ top.cells[k + 1].key = key
  <2> DEFINE cell == [child |-> p, key |-> key]
  <2>1. top.cells = Append(root.cells, cell) /\ cell.child = p /\ cell.key = key
    BY <1>6
  <2> HIDE DEF cell
  <2> QED BY <1>1, <2>1
<1>10. ASSUME NEW j \in 1 .. Len(all), NEW i \in 1 .. k PROVE root.cells[i].key < all[j].key
  <2>1. Belongs(root, k + 1, all[j].key)
    BY DEF root
  <2>2. i \in 1 .. Len(root.cells) /\ ~(k + 1 <= i)
    BY <1>1
  <2> QED BY <2>1, <2>2 DEF Belongs
<1>11. /\ \A j \in 1 .. Len(f), i \in 1 .. k : root.cells[i].key < f[j].key
       /\ \A j \in 1 .. Len(s), i \in 1 .. k : root.cells[i].key < s[j].key
  BY <1>7, <1>10 DEF KeysAmong
<1>12. key \in Nat /\ \A i \in 1 .. k : root.cells[i].key \in Nat
  <2>1. f[Len(f)] \in Rows /\ \A i \in 1 .. k : root.cells[i] \in InternalCell
    BY <1>1, <1>5, <1>8
  <2> QED BY <1>8, <2>1, KeysAreNat DEF Rows, InternalCell
<1>13. \A i \in 1 .. k : root.cells[i].key < key
  BY <1>8, <1>11
<1> DEFINE Sound(m) == LET cells == b[KidAt(top, m)].cells
                       IN Rising(cells) /\ \A j \in 1 .. Len(cells) : Belongs(top, m, cells[j].key)
<1>14. ASSUME NEW m \in 1 .. k PROVE Sound(m)
  <2> DEFINE q == KidAt(root, m)
             cells == a[q].cells
  <2>1. m \in 1 .. k + 1 /\ m <= k + 1 /\ m <= k /\ q \in Kids(root) /\ q # p
    BY <1>1, <1>2
  <2>2. q = KidAt(top, m)
    BY <1>9, <2>1 DEF KidAt
  <2>3. b[q].cells = cells
    <3>1. q \in Pages \ {p, new} /\ q # root_page_num /\ IsLeaf(a[q])
      BY <1>1, <2>1 DEF root
    <3> QED BY <1>4, <1>6, <3>1
  <2>4. Rising(cells) /\ \A j \in 1 .. Len(cells) : Belongs(root, m, cells[j].key)
    BY <1>3, <2>1
  <2>5. \A j \in 1 .. Len(cells) : cells[j].key \in Nat
    <3>1. cells \in Seq(Rows)
      BY <1>1, <2>1 DEF InShape, Fits
    <3> HIDE DEF cells
    <3>2. \A j \in 1 .. Len(cells) : cells[j] \in Rows
      BY <3>1
    <3> QED BY <3>2, KeysAreNat DEF Rows
  <2> HIDE DEF q, cells
  <2>6. ASSUME NEW j \in 1 .. Len(cells) PROVE Belongs(top, m, cells[j].key)
    <3> DEFINE y == cells[j].key
    <3>1. Belongs(root, m, y) /\ y <= root.cells[m].key /\ y \in Nat
      BY <2>1, <2>4, <2>5 DEF Belongs
    <3> HIDE DEF y
    <3>2. ASSUME NEW i \in 1 .. k PROVE IF m <= i THEN y <= top.cells[i].key ELSE top.cells[i].key < y
      BY <1>9, <3>1, <3>2 DEF Belongs
    <3>3. y <= key
      BY <1>12, <1>13, <2>1, <3>1
    <3>4. ASSUME NEW i \in 1 .. Len(top.cells)
          PROVE  IF m <= i THEN y <= top.cells[i].key ELSE top.cells[i].key < y
      <4>1. i \in 1 .. k \/ (i = k + 1 /\ m <= i)
        BY <1>1, <1>9, <2>1
      <4> QED BY <1>9, <3>2, <3>3, <4>1
    <3> QED BY <3>4 DEF Belongs, y
  <2> QED BY <2>2, <2>3, <2>4, <2>6
<1>15. Sound(k + 1)
  <2>1. KidAt(top, k + 1) = p
    BY <1>1, <1>9 DEF KidAt
  <2>2. b[p].cells = f
    BY <1>1, <1>2, <1>6 DEF f, root
  <2>3. ASSUME NEW j \in 1 .. Len(f) PROVE Belongs(top, k + 1, f[j].key)
    <3>1. ASSUME NEW i \in 1 .. Len(top.cells)
          PROVE  IF k + 1 <= i THEN f[j].key <= top.cells[i].key ELSE top.cells[i].key < f[j].key
      <4>1. (i \in 1 .. k /\ ~(k + 1 <= i)) \/ (i = k + 1 /\ k + 1 <= i)
        BY <1>1, <1>9
      <4> QED BY <1>7, <1>8, <1>9, <1>11, <4>1
    <3> QED BY <3>1 DEF Belongs
  <2> QED BY <1>7, <2>1, <2>2, <2>3
<1>16. Sound(k + 2)
  <2>1. KidAt(top, k + 2) = new
    BY <1>1, <1>6, <1>9 DEF KidAt
  <2>2. b[new].cells = s
    BY <1>4, <1>6 DEF s
  <2>3. ASSUME NEW j \in 1 .. Len(s) PROVE Belongs(top, k + 2, s[j].key)
    <3>1. ASSUME NEW i \in 1 .. Len(top.cells)
          PROVE  IF k + 2 <= i THEN s[j].key <= top.cells[i].key ELSE top.cells[i].key < s[j].key
      <4>1. (i \in 1 .. k \/ i = k + 1) /\ ~(k + 2 <= i)
        BY <1>1, <1>9
      <4> QED BY <1>7, <1>8, <1>9, <1>11, <4>1
    <3> QED BY <3>1 DEF Belongs
  <2> QED BY <1>7, <2>1, <2>2, <2>3
<1>17. \A m \in 1 .. Len(top.cells) + 1 : m \in 1 .. k \/ m = k + 1 \/ m = k + 2
  BY <1>1, <1>9
<1>18. \A m \in 1 .. Len(top.cells) + 1 : Sound(m)
  <2> HIDE DEF Sound, k
  <2> QED BY <1>14, <1>15, <1>16, <1>17
<1> QED BY <1>6, <1>18 DEF Orderly, top

\* The root, a leaf, split.
LEMMA OrderlyRoot ==
  ASSUME NEW a, NEW all, Overfull(all), Rising(all),
         NEW x, InShape(x), NEW new, Divided(a, x, root_page_num, new, all),
         NEW left \in Pages \ {root_page_num}, left # new,
         NEW b, RootMoved(x, b, left),
         TopIs(b[root_page_num], left, Last(x[root_page_num].cells).key, new)
  PROVE  Orderly(b)
<1> DEFINE top == b[root_page_num]
           f == x[root_page_num].cells
           s == x[new].cells
           key == Last(f).key
           cell == [child |-> left, key |-> key]
<1>1. /\ new \in Pages \ {root_page_num} /\ IsLeaf(x[root_page_num]) /\ IsLeaf(x[new])
      /\ SameRows(f, FirstHalf(all)) /\ SameRows(s, SecondHalf(all))
  BY DEF Divided, LeafIs
<1>2. f \in Seq(Rows) /\ s \in Seq(Rows)
  BY <1>1, PageNumbers DEF InShape, Fits
<1>3. b[left].cells = f /\ b[new].cells = s
  BY <1>1 DEF RootMoved, OthersKept
<1>4. ~IsLeaf(top) /\ top.cells = <<cell>> /\ top.right = new
  BY DEF TopIs
<1>5. Len(top.cells) = 1 /\ top.cells[1].child = left /\ top.cells[1].key = key
  <2>1. cell.child = left /\ cell.key = key
    OBVIOUS
  <2> HIDE DEF cell
  <2> QED BY <1>4, <2>1
<1> HIDE DEF top, f, s, cell
<1>6. /\ Len(f) >= 1 /\ Len(s) >= 1 /\ Rising(f) /\ Rising(s)
      /\ \A i \in 1 .. Len(f) : f[i].key <= f[Len(f)].key
      /\ \A i \in 1 .. Len(s) : f[Len(f)].key < s[i].key
  BY <1>1, <1>2, HalvesRise
<1>7. key = f[Len(f)].key
  BY <1>2, <1>6 DEF Last
<1> DEFINE Sound(m) == LET cells == b[KidAt(top, m)].cells
                       IN Rising(cells) /\ \A j \in 1 .. Len(cells) : Belongs(top, m, cells[j].key)
<1>8. Sound(1)
  <2>1. KidAt(top, 1) = left
    BY <1>5 DEF KidAt
  <2>2. \A j \in 1 .. Len(f) : Belongs(top, 1, f[j].key)
    BY <1>5, <1>6, <1>7 DEF Belongs
  <2> QED BY <1>3, <1>6, <2>1, <2>2
<1>9. Sound(2)
  <2>1. KidAt(top, 2) = new
    BY <1>4, <1>5 DEF KidAt
  <2>2. \A j \in 1 .. Len(s) : Belongs(top, 2, s[j].key)
    BY <1>5, <1>6, <1>7 DEF Belongs
  <2> QED BY <1>3, <1>6, <2>1, <2>2
<1>10. \A m \in 1 .. Len(top.cells) + 1 : m = 1 \/ m = 2
  BY <1>5
<1>11. \A m \in 1 .. Len(top.cells) + 1 : Sound(m)
  <2> HIDE DEF Sound
  <2> QED BY <1>8, <1>9, <1>10
<1> QED BY <1>4, <1>11 DEF Orderly, top

-----------------------------------------------------------------------------
(***************************************************************************)
(* An insertion of a key greater than all.                                 *)
(***************************************************************************)

\* leaf_node_insert() into a leaf with room.
LEMMA RoomInserted ==
  ASSUME NEW o, NEW p, NEW c, NEW row, Target(o, p, c, row), ~Full(o.pages[p]),
         NEW h, Ranked(o.pages, o.num_pages, h, {}), p \in DOMAIN h,
         NEW r, r = leaf_node_insert(o, p, c, row), ~Failed(r)
  PROVE  /\ IsLeaf(r.pages[p]) /\ r.pages[p].cells = With(o, p, c, row)
         /\ \A q \in Pages \ {p} : r.pages[q] = o.pages[q]
         /\ r.num_pages = o.num_pages
<1> DEFINE o1 == get_page(o, p)
           node == o1.pages[p]
           all == InsertAt(node.cells, c + 1, row)
           with == [node EXCEPT !.cells = InsertAt(@, c + 1, row)]
           ptr == Pointer(o1, p)
<1>1. /\ Target(o1, p, c, row) /\ o1.pages = o.pages /\ o1.num_pages = o.num_pages
      /\ With(o1, p, c, row) = With(o, p, c, row)
  BY SplitTarget
<1>2. o1 \in Operations /\ p \in Pages /\ IsLeaf(node) /\ o1.pages \in [Pages -> Node]
  BY <1>1, OperationFields DEF Target, Good
<1>3. node \in LeafNode
  BY <1>2, NodeFields
<1>4. r = StoreNode(o1, ptr, with)
  BY <1>1 DEF leaf_node_insert, Full
<1>5. ptr.page = p
  BY DEF Pointer
<1>6. all = With(o, p, c, row) /\ all \in Seq(Rows)
  BY <1>1, RowPlaced DEF With
<1>7. with = [node EXCEPT !.cells = all]
  OBVIOUS
<1> HIDE DEF o1, node, all, with, ptr
<1>8. with \in LeafNode /\ with.cells = all
  BY <1>3, <1>6, <1>7 DEF LeafNode
<1>9. with \in Node /\ IsLeaf(with)
  BY <1>8, InternalFields DEF Node, IsLeaf, LeafNode
<1>10. /\ r.num_pages = o1.num_pages
       /\ \A q \in Pages : r.pages[q] = IF q = p THEN with ELSE o1.pages[q]
  BY ONLY <1>2, <1>4, <1>5, <1>9, ~Failed(r), StoredExactly
<1> QED BY <1>1, <1>2, <1>6, <1>8, <1>9, <1>10

\* leaf_node_insert() into a full leaf that is not the root.
LEMMA FullInserted ==
  ASSUME NEW o, NEW p, NEW c, NEW row, Target(o, p, c, row), Full(o.pages[p]), p # root_page_num,
         NEW h, Ranked(o.pages, o.num_pages, h, {}), p \in DOMAIN h,
         NEW r, r = leaf_node_insert(o, p, c, row), ~Failed(r)
  PROVE  \E x : PutAbove(o, p, With(o, p, c, row), x, r)
<1> DEFINE o1 == get_page(o, p)
           all == With(o, p, c, row)
<1>1. /\ Target(o1, p, c, row) /\ o1.pages = o.pages /\ o1.num_pages = o.num_pages
      /\ With(o1, p, c, row) = all
  BY SplitTarget
<1>2. r = leaf_node_split_and_insert(o1, p, c, row)
  BY <1>1 DEF leaf_node_insert, Full
<1> HIDE DEF o1, all
<1>3. Full(o1.pages[p])
  BY <1>1
<1>4. PICK x : PutAbove(o1, p, all, x, r)
  BY ONLY <1>1, <1>2, <1>3, p # root_page_num, ~Failed(r), LeafSplit
<1>5. PutAbove(o, p, all, x, r)
  BY <1>1, <1>4 DEF PutAbove
<1> QED BY <1>5 DEF all

\* leaf_node_insert() into the root, a full leaf.
LEMMA RootInserted ==
  ASSUME NEW o, NEW c, NEW row, Target(o, root_page_num, c, row), Full(o.pages[root_page_num]),
         NEW h, Ranked(o.pages, o.num_pages, h, {}), root_page_num \in DOMAIN h,
         NEW r, r = leaf_node_insert(o, root_page_num, c, row), ~Failed(r)
  PROVE  \E x, new : PutUnder(o, With(o, root_page_num, c, row), x, new, r)
<1> DEFINE o1 == get_page(o, root_page_num)
           all == With(o, root_page_num, c, row)
<1>1. /\ Target(o1, root_page_num, c, row) /\ o1.pages = o.pages /\ o1.num_pages = o.num_pages
      /\ With(o1, root_page_num, c, row) = all
  BY SplitTarget
<1>2. r = leaf_node_split_and_insert(o1, root_page_num, c, row)
  BY <1>1 DEF leaf_node_insert, Full
<1> HIDE DEF o1, all
<1>3. Full(o1.pages[root_page_num])
  BY <1>1
<1>4. PICK x, new : PutUnder(o1, all, x, new, r)
  BY ONLY <1>1, <1>2, <1>3, ~Failed(r), RootLeafSplit
<1>5. PutUnder(o, all, x, new, r)
  BY <1>1, <1>4 DEF PutUnder
<1> QED BY <1>5 DEF all

\* The other nodes of a tree with an internal root stay leaves, or internal nodes.
LEMMA KindsStay ==
  ASSUME NEW o, NEW p, NEW c, NEW row, Target(o, p, c, row), p # root_page_num,
         NEW h, Ranked(o.pages, o.num_pages, h, {}), p \in DOMAIN h,
         NEW r, r = leaf_node_insert(o, p, c, row), ~Failed(r)
  PROVE  /\ o.num_pages <= r.num_pages
         /\ \A q \in Pages : q < o.num_pages => (IsLeaf(r.pages[q]) <=> IsLeaf(o.pages[q]))
<1>0. o.num_pages \in Nat /\ o.num_pages <= FILE_PAGES_NUM /\ IsLeaf(o.pages[p]) /\ FILE_PAGES_NUM \in Nat
  BY PagePointersAssumption DEF Target, Good, Shaped, PagePointersAssumption
<1>1. CASE ~Full(o.pages[p])
  BY <1>0, <1>1, RoomInserted
<1>2. CASE Full(o.pages[p])
  <2>1. PICK x : PutAbove(o, p, With(o, p, c, row), x, r)
    BY <1>2, FullInserted
  <2>2. /\ x.num_pages = o.num_pages + 1 /\ x.num_pages <= r.num_pages /\ r.num_pages \in Nat
        /\ LeavesKept(x.pages, r.pages)
    <3>1. x.num_pages = o.num_pages + 1 /\ Keeps(x, r)
      BY <2>1 DEF PutAbove
    <3>2. Good(r) /\ x.num_pages <= r.num_pages /\ LeavesKept(x.pages, r.pages)
      BY ONLY <3>1 DEF Keeps
    <3>3. r.num_pages \in Nat
      BY ONLY <3>2 DEF Good, Shaped
    <3> QED BY <3>1, <3>2, <3>3
  <2>3. /\ OthersKept(o.pages, x.pages, {p, o.num_pages}) /\ IsLeaf(x.pages[p])
    BY <2>1 DEF PutAbove, Divided, LeafIs
  <2>4. ASSUME NEW q \in Pages, q < o.num_pages PROVE IsLeaf(r.pages[q]) <=> IsLeaf(o.pages[q])
    <3>1. q # o.num_pages
      BY <1>0, <2>4
    <3>2. IsLeaf(x.pages[q]) <=> IsLeaf(o.pages[q])
      BY <1>0, <2>3, <3>1 DEF OthersKept
    <3> QED BY <2>2, <3>2 DEF LeavesKept
  <2> QED BY <1>0, <2>2, <2>4
<1> QED BY <1>1, <1>2

\* A row whose key is greater than all in the root, a leaf.
LEMMA RootStaysOrderly ==
  ASSUME NEW o, NEW c, NEW row, Target(o, root_page_num, c, row),
         NEW h, Ranked(o.pages, o.num_pages, h, {}), root_page_num \in DOMAIN h,
         Rising(o.pages[root_page_num].cells),
         \A i \in 1 .. Len(o.pages[root_page_num].cells) : o.pages[root_page_num].cells[i].key < row.key,
         NEW r, r = leaf_node_insert(o, root_page_num, c, row), ~Failed(r)
  PROVE  Orderly(r.pages)
<1> DEFINE cells == o.pages[root_page_num].cells
           all == With(o, root_page_num, c, row)
<1>1. cells \in Seq(Rows) /\ c \in 0 .. Len(cells) /\ FromOn(cells, c, row.key) /\ row \in Rows
  BY RowPlaced DEF Target, Fits
<1>2. all = InsertAt(cells, c + 1, row)
  BY DEF With
<1> HIDE DEF all, cells
<1>3. Rising(cells) /\ \A i \in 1 .. Len(cells) : cells[i].key < row.key
  BY DEF cells
<1>4. Rising(all)
  BY ONLY <1>1, <1>2, <1>3, RowGoesLast
<1>5. CASE ~Full(o.pages[root_page_num])
  <2>1. IsLeaf(r.pages[root_page_num]) /\ r.pages[root_page_num].cells = all
    BY <1>5, RoomInserted DEF all
  <2> QED BY <1>4, <2>1 DEF Orderly
<1>6. CASE Full(o.pages[root_page_num])
  <2>1. PICK x, new : PutUnder(o, all, x, new, r)
    BY <1>6, RootInserted DEF all
  <2>2. /\ Good(x) /\ InShape(x.pages) /\ Divided(o.pages, x.pages, root_page_num, new, all)
        /\ Overfull(all) /\ r = create_new_root(x, new)
    BY <2>1 DEF PutUnder
  <2>3. /\ new \in Pages \ {root_page_num} /\ IsLeaf(x.pages[new]) /\ IsLeaf(x.pages[root_page_num])
        /\ SameRows(x.pages[root_page_num].cells, FirstHalf(all))
        /\ SameRows(x.pages[new].cells, SecondHalf(all))
    BY <2>2 DEF Divided, LeafIs
  <2>4. x.pages[root_page_num].cells # <<>>
    <3> DEFINE f == x.pages[root_page_num].cells
               s == x.pages[new].cells
    <3>1. f \in Seq(Rows) /\ s \in Seq(Rows)
      BY <2>2, <2>3, PageNumbers DEF InShape, Fits
    <3>2. SameRows(f, FirstHalf(all)) /\ SameRows(s, SecondHalf(all))
      BY <2>3
    <3> HIDE DEF f, s
    <3>3. Len(f) >= 1
      BY ONLY <1>4, <2>2, <3>1, <3>2, HalvesRise
    <3>4. f # <<>>
      BY <3>1, <3>3
    <3> QED BY <3>4 DEF f
  <2>5. PICK left \in Pages \ {root_page_num} :
          /\ ~IsLeaf(x.pages[left]) /\ RootMoved(x.pages, r.pages, left)
          /\ TopIs(r.pages[root_page_num], left, Last(x.pages[root_page_num].cells).key, new)
    BY <2>2, <2>3, <2>4, RootLeafTop
  <2>6. left # new
    BY <2>3, <2>5
  <2> QED BY ONLY <1>4, <2>2, <2>5, <2>6, OrderlyRoot
<1> QED BY <1>5, <1>6

\* A row whose key is greater than all in a tree of two levels.
LEMMA LastStaysOrderly ==
  ASSUME NEW o, NEW p, NEW c, NEW row, Target(o, p, c, row),
         NEW h, Ranked(o.pages, o.num_pages, h, {}), p \in DOMAIN h,
         TwoLevels(o.pages, o.num_pages), Orderly(o.pages), p = o.pages[root_page_num].right,
         Belongs(o.pages[root_page_num], Len(o.pages[root_page_num].cells) + 1, row.key),
         \A i \in 1 .. Len(o.pages[p].cells) : o.pages[p].cells[i].key < row.key,
         NEW r, r = leaf_node_insert(o, p, c, row), ~Failed(r), TwoLevels(r.pages, r.num_pages)
  PROVE  Orderly(r.pages)
<1> DEFINE cells == o.pages[p].cells
           all == With(o, p, c, row)
           root == o.pages[root_page_num]
           k == Len(root.cells)
<1>1. cells \in Seq(Rows) /\ c \in 0 .. Len(cells) /\ FromOn(cells, c, row.key) /\ row \in Rows
  BY RowPlaced DEF Target, Fits
<1>2. all = InsertAt(cells, c + 1, row)
  BY DEF With
<1>3. /\ root \in InternalNode /\ ~Open(root) /\ Apart(root) /\ ~IsLeaf(root) /\ k \in Nat
      /\ \A q : q \in Kids(root) <=> q \in Pages /\ q < o.num_pages /\ q # root_page_num
      /\ \A q \in Kids(root) : o.pages[q].parent = root_page_num
  BY InternalFields DEF TwoLevels
<1>4. p \in Kids(root) /\ KidAt(root, k + 1) = p /\ k + 1 \in 1 .. k + 1
  <2>1. k + 1 \in 1 .. k + 1
    BY <1>3
  <2> QED BY <1>3, <2>1, KidsNumbered
<1>5. Rising(cells) /\ \A i \in 1 .. Len(cells) : Belongs(root, k + 1, cells[i].key)
  BY <1>3, <1>4 DEF Orderly
<1>6. \A i \in 1 .. Len(cells) : cells[i].key < row.key
  OBVIOUS
<1> HIDE DEF all, cells
<1>7. /\ Len(cells) \in Nat /\ all \in Seq(Rows) /\ Len(all) = Len(cells) + 1 /\ Rising(all)
      /\ \A i \in 1 .. Len(all) : IF i <= Len(cells) THEN all[i] = cells[i] ELSE all[i] = row
  <2>1. Len(cells) \in Nat
    BY <1>1
  <2>2. /\ all \in Seq(Rows) /\ Len(all) = Len(cells) + 1 /\ Rising(all)
        /\ \A i \in 1 .. Len(all) : IF i <= Len(cells) THEN all[i] = cells[i] ELSE all[i] = row
    BY ONLY <1>1, <1>2, <1>5, <1>6, RowGoesLast
  <2> QED BY <2>1, <2>2
<1>8. \A j \in 1 .. Len(all) : Belongs(root, k + 1, all[j].key)
  <2> SUFFICES ASSUME NEW j \in 1 .. Len(all) PROVE Belongs(root, k + 1, all[j].key)
    OBVIOUS
  <2>1. CASE j <= Len(cells)
    <3>1. j \in 1 .. Len(cells) /\ all[j] = cells[j]
      BY <1>7, <2>1
    <3> QED BY <1>5, <3>1
  <2>2. CASE ~(j <= Len(cells))
    BY <1>7, <2>2
  <2> QED BY <2>1, <2>2
<1>9. CASE ~Full(o.pages[p])
  <2>1. r.pages[p].cells = all /\ \A q \in Pages \ {p} : r.pages[q] = o.pages[q]
    BY <1>9, RoomInserted DEF all
  <2> HIDE DEF root, k
  <2>2. /\ p = o.pages[root_page_num].right
        /\ \A j \in 1 .. Len(all) :
             Belongs(o.pages[root_page_num], Len(o.pages[root_page_num].cells) + 1, all[j].key)
    BY <1>8 DEF root, k
  <2> QED BY ONLY <1>7, <2>1, <2>2, TwoLevels(o.pages, o.num_pages), Orderly(o.pages), OrderlyMore
<1>10. CASE Full(o.pages[p])
  <2> DEFINE new == o.num_pages
  <2>1. PICK x : PutAbove(o, p, all, x, r)
    BY <1>3, <1>4, <1>10, FullInserted DEF all
  <2>2. /\ Good(x) /\ ~Failed(x) /\ x.num_pages = new + 1
        /\ x.pages[root_page_num] = root /\ x.pages[p].parent = o.pages[p].parent
        /\ Divided(o.pages, x.pages, p, new, all) /\ Overfull(all)
        /\ Keeps(x, r) /\ r = internal_node_insert(x, o.pages[p].parent, new)
    BY <2>1 DEF PutAbove
  <2>3. /\ new \in Pages \ {p, root_page_num} /\ IsLeaf(x.pages[p]) /\ IsLeaf(x.pages[new])
        /\ SameRows(x.pages[p].cells, FirstHalf(all)) /\ SameRows(x.pages[new].cells, SecondHalf(all))
    BY <2>2 DEF Divided, LeafIs
  <2>4. o.pages[p].parent = root_page_num
    BY <1>3, <1>4
  <2>5. /\ new \in Nat /\ new <= FILE_PAGES_NUM /\ FILE_PAGES_NUM \in Nat /\ r.num_pages \in Nat
        /\ new < r.num_pages /\ r.num_pages <= FILE_PAGES_NUM /\ root_page_num < new
    <3>1. o.num_pages \in 1 .. FILE_PAGES_NUM /\ r.num_pages \in 1 .. FILE_PAGES_NUM /\ x.num_pages <= r.num_pages
      BY <2>2 DEF Target, Good, Shaped, Keeps
    <3>2. FILE_PAGES_NUM \in Nat
      BY PagePointersAssumption DEF PagePointersAssumption
    <3>3. x.num_pages = new + 1 /\ new \in 1 .. FILE_PAGES_NUM
      BY <2>2, <3>1
    <3> HIDE DEF new
    <3> QED BY ONLY <3>1, <3>2, <3>3 DEF root_page_num
  <2>6. InShape(o.pages) /\ x.pages \in [Pages -> Node] /\ p \in Pages
    BY <2>2, OperationFields DEF Target, Good
  <2>7. InShape(x.pages)
    <3>1. InShape(r.pages) /\ LeavesKept(x.pages, r.pages)
      <4>1. Outcome(o, p, all, r)
        BY LeafInserted DEF all
      <4> QED BY <2>2, <4>1 DEF Outcome, Keeps
    <3> QED BY <3>1 DEF InShape, LeavesKept
  <2>8. Len(root.cells) < INTERNAL_NODE_MAX_CELLS
    BY <2>5, RootHadRoom
  <2> DEFINE f == x.pages[p].cells
             s == x.pages[new].cells
             key == get_node_max_key(x.pages, p)
             max == get_node_max_key(x.pages, new)
  <2>9. f \in Seq(Rows) /\ s \in Seq(Rows) /\ SameRows(f, FirstHalf(all)) /\ SameRows(s, SecondHalf(all))
    BY <2>3, <2>6, <2>7 DEF InShape, Fits
  <2>10. /\ key \in Nat /\ (f # <<>> => key = Last(f).key)
         /\ max \in Nat /\ (s # <<>> => max = Last(s).key)
    BY <2>3, <2>6, MaxKeyIsNat
  <2> HIDE DEF f, s, key, max
  <2>11. Len(f) >= 1 /\ Len(s) >= 1 /\ \A i \in 1 .. Len(s) : f[Len(f)].key < s[i].key
    BY ONLY <1>7, <2>2, <2>9, HalvesRise
  <2>12. max > key /\ f # <<>>
    <3>1. f # <<>> /\ s # <<>> /\ Len(s) \in 1 .. Len(s)
      BY <2>9, <2>11
    <3>2. key = f[Len(f)].key /\ max = s[Len(s)].key
      BY <2>10, <3>1 DEF Last
    <3> QED BY <2>10, <2>11, <3>1, <3>2
  <2>13. /\ Good(x) /\ Grown(x) /\ Inner(x, root_page_num)
         /\ Len(x.pages[root_page_num].cells) < INTERNAL_NODE_MAX_CELLS
         /\ x.pages[root_page_num].right = p /\ p \in Pages /\ p < x.num_pages
         /\ new \in Pages /\ new < x.num_pages /\ r = internal_node_insert(x, root_page_num, new)
    <3>1. p < new /\ p \in Nat /\ root_page_num \in Pages /\ root_page_num \in Nat
      BY <1>3, <1>4, PageNumbers
    <3>2. x.num_pages = new + 1 /\ new \in Nat /\ root_page_num < new
      BY <2>2, <2>5
    <3> HIDE DEF new
    <3>3. p < x.num_pages /\ root_page_num < x.num_pages /\ new < x.num_pages
      BY ONLY <3>1, <3>2
    <3> QED BY <1>3, <2>2, <2>3, <2>4, <2>6, <2>8, <3>1, <3>3 DEF Grown, Inner
  <2>14. key = get_node_max_key(x.pages, p) /\ get_node_max_key(x.pages, new) > key
    BY <2>12 DEF key, max
  <2> HIDE DEF new
  <2>15. PutLast(x.pages, r.pages, root_page_num, new, key)
    BY ONLY <2>13, <2>14, ~Failed(r), GreatestPut
  <2>16. new \notin Kids(root)
    BY <1>3, <2>5 DEF new
  <2>17. f # <<>> => key = Last(x.pages[p].cells).key
    BY <2>10 DEF f
  <2> HIDE DEF root, k
  <2>18. /\ p = o.pages[root_page_num].right /\ x.pages[root_page_num] = o.pages[root_page_num]
         /\ \A j \in 1 .. Len(all) :
              Belongs(o.pages[root_page_num], Len(o.pages[root_page_num].cells) + 1, all[j].key)
         /\ new \notin Kids(o.pages[root_page_num])
    BY <1>8, <2>2, <2>16 DEF root, k
  <2>19. x.pages[p].cells # <<>> => key = Last(x.pages[p].cells).key
    BY <2>17 DEF f
  <2> QED BY ONLY <1>7, <2>2, <2>6, <2>7, <2>15, <2>18, <2>19, TwoLevels(o.pages, o.num_pages),
                  Orderly(o.pages), OrderlySplit
<1> QED BY <1>9, <1>10

LEMMA InsertOrderly ==
  ASSUME NEW o, Good(o), ~Failed(o), InShape(o.pages), NoneEmpty(o.pages),
         NEW h, Ranked(o.pages, o.num_pages, h, {}), Even(o.pages, o.num_pages, h, {}, {}, {}),
         Flat(o.pages) => Orderly(o.pages),
         NEW row \in Rows,
         \A q \in Pages : IsLeaf(o.pages[q]) =>
           \A j \in 1 .. Len(o.pages[q].cells) : o.pages[q].cells[j].key < row.key,
         NEW at, at = table_find(o.pages, row.key),
         NEW r, r = InsertAtCursor(o, at, row), ~Failed(r), Flat(r.pages)
  PROVE  Orderly(r.pages)
<1> DEFINE p == at.page
           c == at.cell
           root == o.pages[root_page_num]
<1>1. o.pages \in [Pages -> Node] /\ o.num_pages \in Nat /\ row.key \in Nat
  <2>1. o.pages \in [Pages -> Node] /\ o.num_pages \in Nat
    BY OperationFields DEF Good, Shaped
  <2> QED BY <2>1, KeysAreNat DEF Rows
<1>2. p \in DOMAIN h /\ p \in Pages /\ IsLeaf(o.pages[p])
  BY <1>1, CursorRanked
<1>3. Target(o, p, c, row)
  BY <1>2, CursorFound
<1>4. r = leaf_node_insert(o, p, c, row)
  BY <1>2 DEF InsertAtCursor
<1>5. \A i \in 1 .. Len(o.pages[p].cells) : o.pages[p].cells[i].key < row.key
  BY <1>2
<1>6. CASE IsLeaf(root)
  <2>1. p = root_page_num
    BY <1>6 DEF table_find
  <2>2. Rising(root.cells)
    BY <1>6 DEF Flat, Kids, Orderly
  <2> HIDE DEF p, c
  <2>3. /\ Target(o, root_page_num, c, row) /\ root_page_num \in DOMAIN h
        /\ r = leaf_node_insert(o, root_page_num, c, row)
        /\ Rising(o.pages[root_page_num].cells)
        /\ \A i \in 1 .. Len(o.pages[root_page_num].cells) : o.pages[root_page_num].cells[i].key < row.key
    BY <1>2, <1>3, <1>4, <1>5, <2>1, <2>2
  <2> QED BY ONLY <2>3, Ranked(o.pages, o.num_pages, h, {}), ~Failed(r), RootStaysOrderly
<1>7. CASE ~IsLeaf(root)
  <2>1. p # root_page_num
    BY <1>2, <1>7
  <2> HIDE DEF p, c
  <2>2. /\ o.num_pages <= r.num_pages
        /\ \A q \in Pages : q < o.num_pages => (IsLeaf(r.pages[q]) <=> IsLeaf(o.pages[q]))
    BY ONLY <1>2, <1>3, <1>4, <2>1, Ranked(o.pages, o.num_pages, h, {}), ~Failed(r), KindsStay
  <2>3. root_page_num \in Pages /\ root_page_num < o.num_pages
    BY PageNumbers, RanksOf
  <2>4. /\ r.pages \in [Pages -> Node] /\ r.num_pages \in Nat
        /\ \E g : Ranked(r.pages, r.num_pages, g, {}) /\ Even(r.pages, r.num_pages, g, {}, {}, {})
    <3>1. Good(r)
      BY <1>3, <1>4, LeafInserted DEF Outcome
    <3>2. GoesOnEven(o, h, r)
      BY <1>2, <1>3, <1>4, LeafInsertRanked
    <3> QED BY <3>1, <3>2, OperationFields DEF Good, Shaped, GoesOnEven, EvenTree
  <2>5. TwoLevels(r.pages, r.num_pages)
    BY <1>7, <2>2, <2>3, <2>4, FlatTree
  <2>6. Flat(o.pages)
    <3>1. ASSUME NEW q \in Kids(root) PROVE IsLeaf(o.pages[q])
      <4>1. q \in DOMAIN h /\ h[q] < h[root_page_num] /\ h[root_page_num] \in Nat
        BY RanksOf
      <4>2. q \in Pages /\ q < o.num_pages /\ q # root_page_num
        BY <4>1, RanksOf
      <4>3. q < r.num_pages
        BY <1>1, <2>2, <2>4, <4>2, PageNumbers
      <4>4. q \in Kids(r.pages[root_page_num])
        BY <2>5, <4>2, <4>3 DEF TwoLevels
      <4>5. IsLeaf(r.pages[q])
        BY <2>5, <4>4 DEF TwoLevels
      <4> QED BY <2>2, <4>2, <4>5
    <3> QED BY <3>1 DEF Flat
  <2>7. TwoLevels(o.pages, o.num_pages) /\ Orderly(o.pages)
    BY <1>1, <1>7, <2>6, FlatTree
  <2>8. Belongs(root, Len(root.cells) + 1, row.key) /\ p = root.right
    BY <1>1, <2>7, GreatestIsLast DEF p
  <2>9. /\ p = o.pages[root_page_num].right
        /\ Belongs(o.pages[root_page_num], Len(o.pages[root_page_num].cells) + 1, row.key)
    BY <2>8
  <2> HIDE DEF root
  <2> QED BY ONLY <1>2, <1>3, <1>4, <1>5, <2>5, <2>7, <2>9, Ranked(o.pages, o.num_pages, h, {}),
                  ~Failed(r), LastStaysOrderly
<1> QED BY <1>6, <1>7

-----------------------------------------------------------------------------
(***************************************************************************)
(* The table.                                                              *)
(***************************************************************************)
KeysInv == InsertedKeys \subseteq Keys

\* The rows are in order as long as the root's children are leaves.
OrderInv == stopped = "none" /\ refused = EmptyBag /\ Flat(pages) => Orderly(pages)

LEMMA InitKeys == Init => KeysInv
<1> SUFFICES ASSUME Init PROVE InsertedKeys = {}
  BY DEF KeysInv
<1>1. rows = EmptyBag /\ refused = EmptyBag
  BY DEF Init
<1>2. BagToSet(rows (+) refused) = {}
  BY <1>1 DEF EmptyBag, SetToBag, BagToSet, (+)
<1> QED BY <1>2 DEF InsertedKeys

LEMMA NextKeys == IInv /\ KeysInv /\ [Next]_vars => KeysInv'
<1> SUFFICES ASSUME IInv, KeysInv, [Next]_vars PROVE KeysInv'
  OBVIOUS
<1>1. ASSUME NEW key \in Keys, NEW text \in Texts, Insert(key, text) PROVE KeysInv'
  BY <1>1, KeyAdded DEF KeysInv
<1>2. CASE UNCHANGED vars
  BY <1>2 DEF vars, KeysInv, InsertedKeys
<1> QED BY <1>1, <1>2 DEF Next

LEMMA InitOrder == Init => OrderInv
<1> SUFFICES ASSUME Init PROVE Orderly(pages)
  BY DEF OrderInv
<1> DEFINE empty == initialize_leaf_node(ZeroPage)
           leaf == [empty EXCEPT !.is_root = TRUE]
<1>1. pages[root_page_num] = leaf
  BY PageNumbers DEF Init
<1>2. empty = [type |-> "LEAF", is_root |-> FALSE, parent |-> ZeroPage.parent, next |-> 0, cells |-> <<>>]
  BY DEF initialize_leaf_node
<1> HIDE DEF empty
<1>3. ASSUME NEW yes PROVE [empty EXCEPT !.is_root = yes].type = "LEAF" /\ [empty EXCEPT !.is_root = yes].cells = <<>>
  BY <1>2
<1>4. leaf.type = "LEAF" /\ leaf.cells = <<>>
  BY <1>3
<1> HIDE DEF leaf
<1>5. IsLeaf(pages[root_page_num]) /\ pages[root_page_num].cells = <<>>
  BY <1>1, <1>4 DEF IsLeaf
<1>6. Rising(<<>>)
  BY DEF Rising
<1> QED BY <1>5, <1>6 DEF Orderly

LEMMA InsertedInOrder ==
  ASSUME IInv, EvenInv, NoneEmptyInv, KeysHeld, OrderInv, NEW key \in Keys, NEW text \in Texts,
         \A k \in InsertedKeys : k < key, Insert(key, text)
  PROVE  OrderInv'
<1> SUFFICES ASSUME refused' = EmptyBag, Flat(pages') PROVE Orderly(pages')
  BY DEF OrderInv
<1>3. PICK row \in Rows :
        /\ row.key = key
        /\ Returned(InsertAtCursor(Begin(pages, num_pages), table_find(pages, row.key), row), row)
  BY RowToInsert
<1> DEFINE o == Begin(pages, num_pages)
           at == table_find(o.pages, row.key)
           r == InsertAtCursor(o, at, row)
<1>1. /\ pages \in [Pages -> Node] /\ num_pages \in 0 .. FILE_PAGES_NUM
      /\ Shaped(pages, num_pages) /\ InShape(pages) /\ stopped = "none"
  BY DEF IInv, TypeOK, Node, Insert, InsertWith
<1>2. Good(o) /\ ~Failed(o) /\ o.pages = pages /\ o.num_pages = num_pages
  BY <1>1, Begun
<1>4. Returned(r, row)
  BY <1>2, <1>3
<1>5. r = InsertAtCursor(o, at, row) /\ at = table_find(o.pages, row.key)
  OBVIOUS
<1> HIDE DEF o, at, r
<1>6. /\ pages' = r.pages
      /\ refused' = IF Failed(r) THEN refused (+) SetToBag({row}) ELSE refused
  BY <1>4 DEF Returned
<1>7. refused = EmptyBag /\ ~Failed(r)
  <2>1. refused (+) SetToBag({row}) # EmptyBag
    <3>1. BagToSet(refused (+) SetToBag({row})) = BagToSet(refused) \cup {row}
      BY BagGrown DEF IInv, TypeOK
    <3>2. BagToSet(EmptyBag) = {}
      BY DEF EmptyBag, SetToBag, BagToSet
    <3> QED BY <3>1, <3>2
  <2> QED BY <1>6, <2>1
<1>8. PICK h : Ranked(pages, num_pages, h, {}) /\ Even(pages, num_pages, h, {}, {}, {})
  BY <1>1, <1>7 DEF EvenInv
<1>9. NoneEmpty(pages) /\ (Flat(pages) => Orderly(pages))
  BY <1>1, <1>7 DEF NoneEmptyInv, OrderInv
<1>10. \A q \in Pages : IsLeaf(pages[q]) => \A j \in 1 .. Len(pages[q].cells) : pages[q].cells[j].key < key
  BY <1>1 DEF KeysHeld
<1>11. /\ InShape(o.pages) /\ NoneEmpty(o.pages) /\ (Flat(o.pages) => Orderly(o.pages))
       /\ Ranked(o.pages, o.num_pages, h, {}) /\ Even(o.pages, o.num_pages, h, {}, {}, {})
       /\ \A q \in Pages : IsLeaf(o.pages[q]) =>
            \A j \in 1 .. Len(o.pages[q].cells) : o.pages[q].cells[j].key < row.key
  BY <1>1, <1>2, <1>3, <1>8, <1>9, <1>10
<1>12. Flat(r.pages)
  BY <1>6
<1>13. Orderly(r.pages)
  BY ONLY <1>2, <1>3, <1>5, <1>7, <1>11, <1>12, InsertOrderly
<1> QED BY <1>6, <1>13

\* A row inserted is in a leaf.
LEMMA RowInLeaf ==
  ASSUME IInv, RowsInv, stopped = "none", NEW row \in BagToSet(rows)
  PROVE  /\ row.key \in Nat
         /\ \E q \in Pages : \E i \in 1 .. Len(pages[q].cells) :
              IsLeaf(pages[q]) /\ pages[q].cells[i].key = row.key
<1>1. IsABag(rows) /\ IsABag(refused) /\ row \in Rows
  BY DEF IInv, TypeOK
<1>2. Copies(row, rows) \in Nat /\ Copies(row, rows) > 0 /\ Copies(row, refused) \in Nat
  <2>1. \A bag : IsABag(bag) => \A e \in BagToSet(bag) : bag[e] \in Nat /\ bag[e] > 0
    BY DEF IsABag, BagToSet
  <2> QED BY <1>1, <2>1 DEF Copies, BagIn
<1>3. Count(pages, row) # 0
  <2>1. Between(Count(pages, row), row, rows, refused)
    BY <1>1 DEF RowsInv
  <2> QED BY <1>2, <2>1 DEF Between
<1>4. PICK place \in Cells : HasAt(pages, place[1], place[2], row)
  <2>1. PlacesIn(pages, row) # {}
    BY <1>3, FS_EmptySet DEF Count
  <2> QED BY <2>1 DEF PlacesIn
<1> DEFINE q == place[1]
           i == place[2]
<1>5. q \in Pages /\ i \in 1 .. LEAF_NODE_MAX_CELLS + 1
  BY DEF Cells
<1>6. IsLeaf(pages[q]) /\ i <= Len(pages[q].cells) /\ AsInserted(pages[q].cells[i]) = row
  BY <1>4 DEF HasAt
<1> HIDE DEF q, i
<1>7. pages[q].cells \in Seq(Rows)
  BY <1>5, <1>6 DEF IInv, InShape, Fits
<1>8. i \in 1 .. Len(pages[q].cells)
  BY <1>5, <1>6, <1>7, SplitCounts
<1>9. pages[q].cells[i].key = row.key
  BY <1>6, <1>7, <1>8, KeyUnread
<1> QED BY <1>1, <1>5, <1>6, <1>8, <1>9, KeysAreNat DEF Rows

\* In a tree in order table_find() leads to a key that is there.
LEMMA OrderlyFound ==
  ASSUME IInv, NoneEmptyInv, stopped = "none",
         NEW h, Ranked(pages, num_pages, h, {}), Even(pages, num_pages, h, {}, {}, {}),
         Flat(pages), Orderly(pages),
         NEW q \in Pages, IsLeaf(pages[q]), NEW i \in 1 .. Len(pages[q].cells)
  PROVE  Finds(pages[q].cells[i].key)
<1> DEFINE root == pages[root_page_num]
           cells == pages[q].cells
           key == cells[i].key
<1>1. /\ pages \in [Pages -> Node] /\ num_pages \in Nat /\ InShape(pages) /\ NoneEmpty(pages)
      /\ \A p \in Pages : p >= num_pages => ~IsLeaf(pages[p])
  BY PagePointersAssumption DEF IInv, TypeOK, Node, Shaped, NoneEmptyInv, PagePointersAssumption
<1>2. cells \in Seq(Rows) /\ key \in Nat
  <2>1. cells \in Seq(Rows)
    BY <1>1 DEF InShape, Fits
  <2>2. cells[i] \in Rows
    BY <2>1
  <2> QED BY <2>1, <2>2, KeysAreNat DEF Rows
<1>3. q \in DOMAIN h /\ q < num_pages
  <2>1. q < num_pages
    BY <1>1, PageNumbers
  <2> QED BY <2>1 DEF Even, AllRanked
<1>4. Rising(cells) /\ table_find(pages, key).page = q
  <2>1. CASE IsLeaf(root)
    <3>1. q = root_page_num
      <4>1. ASSUME q # root_page_num PROVE FALSE
        <5>1. q \in Kids(pages[pages[q].parent])
          BY <1>3, <4>1 DEF Even, LeavesAgree
        <5>2. pages[q].parent = root_page_num
          BY <2>1 DEF IInv, Shaped
        <5> QED BY <2>1, <5>1, <5>2 DEF Kids
      <4> QED BY <4>1
    <3>2. Rising(cells)
      BY <2>1, <3>1 DEF Orderly
    <3> QED BY <2>1, <3>1, <3>2 DEF table_find
  <2>2. CASE ~IsLeaf(root)
    <3>1. TwoLevels(pages, num_pages)
      BY <1>1, <2>2, FlatTree
    <3>2. root \in InternalNode /\ ~Open(root) /\ Apart(root)
      BY <3>1 DEF TwoLevels
    <3>3. q \in Kids(root)
      BY <1>3, <2>2, <3>1 DEF TwoLevels
    <3>4. PICK m \in 1 .. Len(root.cells) + 1 : KidAt(root, m) = q
      BY <3>2, <3>3, KidsNumbered
    <3>5. Rising(cells) /\ Belongs(root, m, key)
      BY <2>2, <3>4 DEF Orderly
    <3>6. InOrder(root.cells)
      BY <1>1, <3>1, RootKeysRise
    <3>7. internal_node_find(pages, root_page_num, key) = q
      BY <1>2, <3>2, <3>4, <3>5, <3>6, FindsUnderRoot
    <3> QED BY <2>2, <3>5, <3>7 DEF table_find
  <2> QED BY <2>1, <2>2
<1>5. table_find(pages, key).cell = CellSearch(cells, key)
  BY <1>4, PageNumbers DEF table_find
<1>6. Hit(cells, CellSearch(cells, key), key)
  BY <1>2, <1>4, KeyHit
<1> QED BY <1>4, <1>5, <1>6 DEF Finds, Hit

LEMMA OrderFinds == IInv /\ EvenInv /\ NoneEmptyInv /\ RowsInv /\ OrderInv => FindsRowsWhileShallow
<1> SUFFICES ASSUME IInv, EvenInv, NoneEmptyInv, RowsInv, OrderInv,
                    refused = EmptyBag, \A c \in ChildrenOf(root_page_num) : IsLeaf(pages[c]),
                    stopped = "none", NEW row \in BagToSet(rows)
             PROVE  Finds(row.key)
  BY DEF FindsRowsWhileShallow, FindsRows
<1>1. PICK h : Ranked(pages, num_pages, h, {}) /\ Even(pages, num_pages, h, {}, {}, {})
  BY DEF EvenInv
<1>2. Flat(pages)
  BY <1>1, EvenTable DEF Flat
<1>3. Orderly(pages)
  BY <1>2 DEF OrderInv
<1>4. PICK q \in Pages : \E i \in 1 .. Len(pages[q].cells) :
        IsLeaf(pages[q]) /\ pages[q].cells[i].key = row.key
  BY RowInLeaf
<1> QED BY <1>1, <1>2, <1>3, <1>4, OrderlyFound

LEMMA AscendingSteps == [AscendingNext]_vars => [Next]_vars
BY DEF AscendingNext, Next

LEMMA AscendingOrder ==
  IInv /\ EvenInv /\ NoneEmptyInv /\ RowsInv /\ KeysInv /\ OrderInv /\ [AscendingNext]_vars => OrderInv'
<1> SUFFICES ASSUME IInv, EvenInv, NoneEmptyInv, RowsInv, KeysInv, OrderInv, [AscendingNext]_vars
             PROVE  OrderInv'
  OBVIOUS
<1>1. CASE AscendingNext
  <2>1. PICK key \in Keys, text \in Texts :
          (\A used \in Keys : Used(used) => used < key) /\ Insert(key, text)
    BY <1>1 DEF AscendingNext
  <2>2. \A k \in InsertedKeys : k < key
    BY <2>1 DEF KeysInv, InsertedKeys, Used
  <2> QED BY <2>1, <2>2, RowsHeld, InsertedInOrder
<1>2. CASE UNCHANGED vars
  BY <1>2 DEF vars, OrderInv
<1> QED BY <1>1, <1>2

(* When the keys come in ascending order, table_find() finds every row     *)
(* inserted as long as the root's children are leaves: the keys by which   *)
(* the root parts them are set by splits of the last leaf alone, and no    *)
(* split of the root's own node has lost one yet.                          *)
THEOREM RowsFoundWhileShallow == AscendingSpec => []FindsRowsWhileShallow
<1> QED BY InitIInv, NextIInv, InitEven, NextEven, InitNoneEmpty, NextNoneEmpty, InitRows, NextRows,
           InitKeys, NextKeys, InitOrder, AscendingSteps, AscendingOrder, OrderFinds, PTL
           DEF AscendingSpec
=============================================================================
