----------------------------- MODULE TableProofs -----------------------------
(***************************************************************************)
(* Proofs about Table: whatever rows are inserted, in whatever order, and  *)
(* wherever an insertion breaks off.                                       *)
(***************************************************************************)
EXTENDS Table, Lists

-----------------------------------------------------------------------------
(***************************************************************************)
(* The tree's nodes: whatever an insertion does above the leaves, it keeps *)
(* every node well formed and every leaf's rows and next_leaf link as they *)
(* are.                                                                    *)
(***************************************************************************)

Node == LeafNode \cup InternalNode

LEMMA NodeFields ==
  ASSUME NEW node \in Node
  PROVE  /\ node.parent \in Pages /\ node.is_root \in BOOLEAN
         /\ IsLeaf(node) => /\ node \in LeafNode /\ node.next \in Pages
                            /\ node.cells \in Seq(Rows)
         /\ ~IsLeaf(node) => /\ node \in InternalNode /\ node.right \in Nat
                             /\ node.cells \in Seq(InternalCell)
BY DEF Node, LeafNode, InternalNode, IsLeaf

LEMMA NodeReparented ==
  ASSUME NEW node \in Node, NEW p \in Pages
  PROVE  LET new == [node EXCEPT !.parent = p]
         IN /\ new \in Node /\ new.parent = p
            /\ new.is_root = node.is_root /\ new.cells = node.cells
            /\ IsLeaf(new) <=> IsLeaf(node)
            /\ IsLeaf(node) => new.next = node.next
            /\ ~IsLeaf(node) => new.right = node.right
<1>1. CASE node \in LeafNode
  BY <1>1 DEF Node, LeafNode, IsLeaf
<1>2. CASE node \in InternalNode
  BY <1>2 DEF Node, InternalNode, IsLeaf
<1> QED BY <1>1, <1>2 DEF Node

LEMMA PageNumbers ==
  /\ root_page_num \in Pages /\ Pages \subseteq Nat
  /\ INVALID_PAGE_NUM \in Nat /\ INVALID_PAGE_NUM \notin Pages
BY PagePointersAssumption DEF Pages, root_page_num, INVALID_PAGE_NUM

LEMMA KeysAreNat == Keys \subseteq Nat
BY TableAssumption DEF TableAssumption

LEMMA NodeLeftover ==
  ASSUME NEW node \in Node
  PROVE  Leftover(node) \subseteq MayBeInvalid
<1>1. CASE ~IsLeaf(node)
  BY <1>1 DEF Leftover, Node, IsLeaf, LeafNode, InternalNode
<1>2. CASE IsLeaf(node) /\ node.cells = <<>>
  BY <1>2 DEF Leftover
<1>3. CASE IsLeaf(node) /\ node.cells # <<>>
  <2>1. node.cells[1] \in Rows
    BY <1>3 DEF Node, IsLeaf, LeafNode, InternalNode
  <2>2. InvalidCells(node.cells[1]) \subseteq MayBeInvalid
    BY <2>1, Zenon DEF MayBeInvalid
  <2> QED BY <1>3, <2>2 DEF Leftover
<1> QED BY <1>1, <1>2, <1>3

LEMMA NodeInitialized ==
  ASSUME NEW node \in Node
  PROVE  /\ initialize_internal_node(node) \in InternalNode
         /\ initialize_leaf_node(node) \in LeafNode
<1>1. Leftover(node) \in SUBSET MayBeInvalid
  BY NodeLeftover
<1> QED BY <1>1, NodeFields, PageNumbers
     DEF initialize_internal_node, initialize_leaf_node, InternalNode, LeafNode, root_page_num

-----------------------------------------------------------------------------
(***************************************************************************)
(* What the operations on the cache do.                                    *)
(***************************************************************************)

LEMMA OperationFields ==
  ASSUME NEW o \in Operations
  PROVE  /\ o.pages \in [Pages -> Node] /\ o.num_pages \in 0 .. FILE_PAGES_NUM
         /\ o.recent \in Seq(Pages) /\ o.loads \in [Pages -> Nat] /\ o.fault \in Faults
BY DEF Operations, Node

LEMMA OrderedPages ==
  ASSUME NEW o \in Operations, NEW p \in Pages
  PROVE  Ordered(o, p) \in Seq(Pages) /\ Ordered(o, p) # <<>>
<1>1. o.recent \in Seq(Pages) /\ <<p>> \in Seq(Pages) /\ Len(<<p>>) = 1
  BY OperationFields
<1>2. Cached(o, p) => RemoveAt(o.recent, Position(o.recent, p)) \in Seq(Pages)
  <2> SUFFICES ASSUME Cached(o, p) PROVE RemoveAt(o.recent, Position(o.recent, p)) \in Seq(Pages)
    OBVIOUS
  <2>1. Position(o.recent, p) \in 1 .. Len(o.recent)
    BY DEF Cached, Contains, Position
  <2> QED BY <1>1, <2>1, RemoveAtElements
<1> DEFINE rest == IF Cached(o, p) THEN RemoveAt(o.recent, Position(o.recent, p)) ELSE o.recent
<1>3. rest \in Seq(Pages)
  BY <1>1, <1>2
<1> HIDE DEF rest
<1>4. <<p>> \o rest \in Seq(Pages) /\ Len(<<p>> \o rest) = 1 + Len(rest) /\ Len(rest) \in Nat
  BY <1>1, <1>3, ConcatProperties
<1>5. <<p>> \o rest # <<>>
  BY <1>4
<1> QED BY <1>4, <1>5 DEF Ordered, rest

\* Stopped by an exit that no rows explain.
Exited(o) ==
  o.fault = "exit" \/ (o.fault = "exit on old bytes" /\ MayBeInvalid = {})

LEMMA PageRequested ==
  ASSUME NEW o \in Operations, NEW p
  PROVE  LET r == get_page(o, p)
         IN /\ r \in Operations /\ r.pages = o.pages /\ (Exited(r) => Exited(o))
            /\ o.num_pages <= r.num_pages
            /\ Failed(o) => r = o
            /\ ~Failed(r) => /\ ~Failed(o) /\ p \in Pages
                             /\ p = o.num_pages => r.num_pages = o.num_pages + 1
            /\ p # o.num_pages => r.num_pages = o.num_pages
            /\ p \in Pages => r.fault = o.fault
<1> DEFINE r == get_page(o, p)
<1> USE OperationFields
<1>1. CASE Failed(o)
  <2>1. r = o
    BY ONLY <1>1 DEF get_page
  <2> QED BY <1>1, <2>1
<1>2. CASE ~Failed(o) /\ p \notin Pages
  <2>1. r = [o EXCEPT !.fault = "out_of_range"]
    BY ONLY <1>2 DEF get_page
  <2>2. r \in Operations /\ r.pages = o.pages /\ r.num_pages = o.num_pages /\ Failed(r)
    BY <2>1 DEF Failed, Operations, Faults
  <2>4. r.fault = "out_of_range" /\ ~Exited(r)
    BY <2>1 DEF Operations, Exited
  <2>3. o.num_pages \in Nat /\ (p = o.num_pages => p \in Nat)
    OBVIOUS
  <2> QED BY <1>2, <2>2, <2>3, <2>4
<1>3. CASE ~Failed(o) /\ p \in Pages
  <2> DEFINE count  == IF p = o.num_pages THEN o.num_pages + 1 ELSE o.num_pages
             recent == WithinCache(Ordered(o, p))
             loads  == [o.loads EXCEPT ![p] = IF Cached(o, p) THEN @ ELSE @ + 1]
  <2>1. r = [o EXCEPT !.num_pages = count, !.recent = recent, !.loads = loads]
    BY ONLY <1>3, Zenon DEF get_page
  <2>2. count \in 0 .. FILE_PAGES_NUM /\ o.num_pages <= count
    BY <1>3, PagePointersAssumption DEF Pages
  <2>3. recent \in Seq(Pages)
    <3> DEFINE order == Ordered(o, p)
    <3>1. order \in Seq(Pages) /\ order # <<>>
      BY <1>3, OrderedPages
    <3> HIDE DEF order
    <3>2. Len(order) \in Nat \ {0} /\ \A i \in 1 .. Len(order) : order[i] \in Pages
      BY <3>1, EmptySeq
    <3>3. SubSeq(order, 1, Len(order) - 1) \in Seq(Pages)
      BY <3>1, <3>2
    <3> QED BY <3>1, <3>3 DEF WithinCache, Front, order
  <2>4. loads \in [Pages -> Nat]
    BY <1>3
  <2> HIDE DEF count, recent, loads
  <2>5. r \in Operations
    BY <2>1, <2>2, <2>3, <2>4 DEF Operations
  <2>6. r.pages = o.pages /\ r.num_pages = count /\ r.fault = o.fault
    BY <2>1 DEF Operations
  <2> QED BY <1>3, <2>2, <2>5, <2>6 DEF count, Failed, Exited
<1> QED BY <1>1, <1>2, <1>3

LEMMA FaultStale ==
  ASSUME NEW o \in Operations
  PROVE  ~Exited([o EXCEPT !.fault = "stale pointer"])
<1>1. [o EXCEPT !.fault = "stale pointer"].fault = "stale pointer"
  BY Zenon DEF Operations
<1>2. "stale pointer" # "exit" /\ "stale pointer" # "exit on old bytes"
  BY Zenon
<1> QED BY <1>1, <1>2, Zenon DEF Exited

\* Stopped for good, though not so.
Halted(o) ==
  o.fault = "stale pointer" \/ (o.fault = "exit on old bytes" /\ MayBeInvalid # {})

LEMMA PointersUsed ==
  ASSUME NEW o \in Operations, NEW ptrs
  PROVE  LET r == Use(o, ptrs)
         IN /\ r \in Operations /\ r.pages = o.pages /\ r.num_pages = o.num_pages
            /\ Exited(r) => Exited(o)
            /\ Failed(o) => r = o
            /\ ~Failed(r) => r = o
<1>1. Use(o, ptrs) = o \/ (~Failed(o) /\ Use(o, ptrs) = [o EXCEPT !.fault = "stale pointer"])
  BY DEF Use
<1>2. [o EXCEPT !.fault = "stale pointer"] \in Operations
  BY DEF Operations, Faults
<1>3. ~Exited([o EXCEPT !.fault = "stale pointer"])
  BY FaultStale
<1> QED BY <1>1, <1>2, <1>3 DEF Operations, Failed

LEMMA CellTested ==
  ASSUME NEW o \in Operations, NEW ptr, NEW node \in InternalNode, NEW cell
  PROVE  LET r == TestCell(o, ptr, node, cell)
         IN /\ r \in Operations /\ r.pages = o.pages /\ r.num_pages = o.num_pages
            /\ Exited(r) => Exited(o)
            /\ Failed(o) => r = o
            /\ ~Failed(r) => r = o
            /\ r = o \/ Halted(r)
<1> DEFINE r == TestCell(o, ptr, node, cell)
           x == [o EXCEPT !.fault = "exit on old bytes"]
<1>6. Leftover(node) \subseteq MayBeInvalid
  BY NodeLeftover DEF Node
<1>1. r = o \/ (~Failed(o) /\ r = x /\ MayBeInvalid # {})
  BY <1>6 DEF TestCell
<1>2. x \in Operations /\ x.pages = o.pages /\ x.num_pages = o.num_pages
  BY DEF Operations, Faults
<1>3. x.fault = "exit on old bytes"
  BY Zenon DEF Operations
<1>4. "exit on old bytes" # "exit" /\ "exit on old bytes" # "none"
  BY Zenon
<1>5. MayBeInvalid # {} => ~Exited(x) /\ Failed(x) /\ Halted(x)
  BY <1>3, <1>4, Zenon DEF Exited, Failed, Halted
<1> HIDE DEF r, x
<1> QED BY <1>1, <1>2, <1>5 DEF r

LEMMA NodeStored ==
  ASSUME NEW o \in Operations, NEW ptr, NEW node,
         Failed(o) \/ (ptr.page \in Pages /\ node \in Node)
  PROVE  LET r == StoreNode(o, ptr, node)
         IN /\ r \in Operations /\ r.num_pages = o.num_pages
            /\ Exited(r) => Exited(o)
            /\ Failed(o) => r = o
            /\ Failed(r) => r.pages = o.pages
            /\ ~Failed(r) => /\ ~Failed(o)
                             /\ r.pages = [o.pages EXCEPT ![ptr.page] = node]
<1> DEFINE r == StoreNode(o, ptr, node)
<1> USE OperationFields
<1>1. CASE r = o /\ Failed(o)
  BY <1>1
<1>2. CASE ~Failed(o) /\ r = [o EXCEPT !.fault = "stale pointer"]
  <2>1. ~Exited(r)
    BY <1>2, FaultStale, Zenon
  <2>2. /\ r \in Operations /\ r.num_pages = o.num_pages
        /\ Failed(o) => r = o
        /\ Failed(r) => r.pages = o.pages
        /\ Failed(r)
    BY <1>2 DEF Operations, Faults, Failed
  <2> QED BY <2>1, <2>2
<1>3. CASE ~Failed(o) /\ r = [o EXCEPT !.pages[ptr.page] = node]
  <2> DEFINE tree == [o.pages EXCEPT ![ptr.page] = node]
  <2>1. tree \in [Pages -> Node]
    BY <1>3
  <2>2. r = [o EXCEPT !.pages = tree]
    BY <1>3
  <2> HIDE DEF tree
  <2>3. r \in Operations
    BY <2>1, <2>2 DEF Operations, Node
  <2>4. r.pages = tree /\ r.num_pages = o.num_pages /\ r.fault = o.fault
    BY <2>2 DEF Operations
  <2> QED BY <1>3, <2>3, <2>4 DEF tree, Failed, Exited
<1> QED BY <1>1, <1>2, <1>3 DEF StoreNode

\* A store fails on a dangling pointer only.
LEMMA StoreFails ==
  ASSUME NEW o \in Operations, NEW ptr, NEW node, ~Failed(o), Failed(StoreNode(o, ptr, node))
  PROVE  Halted(StoreNode(o, ptr, node))
<1>1. [o EXCEPT !.fault = "stale pointer"].fault = "stale pointer"
  BY DEF Operations
<1>2. [o EXCEPT !.pages[ptr.page] = node].fault = o.fault
  BY DEF Operations
<1>3. CASE Dangling(o, ptr)
  BY <1>1, <1>3 DEF StoreNode, Halted
<1>4. CASE ~Dangling(o, ptr)
  BY <1>2, <1>4 DEF StoreNode, Failed
<1> QED BY <1>3, <1>4

\* What is read as the greatest key of a node is a key, the last one of a
\* node that has any.
LEMMA MaxKeyIsNat ==
  ASSUME NEW tree \in [Pages -> Node], NEW p \in Pages
  PROVE  /\ get_node_max_key(tree, p) \in Nat
         /\ tree[p].cells # <<>> => get_node_max_key(tree, p) = Last(tree[p].cells).key
<1> DEFINE N == FILE_PAGES_NUM
           S == [Pages -> Nat]
           At(n, f, q) ==
             IF tree[q].cells # <<>> THEN Last(tree[q].cells).key
             ELSE IF n = 0 \/ IsLeaf(tree[q]) \/ tree[q].right \notin Pages THEN 0
             ELSE f[n - 1][tree[q].right]
           Followed(n, f) == [q \in Pages |-> At(n, f, q)]
           max_key == CHOOSE f : f = [n \in 0 .. N |-> Followed(n, f)]
<1>0. N \in Nat
  BY PagePointersAssumption DEF PagePointersAssumption
<1>1. ASSUME NEW q \in Pages, tree[q].cells # <<>> PROVE Last(tree[q].cells).key \in Nat
  <2>1. tree[q] \in Node
    OBVIOUS
  <2>2. \/ tree[q].cells \in Seq(Rows)
        \/ tree[q].cells \in Seq(InternalCell)
    BY <2>1, NodeFields
  <2>3. Len(tree[q].cells) \in 1 .. Len(tree[q].cells)
    BY <1>1, <2>2, EmptySeq
  <2>4. CASE tree[q].cells \in Seq(Rows)
    <3>1. tree[q].cells[Len(tree[q].cells)] \in Rows
      BY <2>3, <2>4
    <3> QED BY <3>1, KeysAreNat DEF Last, Rows
  <2>5. CASE tree[q].cells \in Seq(InternalCell)
    <3>1. tree[q].cells[Len(tree[q].cells)] \in InternalCell
      BY <2>3, <2>5
    <3> QED BY <3>1 DEF Last, InternalCell
  <2> QED BY <2>2, <2>4, <2>5
<1>2. ASSUME NEW n \in 0 .. N, NEW f, n = 0 \/ f[n - 1] \in S PROVE Followed(n, f) \in S
  BY <1>1, <1>2
<1>3. \E f : f = [n \in 0 .. N |-> Followed(n, f)]
  <2> DEFINE step == [i \in 1 .. N |-> [g \in S |-> Followed(i, [j \in {i - 1} |-> g])]]
             first == Followed(0, <<>>)
  <2>1. first \in S
    <3>1. 0 \in 0 .. N
      BY <1>0
    <3> HIDE DEF Followed, S
    <3> QED BY <1>2, <3>1
  <2>2. step \in [1 .. N -> [S -> S]]
    <3>1. ASSUME NEW i \in 1 .. N, NEW g \in S PROVE Followed(i, [j \in {i - 1} |-> g]) \in S
      <4>1. [j \in {i - 1} |-> g][i - 1] = g /\ i \in 0 .. N
        OBVIOUS
      <4> HIDE DEF Followed, S
      <4> QED BY <1>2, <4>1
    <3> HIDE DEF Followed, S
    <3> QED BY <3>1
  <2>3. PICK f \in [0 .. N -> S] : f[0] = first /\ \A i \in 1 .. N : f[i] = step[i][f[i - 1]]
    <3> HIDE DEF step, first, S
    <3> QED BY <2>1, <2>2, Loop, <1>0
  <2>4. ASSUME NEW n \in 0 .. N PROVE f[n] = Followed(n, f)
    <3>1. CASE n = 0
      BY <2>3, <3>1
    <3>2. CASE n # 0
      <4>1. n \in 1 .. N /\ n - 1 \in 0 .. N /\ f[n - 1] \in S
        BY <2>3, <3>2, <1>0
      <4>2. f[n] = Followed(n, [j \in {n - 1} |-> f[n - 1]])
        BY <2>3, <4>1
      <4>3. [j \in {n - 1} |-> f[n - 1]][n - 1] = f[n - 1]
        OBVIOUS
      <4> QED BY <4>2, <4>3
    <3> QED BY <3>1, <3>2
  <2>5. f = [n \in 0 .. N |-> Followed(n, f)]
    <3> HIDE DEF Followed
    <3> QED BY <2>3, <2>4
  <2> QED BY <2>5
<1>4. max_key = [n \in 0 .. N |-> Followed(n, max_key)]
  <2> HIDE DEF Followed
  <2> QED BY <1>3
<1>5. max_key[N] \in S
  <2> DEFINE T == {n \in 0 .. N : max_key[n] \in S}
  <2> HIDE DEF max_key
  <2>1. \A n \in 0 .. N : max_key[n] = Followed(n, max_key)
    <3> HIDE DEF Followed
    <3> QED BY <1>4
  <2>2. 0 \in T
    <3>1. 0 \in 0 .. N
      BY <1>0
    <3> HIDE DEF Followed, S
    <3>2. Followed(0, max_key) \in S
      BY <1>2, <3>1
    <3> QED BY <2>1, <3>1, <3>2
  <2>3. ASSUME NEW n \in 0 .. N, n \in T, n + 1 <= N PROVE n + 1 \in T
    <3>1. n + 1 \in 0 .. N /\ (n + 1) - 1 = n /\ max_key[n] \in S
      BY <2>3
    <3> HIDE DEF Followed, S
    <3>2. Followed(n + 1, max_key) \in S
      BY <1>2, <3>1
    <3> QED BY <2>1, <3>1, <3>2
  <2>4. \A n \in 0 .. N : n \in T
    <3> HIDE DEF T
    <3> QED BY <2>2, <2>3, InductionTo, <1>0
  <2> QED BY <2>4, <1>0
<1>6. get_node_max_key(tree, p) = max_key[N][p]
  BY DEF get_node_max_key
<1>7. tree[p].cells # <<>> => max_key[N][p] = Last(tree[p].cells).key
  <2> HIDE DEF max_key
  <2>1. max_key[N] = Followed(N, max_key)
    <3>1. N \in 0 .. N
      BY <1>0
    <3> HIDE DEF Followed
    <3> QED BY <1>4, <3>1
  <2>2. Followed(N, max_key)[p] = At(N, max_key, p)
    <3> HIDE DEF At
    <3> QED OBVIOUS
  <2> QED BY <2>1, <2>2
<1> QED
  <2> HIDE DEF max_key
  <2> QED BY <1>5, <1>6, <1>7

-----------------------------------------------------------------------------
(***************************************************************************)
(* What holds of the pages at every moment of an insertion, failed ones    *)
(* included: page 0 alone is marked as root, leaves are pages handed out,  *)
(* and so are parents; every parent is an internal node, unless the root   *)
(* is still a leaf, when every page names page 0.                          *)
(***************************************************************************)

Shaped(tree, used) ==
  /\ used \in 1 .. FILE_PAGES_NUM
  /\ \A p \in Pages : p >= used => ~IsLeaf(tree[p])
  /\ \A p \in Pages : tree[p].is_root <=> p = root_page_num
  /\ \A p \in Pages : tree[p].parent < used
  /\ IF IsLeaf(tree[root_page_num]) THEN \A p \in Pages : tree[p].parent = root_page_num
     ELSE \A p \in Pages : ~IsLeaf(tree[tree[p].parent])

Good(o) == o \in Operations /\ Shaped(o.pages, o.num_pages)

LeavesKept(a, b) ==
  \A p \in Pages :
    /\ IsLeaf(b[p]) <=> IsLeaf(a[p])
    /\ IsLeaf(a[p]) => b[p].cells = a[p].cells /\ b[p].next = a[p].next

\* A part of an insertion that leads from o to r changes no leaf, and calls
\* no exit().
Keeps(o, r) ==
  /\ Good(r) /\ o.num_pages <= r.num_pages /\ LeavesKept(o.pages, r.pages)
  /\ Exited(r) => Exited(o)

\* Page p is an internal node in use.
Inner(o, p) == p \in Pages /\ p < o.num_pages /\ ~IsLeaf(o.pages[p])

\* The root is not a leaf any more.
Grown(o) == ~IsLeaf(o.pages[root_page_num])

LEMMA KeepsTransitive ==
  ASSUME NEW o1, NEW o2, NEW o3,
         Good(o1), Keeps(o1, o2), Keeps(o2, o3)
  PROVE  Keeps(o1, o3)
<1>1. o1.num_pages \in Nat /\ o2.num_pages \in Nat /\ o3.num_pages \in Nat
  BY DEF Good, Keeps, Shaped
<1>2. LeavesKept(o1.pages, o3.pages)
  BY DEF Keeps, LeavesKept
<1> QED BY <1>1, <1>2 DEF Keeps

LEMMA KeepsContext ==
  ASSUME NEW o, NEW r, Good(o), Keeps(o, r)
  PROVE  /\ Good(r)
         /\ \A p : Inner(o, p) => Inner(r, p)
         /\ Grown(o) => Grown(r)
<1>1. o.num_pages \in Nat /\ r.num_pages \in Nat /\ o.num_pages <= r.num_pages
  BY DEF Good, Keeps, Shaped
<1>2. \A p \in Pages : p \in Nat
  BY PageNumbers
<1> QED BY <1>1, <1>2, PageNumbers DEF Keeps, LeavesKept, Inner, Grown

\* A part that changes no page, but may count one.
LEMMA KeepsSamePages ==
  ASSUME NEW o, NEW r \in Operations, Good(o),
         r.pages = o.pages, o.num_pages <= r.num_pages, Exited(r) => Exited(o)
  PROVE  Keeps(o, r)
<1>1. o.num_pages \in 1 .. FILE_PAGES_NUM /\ r.num_pages \in 0 .. FILE_PAGES_NUM
  BY OperationFields DEF Good, Shaped
<1>2. r.num_pages \in 1 .. FILE_PAGES_NUM
  BY <1>1, PagePointersAssumption DEF PagePointersAssumption
<1>3. ASSUME NEW p \in Pages
      PROVE  /\ p >= r.num_pages => ~IsLeaf(r.pages[p])
             /\ r.pages[p].parent < r.num_pages
  <2>1. p \in Nat /\ r.pages[p].parent \in Nat
    BY OperationFields, NodeFields, PageNumbers
  <2>2. (p >= o.num_pages => ~IsLeaf(o.pages[p])) /\ o.pages[p].parent < o.num_pages
    BY DEF Good, Shaped
  <2> QED BY <1>1, <2>1, <2>2
<1>4. Shaped(r.pages, r.num_pages)
  <2>1. /\ \A p \in Pages : o.pages[p].is_root <=> p = root_page_num
        /\ IF IsLeaf(o.pages[root_page_num]) THEN \A p \in Pages : o.pages[p].parent = root_page_num
           ELSE \A p \in Pages : ~IsLeaf(o.pages[o.pages[p].parent])
    BY DEF Good, Shaped
  <2> DEFINE tree == r.pages
  <2>2. /\ \A p \in Pages : tree[p].is_root <=> p = root_page_num
        /\ IF IsLeaf(tree[root_page_num]) THEN \A p \in Pages : tree[p].parent = root_page_num
           ELSE \A p \in Pages : ~IsLeaf(tree[tree[p].parent])
    BY <2>1
  <2>3. \A p \in Pages : p >= r.num_pages => ~IsLeaf(tree[p])
    BY <1>3
  <2>4. \A p \in Pages : tree[p].parent < r.num_pages
    BY <1>3
  <2> HIDE DEF tree
  <2>5. Shaped(tree, r.num_pages)
    BY <1>2, <2>2, <2>3, <2>4 DEF Shaped
  <2> QED BY <2>5 DEF tree
<1> QED BY <1>4 DEF Keeps, Good, LeavesKept

LEMMA KeepsItself ==
  ASSUME NEW o, Good(o)
  PROVE  Keeps(o, o)
<1>1. o.num_pages \in Nat
  BY DEF Good, Shaped
<1> QED BY <1>1, KeepsSamePages DEF Good

LEMMA ParentIsInner ==
  ASSUME NEW o, Good(o), Grown(o), NEW p \in Pages
  PROVE  Inner(o, o.pages[p].parent)
<1>1. o.pages[p].parent \in Pages
  BY OperationFields, NodeFields DEF Good
<1> QED BY <1>1 DEF Good, Shaped, Grown, Inner

LEMMA RootIsInner ==
  ASSUME NEW o, Good(o), Grown(o)
  PROVE  Inner(o, root_page_num)
BY PageNumbers DEF Good, Shaped, Grown, Inner, root_page_num

\* Storing a node in the place of one of its kind, of a leaf with its rows.
LEMMA NodeReplaced ==
  ASSUME NEW o, Good(o), Grown(o), NEW ptr, NEW node,
         \/ Failed(o)
         \/ /\ ptr.page \in Pages /\ node \in Node
            /\ IsLeaf(node) <=> IsLeaf(o.pages[ptr.page])
            /\ IsLeaf(node) => /\ node.cells = o.pages[ptr.page].cells
                               /\ node.next = o.pages[ptr.page].next
            /\ node.is_root <=> ptr.page = root_page_num
            /\ Inner(o, node.parent)
  PROVE  LET r == StoreNode(o, ptr, node)
         IN /\ Keeps(o, r) /\ r.num_pages = o.num_pages
            /\ Failed(o) => r = o
            /\ Failed(r) => r.pages = o.pages
            /\ ~Failed(r) => /\ ~Failed(o)
                             /\ r.pages = [o.pages EXCEPT ![ptr.page] = node]
<1> DEFINE r == StoreNode(o, ptr, node)
<1>1. /\ r \in Operations /\ r.num_pages = o.num_pages
      /\ Exited(r) => Exited(o)
      /\ Failed(o) => r = o
      /\ Failed(r) => r.pages = o.pages
      /\ ~Failed(r) => /\ ~Failed(o)
                       /\ r.pages = [o.pages EXCEPT ![ptr.page] = node]
  BY NodeStored DEF Good
<1> HIDE DEF r
<1>2. o.num_pages \in Nat /\ o \in Operations
  BY DEF Good, Shaped
<1>3. CASE r.pages = o.pages
  BY <1>1, <1>2, <1>3, KeepsSamePages DEF r
<1>4. CASE ~Failed(r)
  <2> DEFINE p == ptr.page
             tree == [o.pages EXCEPT ![p] = node]
  <2>1. /\ p \in Pages /\ node \in Node
        /\ IsLeaf(node) <=> IsLeaf(o.pages[p])
        /\ IsLeaf(node) => node.cells = o.pages[p].cells /\ node.next = o.pages[p].next
        /\ node.is_root <=> p = root_page_num
        /\ node.parent \in Pages /\ node.parent < o.num_pages /\ ~IsLeaf(o.pages[node.parent])
    BY <1>1, <1>4 DEF Inner
  <2>3. r.pages = tree /\ o.pages \in [Pages -> Node]
    BY <1>1, <1>2, <1>4, OperationFields
  <2>4. \A q \in Pages : tree[q] = IF q = p THEN node ELSE o.pages[q]
    BY <2>1, <2>3
  <2> HIDE DEF tree, p
  <2>5. LeavesKept(o.pages, tree)
    BY <2>1, <2>4 DEF LeavesKept
  <2>6. Shaped(tree, o.num_pages)
    <3>1. /\ o.num_pages \in 1 .. FILE_PAGES_NUM
          /\ \A q \in Pages : q >= o.num_pages => ~IsLeaf(o.pages[q])
          /\ \A q \in Pages : o.pages[q].is_root <=> q = root_page_num
          /\ \A q \in Pages : o.pages[q].parent < o.num_pages
          /\ \A q \in Pages : ~IsLeaf(o.pages[o.pages[q].parent])
      BY DEF Good, Shaped, Grown
    <3>2. \A q \in Pages : tree[q].parent \in Pages /\ ~IsLeaf(o.pages[tree[q].parent])
      BY <2>1, <2>3, <2>4, <3>1, NodeFields
    <3>3. \A q \in Pages : IsLeaf(tree[q]) <=> IsLeaf(o.pages[q])
      BY <2>5 DEF LeavesKept
    <3>4. \A q \in Pages : ~IsLeaf(tree[tree[q].parent])
      BY <3>2, <3>3
    <3>5. ~IsLeaf(tree[root_page_num])
      BY <3>3, PageNumbers DEF Grown
    <3>6. \A q \in Pages : tree[q].parent < o.num_pages /\ (tree[q].is_root <=> q = root_page_num)
      BY <2>1, <2>4, <3>1
    <3> QED BY <3>1, <3>3, <3>4, <3>5, <3>6 DEF Shaped
  <2>7. Keeps(o, r)
    BY <1>1, <1>2, <2>3, <2>5, <2>6 DEF Keeps, Good
  <2> QED BY <1>1, <2>7 DEF r
<1> QED BY <1>1, <1>3, <1>4 DEF r

\* Storing an internal node in the place of one.
LEMMA InnerStored ==
  ASSUME NEW o, Good(o), Grown(o), NEW ptr, NEW node,
         \/ Failed(o)
         \/ /\ ptr.page \in Pages /\ ~IsLeaf(o.pages[ptr.page])
            /\ node \in InternalNode
            /\ node.is_root <=> ptr.page = root_page_num
            /\ Inner(o, node.parent)
  PROVE  LET r == StoreNode(o, ptr, node)
         IN /\ Keeps(o, r) /\ r.num_pages = o.num_pages
            /\ Failed(o) => r = o
            /\ Failed(r) => r.pages = o.pages
            /\ ~Failed(r) => /\ ~Failed(o)
                             /\ r.pages = [o.pages EXCEPT ![ptr.page] = node]
<1>1. node \in InternalNode => node \in Node /\ ~IsLeaf(node)
  BY DEF InternalNode, Node, IsLeaf
<1> QED BY <1>1, NodeReplaced

LEMMA ParentSet ==
  ASSUME NEW o, Good(o), Grown(o), NEW ptr, NEW parent,
         Failed(o) \/ (ptr.page \in Pages /\ Inner(o, parent))
  PROVE  LET r == SetParent(o, ptr, parent)
         IN /\ Keeps(o, r) /\ r.num_pages = o.num_pages
            /\ Failed(o) => r = o
            /\ \A p \in Pages : r.pages[p].cells = o.pages[p].cells
<1>1. CASE Failed(o)
  BY <1>1, KeepsItself DEF SetParent
<1>2. CASE ~Failed(o)
  <2> DEFINE old == o.pages[ptr.page]
             new == [old EXCEPT !.parent = parent]
             r == StoreNode(o, ptr, new)
  <2>1. SetParent(o, ptr, parent) = r
    BY <1>2 DEF SetParent
  <2>2. ptr.page \in Pages /\ old \in Node /\ parent \in Pages /\ o.pages \in [Pages -> Node]
    BY <1>2, OperationFields DEF Good, Inner
  <2> HIDE DEF old
  <2>3. /\ new \in Node /\ new.parent = parent
        /\ new.is_root = old.is_root /\ new.cells = old.cells
        /\ IsLeaf(new) <=> IsLeaf(old)
        /\ IsLeaf(old) => new.next = old.next
    BY <2>2, NodeReparented
  <2>4. old.is_root <=> ptr.page = root_page_num
    BY <2>2 DEF Good, Shaped, old
  <2> HIDE DEF new
  <2>5. /\ Keeps(o, r) /\ r.num_pages = o.num_pages
        /\ Failed(r) => r.pages = o.pages
        /\ ~Failed(r) => r.pages = [o.pages EXCEPT ![ptr.page] = new]
    BY <1>2, <2>2, <2>3, <2>4, NodeReplaced DEF old
  <2> HIDE DEF r
  <2>6. \A p \in Pages : r.pages[p].cells = o.pages[p].cells
    BY <2>2, <2>3, <2>5 DEF old
  <2> QED BY <1>2, <2>1, <2>5, <2>6
<1> QED BY <1>1, <1>2

\* A request, and a pointer used, change no page.
LEMMA RequestKeeps ==
  ASSUME NEW o, Good(o), NEW p
  PROVE  LET r == get_page(o, p)
         IN /\ Keeps(o, r) /\ r.pages = o.pages
            /\ Failed(o) => r = o
            /\ ~Failed(r) => /\ ~Failed(o) /\ p \in Pages
                             /\ p = o.num_pages => r.num_pages = o.num_pages + 1
            /\ p # o.num_pages => r.num_pages = o.num_pages
<1>1. o \in Operations
  BY DEF Good
<1> QED BY <1>1, PageRequested, KeepsSamePages

LEMMA UseKeeps ==
  ASSUME NEW o, Good(o), NEW ptrs
  PROVE  LET r == Use(o, ptrs)
         IN /\ Keeps(o, r) /\ r.pages = o.pages /\ r.num_pages = o.num_pages
            /\ Failed(o) => r = o
            /\ ~Failed(r) => r = o
<1>1. o \in Operations /\ o.num_pages \in Nat
  BY DEF Good, Shaped
<1> QED BY <1>1, PointersUsed, KeepsSamePages

LEMMA TestKeeps ==
  ASSUME NEW o, Good(o), NEW ptr, NEW node \in InternalNode, NEW cell
  PROVE  LET r == TestCell(o, ptr, node, cell)
         IN /\ Keeps(o, r) /\ r.pages = o.pages /\ r.num_pages = o.num_pages
            /\ Failed(o) => r = o
            /\ ~Failed(r) => r = o
<1>1. o \in Operations /\ o.num_pages \in Nat
  BY DEF Good, Shaped
<1> QED BY <1>1, CellTested, KeepsSamePages

\* Like Keeps, with the cells of every node as they were.
KeepsCells(o, r) == Keeps(o, r) /\ \A p \in Pages : r.pages[p].cells = o.pages[p].cells

-----------------------------------------------------------------------------
(***************************************************************************)
(* A new root above an internal one.                                       *)
(***************************************************************************)

LEMMA ChildAdopted ==
  ASSUME NEW o, Good(o), Grown(o), NEW left, Inner(o, left.page), NEW child
  PROVE  LET r == AdoptChild(o, left, child)
         IN KeepsCells(o, r) /\ (Failed(o) => r = o)
<1> DEFINE o1 == Use(o, {left})
           o2 == get_page(o1, child)
           o3 == SetParent(o2, Pointer(o2, child), left.page)
<1>1. /\ Keeps(o, o1) /\ o1.pages = o.pages
      /\ Failed(o) => o1 = o
  BY UseKeeps
<1> HIDE DEF o1
<1>2. Good(o1) /\ Grown(o1) /\ Inner(o1, left.page)
  BY <1>1, KeepsContext
<1>3. /\ Keeps(o1, o2) /\ o2.pages = o1.pages
      /\ Failed(o1) => o2 = o1
      /\ ~Failed(o2) => child \in Pages
  BY <1>2, RequestKeeps
<1> HIDE DEF o2
<1>4. Good(o2) /\ Grown(o2) /\ Inner(o2, left.page)
  BY <1>2, <1>3, KeepsContext
<1>5. Pointer(o2, child).page = child
  BY DEF Pointer
<1>6. /\ Keeps(o2, o3) /\ (Failed(o2) => o3 = o2)
      /\ \A p \in Pages : o3.pages[p].cells = o2.pages[p].cells
  BY <1>3, <1>4, <1>5, ParentSet
<1>7. AdoptChild(o, left, child) = o3
  BY DEF AdoptChild, o1, o2
<1> HIDE DEF o3
<1>8. Keeps(o, o3)
  BY <1>1, <1>2, <1>3, <1>4, <1>6, KeepsTransitive
<1>9. KeepsCells(o, o3)
  BY <1>1, <1>3, <1>6, <1>8 DEF KeepsCells
<1> QED BY <1>1, <1>3, <1>6, <1>7, <1>9

LEMMA ChildrenList ==
  ASSUME NEW node \in InternalNode
  PROVE  /\ Len(Children(node)) = Len(node.cells) + 1
         /\ \A i \in 1 .. Len(node.cells) + 1 : Children(node)[i] \in Nat
<1> DEFINE n == Len(node.cells)
           firsts == [i \in 1 .. n |-> node.cells[i].child]
<1>1. n \in Nat /\ node.cells \in Seq(InternalCell) /\ node.right \in Nat
  BY DEF InternalNode
<1>2. \A i \in 1 .. n : node.cells[i].child \in Nat
  <2>1. \A i \in 1 .. n : node.cells[i] \in InternalCell
    BY <1>1
  <2> QED BY <2>1, PageNumbers DEF InternalCell
<1>3. firsts \in Seq(Nat) /\ Len(firsts) = n /\ <<node.right>> \in Seq(Nat) /\ Len(<<node.right>>) = 1
  BY <1>1, <1>2
<1>4. Children(node) = firsts \o <<node.right>>
  BY DEF Children
<1> HIDE DEF firsts, n
<1>5. /\ firsts \o <<node.right>> \in Seq(Nat)
      /\ Len(firsts \o <<node.right>>) = n + 1
  BY <1>1, <1>3, ConcatProperties
<1> QED BY <1>4, <1>5 DEF n

LEMMA ChildrenAdopted ==
  ASSUME NEW o, Good(o), NEW left, Inner(o, left.page), Failed(o) \/ Grown(o)
  PROVE  LET r == AdoptChildren(o, left)
         IN KeepsCells(o, r) /\ (Failed(o) => r = o)
<1> DEFINE children == Children(o.pages[left.page])
           n == Len(children)
           Turn(f, i) == IF i = 0 THEN o ELSE AdoptChild(f[i - 1], left, children[i])
           adopted == CHOOSE f : f = [i \in 0 .. n |-> Turn(f, i)]
           S == {x \in Operations : KeepsCells(o, x) /\ (Failed(o) => x = o)}
<1>1. n \in Nat
  <2>1. o.pages[left.page] \in InternalNode
    BY OperationFields, NodeFields DEF Good, Inner
  <2>2. Len(o.pages[left.page].cells) \in Nat
    BY <2>1 DEF InternalNode
  <2> QED BY <2>1, <2>2, ChildrenList
<1>2. o \in S
  BY KeepsItself DEF KeepsCells, Good
<1>3. ASSUME NEW x \in S, NEW child PROVE AdoptChild(x, left, child) \in S
  <2> DEFINE y == AdoptChild(x, left, child)
  <2>1. Keeps(o, x) /\ (Failed(o) => x = o) /\ \A p \in Pages : x.pages[p].cells = o.pages[p].cells
    BY <1>3 DEF KeepsCells
  <2>2. Good(x) /\ (Grown(o) => Grown(x)) /\ Inner(x, left.page)
    BY <2>1, KeepsContext
  <2>3. KeepsCells(x, y) /\ (Failed(x) => y = x)
    <3>1. CASE Failed(o)
      <4>1. Failed(x) /\ y = x
        <5>1. Failed(x)
          BY <2>1, <3>1
        <5>2. Use(x, {left}) = x
          BY <5>1 DEF Use
        <5>3. get_page(x, child) = x
          BY <5>1 DEF get_page
        <5>4. SetParent(x, Pointer(x, child), left.page) = x
          BY <5>1 DEF SetParent
        <5> QED BY <5>1, <5>2, <5>3, <5>4 DEF AdoptChild
      <4> QED BY <2>2, <4>1, KeepsItself DEF KeepsCells
    <3>2. CASE Grown(o)
      BY <2>2, <3>2, ChildAdopted
    <3> QED BY <3>1, <3>2
  <2> HIDE DEF y
  <2>4. Keeps(o, y)
    BY <2>1, <2>2, <2>3, KeepsTransitive DEF KeepsCells
  <2>5. KeepsCells(o, y) /\ y \in Operations
    BY <2>1, <2>3, <2>4 DEF KeepsCells, Keeps, Good
  <2>6. Failed(o) => y = o
    BY <2>1, <2>3
  <2> QED BY <2>5, <2>6 DEF y
<1> HIDE DEF n, children, S
<1>4. \E f : f = [i \in 0 .. n |-> Turn(f, i)]
  <2> DEFINE step == [i \in 1 .. n |-> [x \in S |-> AdoptChild(x, left, children[i])]]
  <2>1. step \in [1 .. n -> [S -> S]]
    BY <1>3
  <2> HIDE DEF step
  <2>2. PICK f \in [0 .. n -> S] : f[0] = o /\ \A i \in 1 .. n : f[i] = step[i][f[i - 1]]
    BY <1>1, <1>2, <2>1, Loop
  <2>3. ASSUME NEW i \in 0 .. n PROVE f[i] = Turn(f, i)
    <3>1. CASE i = 0
      BY <2>2, <3>1
    <3>2. CASE i # 0
      <4>1. i \in 1 .. n /\ i - 1 \in 0 .. n
        BY <1>1, <3>2
      <4>2. f[i - 1] \in S /\ f[i] = step[i][f[i - 1]]
        BY <2>2, <4>1
      <4> QED BY <3>2, <4>1, <4>2 DEF step
    <3> QED BY <3>1, <3>2
  <2>4. f = [i \in 0 .. n |-> Turn(f, i)]
    <3> HIDE DEF Turn
    <3> QED BY <2>2, <2>3
  <2> QED BY <2>4
<1>5. adopted = [i \in 0 .. n |-> Turn(adopted, i)]
  <2> HIDE DEF Turn
  <2> QED BY <1>4
<1> HIDE DEF adopted
<1>6. \A i \in 0 .. n : adopted[i] = Turn(adopted, i)
  <2> HIDE DEF Turn
  <2> QED BY <1>5
<1>7. adopted[n] \in S
  <2> DEFINE T == {i \in 0 .. n : adopted[i] \in S}
  <2>1. 0 \in T
    BY <1>1, <1>2, <1>6
  <2>2. ASSUME NEW i \in 0 .. n, i \in T, i + 1 <= n PROVE i + 1 \in T
    <3>1. i + 1 \in 0 .. n /\ (i + 1) - 1 = i /\ i + 1 # 0 /\ adopted[i] \in S
      BY <1>1, <2>2
    <3>2. adopted[i + 1] = AdoptChild(adopted[i], left, children[i + 1])
      BY <1>6, <3>1
    <3> QED BY <1>3, <3>1, <3>2
  <2> HIDE DEF T
  <2>3. \A i \in 0 .. n : i \in T
    BY <1>1, <2>1, <2>2, InductionTo
  <2> QED BY <1>1, <2>3 DEF T
<1>8. AdoptChildren(o, left) = IF IsLeaf(o.pages[left.page]) THEN o ELSE adopted[n]
  BY DEF AdoptChildren, adopted, n, children
<1> QED BY <1>2, <1>7, <1>8 DEF S

\* The pages of the new root: page 0 has one key and its child, left, has
\* the cells of the old root; the page on the right is an empty node.
RootSplit(a, r, right) ==
  \E left \in Pages \ {right} :
    /\ r.pages[root_page_num].cells[1].child = left
    /\ r.pages[left].cells = a[root_page_num].cells
    /\ Inner(r, left) /\ Inner(r, right)
    /\ r.pages[right].cells = <<>>

LEMMA PagesForRoot ==
  ASSUME NEW o, Good(o), Grown(o), NEW right, right = o.num_pages
  PROVE  LET o1 == get_page(get_page(o, root_page_num), right)
             o2 == get_page(o1, o1.num_pages)
         IN /\ Keeps(o, o2) /\ o2.pages = o.pages
            /\ Failed(o) => o2 = o
            /\ ~Failed(o2) => /\ o1.num_pages = right + 1
                              /\ Inner(o2, right) /\ Inner(o2, right + 1)
<1> DEFINE o0 == get_page(o, root_page_num)
           o1 == get_page(o0, right)
           o2 == get_page(o1, o1.num_pages)
<1>1. /\ Keeps(o, o0) /\ o0.pages = o.pages
      /\ Failed(o) => o0 = o
      /\ root_page_num # o.num_pages => o0.num_pages = o.num_pages
  BY RequestKeeps
<1>2. o.num_pages \in 1 .. FILE_PAGES_NUM /\ root_page_num # o.num_pages
  BY DEF Good, Shaped, root_page_num
<1> HIDE DEF o0
<1>3. /\ Keeps(o0, o1) /\ o1.pages = o0.pages
      /\ Failed(o0) => o1 = o0
      /\ ~Failed(o1) => right \in Pages /\ (right = o0.num_pages => o1.num_pages = o0.num_pages + 1)
  BY <1>1, KeepsContext, RequestKeeps
<1> HIDE DEF o1
<1>4. /\ Keeps(o1, o2) /\ o2.pages = o1.pages
      /\ Failed(o1) => o2 = o1
      /\ ~Failed(o2) => /\ ~Failed(o1) /\ o1.num_pages \in Pages
                        /\ o2.num_pages = o1.num_pages + 1
  BY <1>1, <1>3, KeepsContext, RequestKeeps
<1> HIDE DEF o2
<1>5. Keeps(o, o2) /\ o2.pages = o.pages
  <2>1. Keeps(o, o1)
    BY <1>1, <1>3, KeepsContext, KeepsTransitive
  <2> QED BY <1>1, <1>3, <1>4, <2>1, KeepsContext, KeepsTransitive
<1>6. ASSUME ~Failed(o2)
      PROVE  /\ o1.num_pages = right + 1
             /\ Inner(o2, right) /\ Inner(o2, right + 1)
  <2>1. /\ right \in Pages /\ right + 1 \in Pages /\ right \in Nat
        /\ o1.num_pages = right + 1 /\ o2.num_pages = right + 1 + 1
    BY <1>1, <1>2, <1>3, <1>4, <1>6
  <2>2. ~IsLeaf(o.pages[right]) /\ ~IsLeaf(o.pages[right + 1])
    BY <2>1 DEF Good, Shaped
  <2> QED BY <1>5, <2>1, <2>2 DEF Inner
<1> QED BY <1>1, <1>3, <1>4, <1>5, <1>6 DEF o2, o1, o0

LEMMA RootCopied ==
  ASSUME NEW o, Good(o), Grown(o), NEW root, NEW right, NEW left,
         root.page = root_page_num, Inner(o, right.page), Inner(o, left.page),
         right.page # root_page_num, left.page # root_page_num, left.page # right.page
  PROVE  LET r == CopyRoot(o, root, right, left)
         IN /\ Keeps(o, r)
            /\ ~Failed(r) => /\ r.pages[left.page].cells = o.pages[root_page_num].cells
                             /\ r.pages[right.page].cells = <<>>
<1> DEFINE old == o.pages[root_page_num]
           empty == initialize_internal_node(o.pages[right.page])
           o1 == StoreNode(o, right, empty)
           o2 == Use(o1, {root})
           o3 == StoreNode(o2, left, LeftCopy(old))
<1>1. /\ o.pages \in [Pages -> Node] /\ left.page \in Pages /\ right.page \in Pages
      /\ old \in InternalNode /\ o.pages[right.page] \in Node
  BY OperationFields, NodeFields, PageNumbers DEF Good, Inner, Grown
<1>2. CopyRoot(o, root, right, left) = o3
  BY DEF CopyRoot, Grown
<1>3. /\ empty \in InternalNode /\ empty.cells = <<>> /\ ~empty.is_root
      /\ empty.parent = o.pages[right.page].parent
  BY <1>1, NodeInitialized DEF initialize_internal_node
<1>4. Inner(o, empty.parent)
  BY <1>1, <1>3, ParentIsInner
<1> HIDE DEF empty
<1>5. /\ Keeps(o, o1)
      /\ ~Failed(o1) => o1.pages = [o.pages EXCEPT ![right.page] = empty]
  BY <1>1, <1>3, <1>4, InnerStored DEF Inner
<1> HIDE DEF o1
<1>6. /\ Keeps(o1, o2) /\ o2.pages = o1.pages
      /\ ~Failed(o2) => o2 = o1
  BY <1>5, KeepsContext, UseKeeps
<1> HIDE DEF o2
<1>7. Keeps(o, o2) /\ Good(o2) /\ Grown(o2) /\ Inner(o2, left.page) /\ Inner(o2, old.parent)
  <2>1. Keeps(o, o2)
    BY <1>5, <1>6, KeepsContext, KeepsTransitive
  <2>2. Inner(o, old.parent)
    BY PageNumbers, ParentIsInner
  <2> QED BY <2>1, <2>2, KeepsContext
<1>8. /\ LeftCopy(old) \in InternalNode /\ LeftCopy(old).cells = old.cells
      /\ ~LeftCopy(old).is_root /\ LeftCopy(old).parent = old.parent
  BY <1>1 DEF LeftCopy, InternalNode
<1> HIDE DEF old
<1>9. /\ Keeps(o2, o3)
      /\ ~Failed(o3) => /\ ~Failed(o2)
                        /\ o3.pages = [o2.pages EXCEPT ![left.page] = LeftCopy(old)]
  BY <1>7, <1>8, InnerStored DEF Inner
<1> HIDE DEF o3
<1>10. Keeps(o, o3)
  BY <1>7, <1>9, KeepsTransitive
<1>11. ASSUME ~Failed(o3)
       PROVE  /\ o3.pages[left.page].cells = old.cells
              /\ o3.pages[right.page].cells = <<>>
  <2>1. /\ o3.pages = [o2.pages EXCEPT ![left.page] = LeftCopy(old)]
        /\ o2.pages = [o.pages EXCEPT ![right.page] = empty]
    BY <1>5, <1>6, <1>9, <1>11
  <2> QED BY <1>1, <1>3, <1>8, <2>1
<1> QED BY <1>2, <1>10, <1>11 DEF old

LEMMA RootGrown ==
  ASSUME NEW o, Good(o), Grown(o), NEW root, NEW right, NEW left,
         root.page = root_page_num, Inner(o, right.page), Inner(o, left.page),
         right.page # root_page_num, left.page # root_page_num, left.page # right.page
  PROVE  LET r == GrowRoot(o, root, right, left)
         IN Keeps(o, r) /\ (~Failed(r) => RootSplit(o.pages, r, right.page))
<1> DEFINE o1 == CopyRoot(o, root, right, left)
           o2 == AdoptChildren(o1, left)
           empty == initialize_internal_node(o2.pages[root_page_num])
           above == [empty EXCEPT
                       !.is_root = TRUE,
                       !.cells = <<[child |-> left.page, key |-> get_node_max_key(o2.pages, left.page)]>>,
                       !.right = right.page,
                       !.leftover = @ \ {0}]
           tested == TestCell(o2, root, empty, 0)
           o3 == StoreNode(tested, root, above)
           o4 == SetParent(o3, left, root_page_num)
           o5 == SetParent(o4, right, root_page_num)
<1>0. left.page \in Pages /\ right.page \in Pages
  BY DEF Inner
<1>1. /\ Keeps(o, o1)
      /\ ~Failed(o1) => /\ o1.pages[left.page].cells = o.pages[root_page_num].cells
                        /\ o1.pages[right.page].cells = <<>>
  BY RootCopied
<1> HIDE DEF o1
<1>2. Good(o1) /\ Grown(o1) /\ Inner(o1, left.page)
  BY <1>1, KeepsContext
<1>3. KeepsCells(o1, o2) /\ (Failed(o1) => o2 = o1)
  BY <1>2, ChildrenAdopted
<1> HIDE DEF o2
<1>4. Keeps(o, o2)
  BY <1>1, <1>2, <1>3, KeepsTransitive DEF KeepsCells
<1>5. Good(o2) /\ Grown(o2) /\ Inner(o2, root_page_num)
  BY <1>4, KeepsContext, RootIsInner
<1>6. /\ above \in InternalNode /\ above.is_root /\ above.cells[1].child = left.page
      /\ above.parent = o2.pages[root_page_num].parent
  <2>1. o2.pages \in [Pages -> Node] /\ o2.pages[root_page_num] \in Node
    BY <1>5, OperationFields, PageNumbers DEF Good
  <2> DEFINE key == get_node_max_key(o2.pages, left.page)
             node == initialize_internal_node(o2.pages[root_page_num])
             cell == [child |-> left.page, key |-> key]
  <2>2. key \in Nat
    BY <1>0, <2>1, MaxKeyIsNat
  <2> HIDE DEF key
  <2>3. node \in InternalNode /\ node.parent = o2.pages[root_page_num].parent
    BY <2>1, NodeInitialized DEF initialize_internal_node
  <2>4. <<cell>> \in Seq(InternalCell) /\ <<cell>>[1].child = left.page
    BY <1>0, <2>2 DEF InternalCell
  <2>5. right.page \in Nat
    BY <1>0, PageNumbers
  <2>6. above = [node EXCEPT !.is_root = TRUE, !.cells = <<cell>>, !.right = right.page,
                             !.leftover = @ \ {0}]
    BY DEF key
  <2> HIDE DEF node, cell, above
  <2> QED BY <2>3, <2>4, <2>5, <2>6 DEF InternalNode
<1>7. Inner(o2, above.parent)
  BY <1>5, <1>6, ParentIsInner, PageNumbers
<1> HIDE DEF above
<1>8. /\ Keeps(o2, o3)
      /\ Failed(o2) => o3 = o2
      /\ ~Failed(o3) => /\ ~Failed(o2)
                        /\ o3.pages = [o2.pages EXCEPT ![root_page_num] = above]
  <2>1. /\ Keeps(o2, tested) /\ tested.pages = o2.pages
        /\ Failed(o2) => tested = o2
        /\ ~Failed(tested) => tested = o2
    <3>1. empty \in InternalNode
      BY <1>5, OperationFields, PageNumbers, NodeInitialized DEF Good
    <3> HIDE DEF empty
    <3> QED BY <1>5, <3>1, TestKeeps
  <2> HIDE DEF tested
  <2>2. Good(tested) /\ Grown(tested) /\ Inner(tested, root_page_num) /\ Inner(tested, above.parent)
    BY <1>5, <1>7, <2>1, KeepsContext
  <2>3. /\ Keeps(tested, o3)
        /\ Failed(tested) => o3 = tested
        /\ ~Failed(o3) => /\ ~Failed(tested)
                          /\ o3.pages = [tested.pages EXCEPT ![root_page_num] = above]
    BY <1>6, <2>2, InnerStored DEF Inner
  <2>4. Keeps(o2, o3)
    BY <1>5, <2>1, <2>3, KeepsTransitive
  <2> QED BY <2>1, <2>3, <2>4
<1> HIDE DEF o3
<1>9. Keeps(o, o3) /\ Good(o3) /\ Grown(o3) /\ Inner(o3, root_page_num)
  <2>1. Keeps(o, o3)
    BY <1>4, <1>5, <1>8, KeepsTransitive
  <2> QED BY <2>1, KeepsContext, RootIsInner
<1>10. KeepsCells(o3, o4) /\ (Failed(o3) => o4 = o3)
  BY <1>0, <1>9, ParentSet DEF KeepsCells
<1> HIDE DEF o4
<1>11. Keeps(o, o4) /\ Good(o4) /\ Grown(o4) /\ Inner(o4, root_page_num)
  <2>1. Keeps(o, o4)
    BY <1>9, <1>10, KeepsTransitive DEF KeepsCells
  <2> QED BY <2>1, KeepsContext, RootIsInner
<1>12. KeepsCells(o4, o5) /\ (Failed(o4) => o5 = o4)
  BY <1>0, <1>11, ParentSet DEF KeepsCells
<1> HIDE DEF o5
<1>13. Keeps(o, o5)
  BY <1>11, <1>12, KeepsTransitive DEF KeepsCells
<1>14. ASSUME ~Failed(o5) PROVE RootSplit(o.pages, o5, right.page)
  <2>1. /\ ~Failed(o3) /\ ~Failed(o2) /\ ~Failed(o1)
    BY <1>3, <1>8, <1>10, <1>12, <1>14
  <2>2. \A p \in Pages : o5.pages[p].cells = o3.pages[p].cells
    BY <1>10, <1>12 DEF KeepsCells
  <2>3. /\ o3.pages[root_page_num] = above
        /\ o3.pages[left.page] = o2.pages[left.page]
        /\ o3.pages[right.page] = o2.pages[right.page]
    BY <1>0, <1>5, <1>8, <2>1, PageNumbers, OperationFields DEF Good
  <2>4. \A p \in Pages : o2.pages[p].cells = o1.pages[p].cells
    BY <1>3 DEF KeepsCells
  <2>5. /\ o5.pages[root_page_num].cells = above.cells
        /\ o5.pages[left.page].cells = o.pages[root_page_num].cells
        /\ o5.pages[right.page].cells = <<>>
    BY <1>0, <1>1, <2>1, <2>2, <2>3, <2>4, PageNumbers
  <2>6. Inner(o5, left.page) /\ Inner(o5, right.page)
    BY <1>13, KeepsContext
  <2> QED BY <1>0, <1>6, <2>5, <2>6 DEF RootSplit
<1>15. GrowRoot(o, root, right, left) = o5
  BY DEF GrowRoot, RootAbove, o5, o4, o3, tested, above, o2, o1
<1> QED BY <1>13, <1>14, <1>15

\* create_new_root() of a root that is not a leaf.
LEMMA NewRoot ==
  ASSUME NEW o, Good(o), Grown(o), NEW right, right = o.num_pages
  PROVE  LET r == create_new_root(o, right)
         IN /\ Keeps(o, r) /\ (Failed(o) => r = o)
            /\ ~Failed(r) => RootSplit(o.pages, r, right)
<1> DEFINE o1 == get_page(get_page(o, root_page_num), right)
           o2 == get_page(o1, o1.num_pages)
           left == o1.num_pages
           r == GrowRoot(o2, Pointer(o2, root_page_num), Pointer(o2, right), Pointer(o2, left))
<1>1. /\ Keeps(o, o2) /\ o2.pages = o.pages
      /\ Failed(o) => o2 = o
      /\ ~Failed(o2) => /\ left = right + 1
                        /\ Inner(o2, right) /\ Inner(o2, right + 1)
  BY PagesForRoot
<1>2. create_new_root(o, right) = IF Failed(o2) THEN o2 ELSE r
  BY DEF create_new_root
<1> HIDE DEF o2, left
<1>3. CASE Failed(o2)
  BY <1>1, <1>2, <1>3
<1>4. CASE ~Failed(o2)
  <2>1. right \in Nat /\ right >= 1 /\ root_page_num = 0
    BY DEF Good, Shaped, root_page_num
  <2>2. left # right /\ left # root_page_num /\ right # root_page_num
    BY <1>1, <1>4, <2>1
  <2>3. \A p : Pointer(o2, p).page = p
    BY DEF Pointer
  <2>4. Good(o2) /\ Grown(o2)
    BY <1>1, KeepsContext
  <2>5. Keeps(o2, r) /\ (~Failed(r) => RootSplit(o2.pages, r, right))
    BY <1>1, <1>4, <2>2, <2>3, <2>4, RootGrown
  <2> HIDE DEF r
  <2>6. Keeps(o, r)
    BY <1>1, <2>5, KeepsTransitive
  <2> QED BY <1>1, <1>2, <1>4, <2>5, <2>6
<1> QED BY <1>3, <1>4

-----------------------------------------------------------------------------
(***************************************************************************)
(* What is assumed of the nested calls of internal_node_insert(), and      *)
(* proved of a call that makes them: they keep the leaves, leave a failed  *)
(* operation alone, and in a node that is not full put at most one cell,   *)
(* touching no other node's cells.                                         *)
(***************************************************************************)

OnlyGrows(a, b, p) ==
  /\ Len(b[p].cells) <= Len(a[p].cells) + 1
  /\ \A q \in Pages \ {p} : b[q].cells = a[q].cells

Inserts(o, p, r) ==
  /\ Keeps(o, r)
  /\ Failed(o) => r = o
  /\ ~Failed(r) /\ Len(o.pages[p].cells) < INTERNAL_NODE_MAX_CELLS => OnlyGrows(o.pages, r.pages, p)

Contract(insert) ==
  \A call \in Calls :
    Good(call.op) /\ Grown(call.op) /\ Inner(call.op, call.parent) =>
      Inserts(call.op, call.parent, insert[call])

LEMMA Called ==
  ASSUME NEW insert, Contract(insert), NEW o, Good(o), Grown(o),
         NEW p, Inner(o, p), NEW c \in Nat
  PROVE  Inserts(o, p, insert[Call(o, p, c)])
<1> DEFINE call == Call(o, p, c)
<1>1. call \in Calls /\ call.op = o /\ call.parent = p
  BY PageNumbers DEF Call, Calls, Good, Inner
<1> HIDE DEF call
<1>2. Inserts(call.op, call.parent, insert[call])
  BY <1>1 DEF Contract
<1> QED BY <1>1, <1>2 DEF call

LEMMA InnerNode ==
  ASSUME NEW o, Good(o), NEW p, Inner(o, p)
  PROVE  /\ p \in Pages /\ p \in Nat
         /\ o.pages \in [Pages -> Node]
         /\ o.pages[p] \in InternalNode
         /\ o.pages[p].cells \in Seq(InternalCell)
         /\ Len(o.pages[p].cells) \in Nat
<1>1. o.pages[p] \in Node /\ p \in Pages /\ o.pages \in [Pages -> Node]
  BY OperationFields DEF Good, Inner
<1>2. o.pages[p] \in InternalNode /\ o.pages[p].cells \in Seq(InternalCell)
  BY <1>1, NodeFields DEF Inner
<1> QED BY <1>1, <1>2, PageNumbers

(***************************************************************************)
(* The steps of a split.                                                   *)
(***************************************************************************)

Ready(o, s) ==
  /\ Inner(o, s.old.page) /\ Inner(o, s.new.page) /\ Inner(o, s.parent.page)
  /\ s.child.page \in Pages /\ s.child_max \in Nat /\ s.old_max \in Nat

LEMMA ReadyKept ==
  ASSUME NEW o, NEW r, NEW s, Good(o), Grown(o), Keeps(o, r), Ready(o, s)
  PROVE  Good(r) /\ Grown(r) /\ Ready(r, s)
BY KeepsContext DEF Ready

LEMMA ChildMoved ==
  ASSUME NEW insert, Contract(insert), NEW o, Good(o), Grown(o),
         NEW s, Ready(o, s), NEW page \in Nat
  PROVE  Inserts(o, s.new.page, MoveChild(o, s, page, insert))
<1> DEFINE new == s.new.page
           o1 == Use(o, {s.old})
           o2 == get_page(o1, page)
           o3 == insert[Call(o2, new, page)]
           o4 == SetParent(o3, Pointer(o2, page), new)
<1>1. /\ Keeps(o, o1) /\ o1.pages = o.pages
      /\ Failed(o) => o1 = o
  BY UseKeeps
<1> HIDE DEF o1
<1>2. Good(o1) /\ Grown(o1)
  BY <1>1, KeepsContext
<1>3. /\ Keeps(o1, o2) /\ o2.pages = o1.pages
      /\ Failed(o1) => o2 = o1
      /\ ~Failed(o2) => page \in Pages
  BY <1>2, RequestKeeps
<1> HIDE DEF o2
<1>4. Keeps(o, o2) /\ o2.pages = o.pages
  BY <1>1, <1>2, <1>3, KeepsTransitive
<1>5. Good(o2) /\ Grown(o2) /\ Inner(o2, new) /\ Inner(o, new)
  BY <1>4, KeepsContext DEF Ready
<1>6. Inserts(o2, new, o3)
  BY <1>5, Called
<1> HIDE DEF o3
<1>7. Keeps(o2, o3) /\ (Failed(o2) => o3 = o2)
  BY <1>6 DEF Inserts
<1>8. Good(o3) /\ Grown(o3) /\ Inner(o3, new)
  BY <1>5, <1>7, KeepsContext
<1>9. Pointer(o2, page).page = page
  BY DEF Pointer
<1>10. /\ Keeps(o3, o4) /\ (Failed(o3) => o4 = o3)
       /\ \A p \in Pages : o4.pages[p].cells = o3.pages[p].cells
  BY <1>3, <1>7, <1>8, <1>9, ParentSet
<1> HIDE DEF o4
<1>11. Keeps(o, o4)
  <2>1. Keeps(o, o3)
    BY <1>4, <1>7, KeepsTransitive
  <2> QED BY <1>10, <2>1, KeepsTransitive
<1>12. Failed(o) => o4 = o
  BY <1>1, <1>3, <1>7, <1>10
<1>13. ASSUME ~Failed(o4), Len(o.pages[new].cells) < INTERNAL_NODE_MAX_CELLS
       PROVE  OnlyGrows(o.pages, o4.pages, new)
  <2>1. OnlyGrows(o2.pages, o3.pages, new)
    BY <1>4, <1>6, <1>10, <1>13 DEF Inserts
  <2>2. new \in Pages
    BY <1>5 DEF Inner
  <2> QED BY <1>4, <1>10, <2>1, <2>2 DEF OnlyGrows
<1>14. MoveChild(o, s, page, insert) = o4
  BY DEF MoveChild, o4, o3, o2, o1
<1> QED BY <1>11, <1>12, <1>13, <1>14 DEF Inserts

\* The two children that move, in their order.
LEMMA MovedInTurn ==
  ASSUME NEW insert, NEW o, NEW s
  PROVE  LET children == Children(o.pages[s.old.page])
         IN MoveChildren(o, s, insert)
              = MoveChild(MoveChild(o, s, children[4], insert), s, children[3], insert)
<1> DEFINE old == s.old.page
           children == Children(o.pages[old])
           o1 == MoveChild(o, s, children[4], insert)
           o2 == MoveChild(o1, s, children[3], insert)
           Turn(f, i) == IF i = 0 THEN o
                         ELSE MoveChild(f[i - 1], s, children[INTERNAL_NODE_MAX_CELLS + 2 - i], insert)
           moved == CHOOSE f : f = [i \in 0 .. INTERNAL_NODE_MAX_CELLS - Kept |-> Turn(f, i)]
<1>1. INTERNAL_NODE_MAX_CELLS - Kept = 2 /\ INTERNAL_NODE_MAX_CELLS = 3
  BY DEF INTERNAL_NODE_MAX_CELLS, Kept
<1> HIDE DEF children, o1, o2
<1>2. moved[2] = o2
  <2> DEFINE f0 == [i \in 0 .. 2 |-> IF i = 0 THEN o ELSE IF i = 1 THEN o1 ELSE o2]
  <2>1. f0 = [i \in 0 .. INTERNAL_NODE_MAX_CELLS - Kept |-> Turn(f0, i)]
    <3>1. ASSUME NEW i \in 0 .. 2 PROVE f0[i] = Turn(f0, i)
      <4>1. CASE i = 0
        BY <4>1
      <4>2. CASE i = 1
        <5>1. f0[i - 1] = o /\ f0[i] = o1 /\ INTERNAL_NODE_MAX_CELLS + 2 - i = 4
          BY <1>1, <4>2
        <5> QED BY <4>2, <5>1 DEF o1
      <4>3. CASE i = 2
        <5>1. f0[i - 1] = o1 /\ f0[i] = o2 /\ INTERNAL_NODE_MAX_CELLS + 2 - i = 3
          BY <1>1, <4>3
        <5> QED BY <4>3, <5>1 DEF o2
      <4> QED BY <4>1, <4>2, <4>3
    <3>2. f0 = [i \in 0 .. 2 |-> f0[i]]
      OBVIOUS
    <3> HIDE DEF f0, Turn
    <3> QED BY <1>1, <3>1, <3>2
  <2>2. moved = [i \in 0 .. INTERNAL_NODE_MAX_CELLS - Kept |-> Turn(moved, i)]
    <3> HIDE DEF Turn, f0
    <3> QED BY <2>1
  <2> HIDE DEF moved, f0
  <2>3. \A i \in 0 .. 2 : moved[i] = Turn(moved, i)
    <3> HIDE DEF Turn
    <3> QED BY <1>1, <2>2
  <2>4. moved[0] = o
    BY <2>3
  <2>5. moved[1] = o1
    <3>1. moved[1] = MoveChild(moved[1 - 1], s, children[INTERNAL_NODE_MAX_CELLS + 2 - 1], insert)
      BY <2>3
    <3>2. 1 - 1 = 0 /\ INTERNAL_NODE_MAX_CELLS + 2 - 1 = 4
      BY <1>1
    <3> QED BY <2>4, <3>1, <3>2 DEF o1
  <2>6. moved[2] = MoveChild(moved[2 - 1], s, children[INTERNAL_NODE_MAX_CELLS + 2 - 2], insert)
    BY <2>3
  <2>7. 2 - 1 = 1 /\ INTERNAL_NODE_MAX_CELLS + 2 - 2 = 3
    BY <1>1
  <2> QED BY <2>5, <2>6, <2>7 DEF o2
<1>3. MoveChildren(o, s, insert) = o2
  <2>1. MoveChildren(o, s, insert) = moved[INTERNAL_NODE_MAX_CELLS - Kept]
    BY DEF MoveChildren, moved, children
  <2> QED BY <1>1, <1>2, <2>1
<1> QED BY <1>3 DEF o2, o1, children

LEMMA ChildrenMoved ==
  ASSUME NEW insert, Contract(insert), NEW o, Good(o), Grown(o), NEW s, Ready(o, s),
         s.old.page # s.new.page, o.pages[s.new.page].cells = <<>>,
         Len(o.pages[s.old.page].cells) >= INTERNAL_NODE_MAX_CELLS
  PROVE  LET r == MoveChildren(o, s, insert)
         IN /\ Keeps(o, r)
            /\ ~Failed(r) => r.pages[s.old.page].cells = o.pages[s.old.page].cells
<1> DEFINE new == s.new.page
           old == s.old.page
           children == Children(o.pages[old])
           o1 == MoveChild(o, s, children[4], insert)
           o2 == MoveChild(o1, s, children[3], insert)
<1>1. INTERNAL_NODE_MAX_CELLS - Kept = 2 /\ INTERNAL_NODE_MAX_CELLS = 3
  BY DEF INTERNAL_NODE_MAX_CELLS, Kept
<1>2. /\ old \in Pages /\ new \in Pages
      /\ children[4] \in Nat /\ children[3] \in Nat
      /\ Len(o.pages[new].cells) = 0
  <2>1. o.pages[old] \in InternalNode /\ Len(o.pages[old].cells) \in Nat /\ old \in Pages /\ new \in Pages
    BY InnerNode DEF Ready
  <2>2. 4 \in 1 .. Len(o.pages[old].cells) + 1 /\ 3 \in 1 .. Len(o.pages[old].cells) + 1
    BY <1>1, <2>1
  <2> QED BY <2>1, <2>2, ChildrenList
<1> HIDE DEF children
<1>3. Inserts(o, new, o1)
  BY <1>2, ChildMoved
<1> HIDE DEF o1
<1>4. Keeps(o, o1) /\ Good(o1) /\ Grown(o1) /\ Ready(o1, s)
  BY <1>3, ReadyKept DEF Inserts
<1>5. Inserts(o1, new, o2)
  BY <1>2, <1>4, ChildMoved
<1> HIDE DEF o2
<1>6. Keeps(o1, o2) /\ Keeps(o, o2)
  BY <1>4, <1>5, KeepsTransitive DEF Inserts
<1>7. ASSUME ~Failed(o2) PROVE o2.pages[old].cells = o.pages[old].cells
  <2>1. ~Failed(o1)
    BY <1>5, <1>7 DEF Inserts
  <2>2. OnlyGrows(o.pages, o1.pages, new)
    BY <1>1, <1>2, <1>3, <2>1 DEF Inserts
  <2>3. Len(o1.pages[new].cells) \in Nat
    BY <1>4, InnerNode DEF Ready
  <2>4. Len(o1.pages[new].cells) < INTERNAL_NODE_MAX_CELLS
    BY <1>1, <1>2, <2>2, <2>3 DEF OnlyGrows
  <2>5. OnlyGrows(o1.pages, o2.pages, new)
    BY <1>5, <1>7, <2>4 DEF Inserts
  <2> QED BY <1>2, <2>2, <2>5 DEF OnlyGrows
<1>8. MoveChildren(o, s, insert) = o2
  BY MovedInTurn DEF o2, o1, children
<1> QED BY <1>6, <1>7, <1>8

LEMMA OldIsShortened ==
  ASSUME NEW o, Good(o), Grown(o), NEW s, Ready(o, s),
         Failed(o) \/ Len(o.pages[s.old.page].cells) >= INTERNAL_NODE_MAX_CELLS
  PROVE  Keeps(o, ShortenOld(o, s))
<1> DEFINE node == o.pages[s.old.page]
           new == OldShortened(node, Kept)
<1>1. CASE Failed(o)
  BY <1>1, InnerStored DEF ShortenOld
<1>2. CASE ~Failed(o)
  <2>1. /\ node \in InternalNode /\ s.old.page \in Pages /\ ~IsLeaf(node)
        /\ node.cells \in Seq(InternalCell) /\ Len(node.cells) \in Nat
    BY InnerNode DEF Ready, Inner
  <2>2. node.is_root <=> s.old.page = root_page_num
    BY <2>1 DEF Good, Shaped
  <2>3. Inner(o, node.parent)
    BY <2>1, ParentIsInner
  <2> HIDE DEF node
  <2>4. Kept = 1 /\ Len(node.cells) >= 2
    BY <1>2, <2>1 DEF Kept, INTERNAL_NODE_MAX_CELLS, node
  <2>5. node.cells[2] \in InternalCell /\ node.cells[1] \in InternalCell
    BY <2>1, <2>4
  <2>6. SubSeq(node.cells, 1, 1) \in Seq(InternalCell) /\ node.cells[2].child \in Nat
    <3>1. node.cells[2].child \in Pages
      BY <2>5 DEF InternalCell
    <3>2. 1 \in 1 .. Len(node.cells)
      BY <2>1, <2>4
    <3>3. SubSeq(node.cells, 1, 1) \in Seq(InternalCell)
      BY <2>1, <3>2
    <3> QED BY <3>1, <3>3, PageNumbers
  <2>7. new = [node EXCEPT !.cells = SubSeq(node.cells, 1, 1), !.right = node.cells[2].child]
    BY <2>4 DEF OldShortened
  <2> HIDE DEF new
  <2>8. new \in InternalNode /\ new.is_root = node.is_root /\ new.parent = node.parent
    BY <2>1, <2>6, <2>7 DEF InternalNode
  <2>9. Keeps(o, StoreNode(o, s.old, new))
    BY <2>1, <2>2, <2>3, <2>8, InnerStored DEF node
  <2> QED BY <2>9 DEF ShortenOld, new, node
<1> QED BY <1>1, <1>2

LEMMA ChildPlaced ==
  ASSUME NEW insert, Contract(insert), NEW o, Good(o), Grown(o), NEW s, Ready(o, s)
  PROVE  Keeps(o, PlaceChild(o, s, insert))
<1> DEFINE destination == IF s.child_max < get_node_max_key(o.pages, s.old.page)
                          THEN s.old.page ELSE s.new.page
           o1 == insert[Call(o, destination, s.child.page)]
           o2 == SetParent(o1, s.child, destination)
<1>1. Inner(o, destination) /\ s.child.page \in Pages /\ s.child.page \in Nat
  BY PageNumbers DEF Ready
<1> HIDE DEF destination
<1>2. Keeps(o, o1)
  BY <1>1, Called DEF Inserts
<1> HIDE DEF o1
<1>3. Good(o1) /\ Grown(o1) /\ Inner(o1, destination)
  BY <1>1, <1>2, KeepsContext
<1>4. Keeps(o1, o2)
  BY <1>1, <1>3, ParentSet
<1>5. PlaceChild(o, s, insert) = o2
  BY DEF PlaceChild, o2, o1, destination
<1> HIDE DEF o2
<1> QED BY <1>2, <1>4, <1>5, KeepsTransitive

LEMMA KeyUpdated ==
  ASSUME NEW o, Good(o), Grown(o), NEW s, Ready(o, s)
  PROVE  Keeps(o, UpdateKey(o, s))
<1> DEFINE p == s.parent.page
           node == o.pages[p]
           key == get_node_max_key(o.pages, s.old.page)
           n == s.old_max + 1
           cell == [node.cells[n] EXCEPT !.key = key]
           new == [node EXCEPT !.cells = [node.cells EXCEPT ![n] = cell]]
           used == Use(o, {s.old})
<1>1. CASE s.old_max < Len(node.cells)
  <2>1. /\ node \in InternalNode /\ p \in Pages /\ ~IsLeaf(node)
        /\ node.cells \in Seq(InternalCell) /\ Len(node.cells) \in Nat
        /\ o.pages \in [Pages -> Node] /\ s.old.page \in Pages
    BY InnerNode DEF Ready, Inner
  <2>2. key \in Nat
    BY <2>1, MaxKeyIsNat
  <2>3. n \in 1 .. Len(node.cells)
    BY <1>1, <2>1 DEF Ready
  <2>4. node.is_root <=> p = root_page_num
    BY <2>1 DEF Good, Shaped
  <2>5. Inner(o, node.parent)
    BY <2>1, ParentIsInner
  <2> HIDE DEF node, key, n, p
  <2>6. cell \in InternalCell
    <3>1. node.cells[n] \in InternalCell
      BY <2>1, <2>3
    <3> QED BY <2>2, <3>1 DEF InternalCell
  <2> HIDE DEF cell
  <2>7. [node.cells EXCEPT ![n] = cell] \in Seq(InternalCell)
    BY <2>1, <2>3, <2>6
  <2>8. new \in InternalNode /\ new.is_root = node.is_root /\ new.parent = node.parent
    BY <2>1, <2>7 DEF InternalNode
  <2>9. UpdateKey(o, s) = StoreNode(used, s.parent, new)
    BY <1>1 DEF UpdateKey, new, cell, node, key, n, p
  <2> HIDE DEF new
  <2>10. /\ Keeps(o, used) /\ used.pages = o.pages
    BY UseKeeps
  <2> HIDE DEF used
  <2>11. Good(used) /\ Grown(used) /\ Inner(used, node.parent)
    BY <2>5, <2>10, KeepsContext
  <2>12. Keeps(used, StoreNode(used, s.parent, new))
    BY <2>1, <2>4, <2>8, <2>10, <2>11, InnerStored DEF node, p
  <2> QED BY <2>9, <2>10, <2>12, KeepsTransitive
<1>2. CASE ~(s.old_max < Len(node.cells))
  <2>1. UpdateKey(o, s) = Use(o, {s.old, s.parent})
    BY <1>2 DEF UpdateKey
  <2> QED BY <2>1, UseKeeps
<1> QED BY <1>1, <1>2

LEMMA NewInserted ==
  ASSUME NEW insert, Contract(insert), NEW o, Good(o), Grown(o), NEW s, Ready(o, s)
  PROVE  Keeps(o, InsertNew(o, s, insert))
<1> DEFINE above == o.pages[s.old.page].parent
           o1 == insert[Call(o, above, s.new.page)]
           o2 == Use(o1, {s.old})
           o3 == SetParent(o2, s.new, o1.pages[s.old.page].parent)
<1>1. InsertNew(o, s, insert) = IF s.split_root THEN o ELSE o3
  BY DEF InsertNew
<1>2. s.old.page \in Pages /\ s.new.page \in Pages /\ s.new.page \in Nat
  BY PageNumbers DEF Ready, Inner
<1>3. Inner(o, above)
  BY <1>2, ParentIsInner
<1> HIDE DEF above
<1>4. Keeps(o, o1)
  BY <1>2, <1>3, Called DEF Inserts
<1> HIDE DEF o1
<1>5. Good(o1) /\ Grown(o1)
  BY <1>4, KeepsContext
<1>6. Keeps(o1, o2) /\ o2.pages = o1.pages
  BY <1>5, UseKeeps
<1> HIDE DEF o2
<1>7. Good(o2) /\ Grown(o2)
  BY <1>5, <1>6, KeepsContext
<1>8. Inner(o2, o1.pages[s.old.page].parent)
  BY <1>2, <1>6, <1>7, ParentIsInner
<1>9. Keeps(o2, o3)
  BY <1>2, <1>7, <1>8, ParentSet
<1> HIDE DEF o3
<1>10. Keeps(o, o3)
  BY <1>4, <1>5, <1>6, <1>9, KeepsTransitive
<1> QED BY <1>1, <1>10, KeepsItself

LEMMA SplitFinished ==
  ASSUME NEW insert, Contract(insert), NEW o, Good(o), Grown(o), NEW s,
         \/ Failed(o)
         \/ /\ Ready(o, s)
            /\ s.old.page # s.new.page /\ o.pages[s.new.page].cells = <<>>
            /\ Len(o.pages[s.old.page].cells) >= INTERNAL_NODE_MAX_CELLS
  PROVE  LET r == FinishSplit(o, s, insert) IN Keeps(o, r) /\ (Failed(o) => r = o)
<1>1. CASE Failed(o)
  BY <1>1, KeepsItself DEF FinishSplit
<1>2. CASE ~Failed(o)
  <2> DEFINE o1 == MoveChildren(o, s, insert)
             o2 == ShortenOld(o1, s)
             o3 == PlaceChild(o2, s, insert)
             o4 == UpdateKey(o3, s)
             o5 == InsertNew(o4, s, insert)
  <2>1. Keeps(o, o1) /\ (~Failed(o1) => o1.pages[s.old.page].cells = o.pages[s.old.page].cells)
    BY <1>2, ChildrenMoved
  <2> HIDE DEF o1
  <2>2. Good(o1) /\ Grown(o1) /\ Ready(o1, s)
    BY <1>2, <2>1, ReadyKept
  <2>3. Keeps(o1, o2)
    BY <1>2, <2>1, <2>2, OldIsShortened
  <2> HIDE DEF o2
  <2>4. Good(o2) /\ Grown(o2) /\ Ready(o2, s)
    BY <2>2, <2>3, ReadyKept
  <2>5. Keeps(o2, o3)
    BY <2>4, ChildPlaced
  <2> HIDE DEF o3
  <2>6. Good(o3) /\ Grown(o3) /\ Ready(o3, s)
    BY <2>4, <2>5, ReadyKept
  <2>7. Keeps(o3, o4)
    BY <2>6, KeyUpdated
  <2> HIDE DEF o4
  <2>8. Good(o4) /\ Grown(o4) /\ Ready(o4, s)
    BY <2>6, <2>7, ReadyKept
  <2>9. Keeps(o4, o5)
    BY <2>8, NewInserted
  <2> HIDE DEF o5
  <2>10. Keeps(o, o2)
    BY <2>1, <2>3, KeepsTransitive
  <2>11. Keeps(o, o3)
    BY <2>5, <2>10, KeepsTransitive
  <2>12. Keeps(o, o4)
    BY <2>7, <2>11, KeepsTransitive
  <2>13. Keeps(o, o5)
    BY <2>9, <2>12, KeepsTransitive
  <2>14. FinishSplit(o, s, insert) = o5
    BY <1>2 DEF FinishSplit, o5, o4, o3, o2, o1
  <2> QED BY <1>2, <2>13, <2>14
<1> QED BY <1>1, <1>2

\* The node that splits after RequestSplit() led from o to r: the root's
\* contents moved to its first child.
SplitPage(o, old, r) ==
  IF o.pages[old.page].is_root THEN r.pages[root_page_num].cells[1].child ELSE old.page

\* The pages of a split: the node that splits, or the one its contents moved
\* to, is full, the new page is an empty node, and they are two.
LEMMA SplitRequested ==
  ASSUME NEW o, Good(o), Grown(o), NEW old, Inner(o, old.page), NEW new, new = o.num_pages,
         Len(o.pages[old.page].cells) >= INTERNAL_NODE_MAX_CELLS
  PROVE  LET r == RequestSplit(o, old, new)
             page == SplitPage(o, old, r)
         IN /\ Keeps(o, r) /\ (Failed(o) => r = o)
            /\ ~Failed(r) => /\ Inner(r, page) /\ Inner(r, new) /\ page # new
                             /\ r.pages[new].cells = <<>>
                             /\ Len(r.pages[page].cells) >= INTERNAL_NODE_MAX_CELLS
<1> DEFINE o1 == Use(o, {old})
           r == RequestSplit(o, old, new)
<1>1. /\ Keeps(o, o1) /\ o1.pages = o.pages /\ o1.num_pages = o.num_pages
      /\ Failed(o) => o1 = o
  BY UseKeeps
<1>2. Good(o1) /\ Grown(o1) /\ old.page \in Pages /\ old.page \in Nat /\ o.num_pages \in Nat
  <2>1. Good(o1) /\ Grown(o1)
    BY <1>1, KeepsContext
  <2>2. old.page \in Pages /\ old.page \in Nat
    BY InnerNode
  <2>3. o.num_pages \in 1 .. FILE_PAGES_NUM
    BY DEF Good, Shaped
  <2> QED BY <2>1, <2>2, <2>3
<1>3. CASE o.pages[old.page].is_root
  <2> DEFINE o2 == create_new_root(o1, new)
             o3 == get_page(o2, root_page_num)
             page == o3.pages[root_page_num].cells[1].child
             o4 == get_page(o3, page)
  <2>1. r = o4
    BY <1>3 DEF RequestSplit
  <2> HIDE DEF o1, r
  <2>2. old.page = root_page_num
    BY <1>2, <1>3 DEF Good, Shaped
  <2>3. /\ Keeps(o1, o2) /\ (Failed(o1) => o2 = o1)
        /\ ~Failed(o2) => RootSplit(o1.pages, o2, new)
    BY <1>1, <1>2, NewRoot
  <2> HIDE DEF o2
  <2>4. /\ Keeps(o2, o3) /\ o3.pages = o2.pages
        /\ Failed(o2) => o3 = o2
    BY <1>2, <2>3, KeepsContext, RequestKeeps
  <2> HIDE DEF o3
  <2>5. Keeps(o, o2) /\ Keeps(o, o3)
    BY <1>1, <1>2, <2>3, <2>4, KeepsTransitive
  <2>6. /\ Keeps(o3, o4) /\ o4.pages = o3.pages
        /\ Failed(o3) => o4 = o3
    BY <2>5, KeepsContext, RequestKeeps
  <2>7. Keeps(o, o4) /\ Keeps(o2, o4)
    BY <1>2, <2>3, <2>4, <2>5, <2>6, KeepsContext, KeepsTransitive
  <2>8. page = r.pages[root_page_num].cells[1].child
    BY <2>1, <2>6
  <2> HIDE DEF o4, page
  <2>9. ASSUME ~Failed(r)
        PROVE  /\ Inner(r, page) /\ Inner(r, new) /\ page # new
               /\ r.pages[new].cells = <<>>
               /\ Len(r.pages[page].cells) >= INTERNAL_NODE_MAX_CELLS
    <3>1. ~Failed(o2)
      BY <2>1, <2>4, <2>6, <2>9
    <3>2. PICK left \in Pages \ {new} :
            /\ o2.pages[root_page_num].cells[1].child = left
            /\ o2.pages[left].cells = o1.pages[root_page_num].cells
            /\ Inner(o2, left) /\ Inner(o2, new)
            /\ o2.pages[new].cells = <<>>
      BY <2>3, <3>1 DEF RootSplit
    <3>3. page = left /\ r.pages = o2.pages
      BY <2>1, <2>4, <2>6, <2>8, <3>2
    <3>4. Inner(r, left) /\ Inner(r, new)
      BY <1>2, <2>1, <2>3, <2>7, <3>2, KeepsContext
    <3> QED BY <1>1, <2>2, <3>2, <3>3, <3>4
  <2>10. Failed(o) => r = o
    BY <1>1, <2>1, <2>3, <2>4, <2>6
  <2>11. SplitPage(o, old, r) = page
    BY <1>3, <2>8 DEF SplitPage
  <2> QED BY <2>1, <2>7, <2>9, <2>10, <2>11 DEF r
<1>4. CASE ~o.pages[old.page].is_root
  <2> DEFINE above == o.pages[old.page].parent
             o2 == get_page(o1, above)
             o3 == get_page(o2, new)
             empty == initialize_internal_node(o3.pages[new])
             o4 == StoreNode(o3, Pointer(o3, new), empty)
  <2>1. r = o4
    BY <1>4 DEF RequestSplit
  <2> HIDE DEF o1, r
  <2>2. Inner(o, above)
    BY <1>2, ParentIsInner
  <2>3. above # new /\ new # old.page /\ new # root_page_num
    <3>1. o.num_pages \in 1 .. FILE_PAGES_NUM /\ above \in Nat
      BY <2>2, InnerNode DEF Good, Shaped
    <3>2. above < o.num_pages /\ old.page < o.num_pages
      BY <2>2 DEF Inner
    <3> QED BY <1>2, <3>1, <3>2 DEF root_page_num
  <2> HIDE DEF above
  <2>4. /\ Keeps(o1, o2) /\ o2.pages = o1.pages /\ o2.num_pages = o.num_pages
        /\ Failed(o1) => o2 = o1
    BY <1>1, <1>2, <2>3, RequestKeeps
  <2> HIDE DEF o2
  <2>5. Keeps(o, o2) /\ Good(o2) /\ Grown(o2)
    BY <1>1, <1>2, <2>4, KeepsTransitive, KeepsContext
  <2>6. /\ Keeps(o2, o3) /\ o3.pages = o2.pages
        /\ Failed(o2) => o3 = o2
        /\ ~Failed(o3) => new \in Pages /\ o3.num_pages = o.num_pages + 1
    BY <2>4, <2>5, RequestKeeps
  <2> HIDE DEF o3
  <2>7. Keeps(o, o3) /\ Good(o3) /\ Grown(o3)
    BY <2>5, <2>6, KeepsTransitive, KeepsContext
  <2>8. Pointer(o3, new).page = new
    BY DEF Pointer
  <2>9. ASSUME ~Failed(o3)
        PROVE  /\ new \in Pages /\ ~IsLeaf(o3.pages[new]) /\ Inner(o3, new)
               /\ empty \in InternalNode /\ ~empty.is_root /\ empty.cells = <<>>
               /\ Inner(o3, empty.parent)
    <3>1. new \in Pages /\ o3.pages[new] \in Node
      BY <2>6, <2>7, <2>9, OperationFields DEF Good
    <3>2. ~IsLeaf(o3.pages[new])
      BY <1>1, <1>2, <2>4, <2>6, <3>1 DEF Good, Shaped
    <3>3. Inner(o3, new)
      BY <1>2, <2>6, <2>9, <3>1, <3>2 DEF Inner
    <3>4. /\ empty \in InternalNode /\ ~empty.is_root /\ empty.cells = <<>>
          /\ empty.parent = o3.pages[new].parent
      BY <3>1, NodeInitialized DEF initialize_internal_node
    <3>5. Inner(o3, empty.parent)
      BY <2>7, <3>1, <3>4, ParentIsInner
    <3> QED BY <3>1, <3>2, <3>3, <3>4, <3>5
  <2> HIDE DEF empty
  <2>10. /\ Keeps(o3, o4)
         /\ Failed(o3) => o4 = o3
         /\ ~Failed(o4) => ~Failed(o3) /\ o4.pages = [o3.pages EXCEPT ![new] = empty]
    <3>1. CASE Failed(o3)
      BY <2>7, <3>1, InnerStored
    <3>2. CASE ~Failed(o3)
      <4> DEFINE ptr == Pointer(o3, new)
      <4> HIDE DEF ptr
      <4>1. /\ ptr.page \in Pages /\ ~IsLeaf(o3.pages[ptr.page])
            /\ empty \in InternalNode /\ (empty.is_root <=> ptr.page = root_page_num)
            /\ Inner(o3, empty.parent)
        BY <2>3, <2>8, <2>9, <3>2 DEF ptr
      <4>2. /\ Keeps(o3, StoreNode(o3, ptr, empty))
            /\ ~Failed(StoreNode(o3, ptr, empty)) =>
                 StoreNode(o3, ptr, empty).pages = [o3.pages EXCEPT ![ptr.page] = empty]
        BY ONLY <2>7, <4>1, InnerStored
      <4> QED BY <2>8, <3>2, <4>2 DEF ptr
    <3> QED BY <3>1, <3>2
  <2> HIDE DEF o4
  <2>11. Keeps(o, o4)
    BY <2>7, <2>10, KeepsTransitive
  <2>12. ASSUME ~Failed(r)
         PROVE  /\ Inner(r, old.page) /\ Inner(r, new) /\ old.page # new
                /\ r.pages[new].cells = <<>>
                /\ Len(r.pages[old.page].cells) >= INTERNAL_NODE_MAX_CELLS
    <3>1. ~Failed(o3) /\ r.pages = [o3.pages EXCEPT ![new] = empty] /\ new \in Pages
      BY <2>1, <2>9, <2>10, <2>12
    <3>2. Inner(r, old.page) /\ Inner(r, new)
      BY <2>1, <2>7, <2>9, <2>10, <2>11, <3>1, KeepsContext
    <3>3. o3.pages = o.pages /\ o.pages \in [Pages -> Node]
      BY <1>1, <2>4, <2>6, OperationFields DEF Good
    <3>4. r.pages[new] = empty /\ r.pages[old.page] = o.pages[old.page]
      BY <1>2, <2>3, <3>1, <3>3
    <3> QED BY <2>3, <2>9, <3>1, <3>2, <3>4
  <2>13. Failed(o) => r = o
    BY <1>1, <2>1, <2>4, <2>6, <2>10
  <2>14. SplitPage(o, old, r) = old.page
    BY <1>4 DEF SplitPage
  <2> QED BY <2>1, <2>11, <2>12, <2>13, <2>14 DEF r
<1> QED BY <1>3, <1>4

(***************************************************************************)
(* A call of internal_node_insert().                                       *)
(***************************************************************************)

LEMMA SplitInserted ==
  ASSUME NEW insert, Contract(insert), NEW o, Good(o), Grown(o), NEW p, Inner(o, p),
         NEW child \in Pages, Len(o.pages[p].cells) >= INTERNAL_NODE_MAX_CELLS
  PROVE  LET r == internal_node_split_and_insert(o, p, child, insert)
         IN Keeps(o, r) /\ (Failed(o) => r = o)
<1> DEFINE o0 == get_page(o, p)
           o1 == get_page(o0, child)
           new == o1.num_pages
           old == Pointer(o1, p)
           o2 == RequestSplit(o1, old, new)
           child_max == get_node_max_key(o1.pages, child)
           old_max == get_node_max_key(o1.pages, p)
           is_root == o1.pages[p].is_root
           s == SplitLocals(o2, is_root, p, new, Pointer(o1, child), child_max, old_max)
           r == FinishSplit(o2, s, insert)
           page == IF is_root THEN o2.pages[root_page_num].cells[1].child ELSE p
           above == IF is_root THEN root_page_num ELSE o2.pages[p].parent
<1>1. /\ Keeps(o, o0) /\ o0.pages = o.pages
      /\ Failed(o) => o0 = o
  BY RequestKeeps
<1> HIDE DEF o0
<1>2. /\ Keeps(o0, o1) /\ o1.pages = o0.pages
      /\ Failed(o0) => o1 = o0
  BY <1>1, KeepsContext, RequestKeeps
<1> HIDE DEF o1
<1>3. Keeps(o, o1) /\ Good(o1) /\ Grown(o1) /\ Inner(o1, p)
  <2>1. Keeps(o, o1)
    BY <1>1, <1>2, KeepsTransitive
  <2> QED BY <2>1, KeepsContext
<1>4. old.page = p /\ Pointer(o1, child).page = child
  BY DEF Pointer
<1> HIDE DEF old, new
<1>5. /\ Keeps(o1, o2) /\ (Failed(o1) => o2 = o1)
      /\ ~Failed(o2) => /\ Inner(o2, page) /\ Inner(o2, new) /\ page # new
                        /\ o2.pages[new].cells = <<>>
                        /\ Len(o2.pages[page].cells) >= INTERNAL_NODE_MAX_CELLS
  <2>1. /\ Good(o1) /\ Grown(o1) /\ Inner(o1, old.page) /\ new = o1.num_pages
        /\ Len(o1.pages[old.page].cells) >= INTERNAL_NODE_MAX_CELLS
    BY <1>1, <1>2, <1>3, <1>4 DEF new
  <2> DEFINE q == SplitPage(o1, old, o2)
  <2>3. /\ Keeps(o1, o2) /\ (Failed(o1) => o2 = o1)
        /\ ~Failed(o2) => /\ Inner(o2, q) /\ Inner(o2, new) /\ q # new
                          /\ o2.pages[new].cells = <<>>
                          /\ Len(o2.pages[q].cells) >= INTERNAL_NODE_MAX_CELLS
    BY ONLY <2>1, SplitRequested
  <2> HIDE DEF o2
  <2>4. page = q
    BY <1>4 DEF SplitPage
  <2> HIDE DEF q, page
  <2> QED BY <2>3, <2>4
<1> HIDE DEF o2
<1>6. Keeps(o, o2) /\ Good(o2) /\ Grown(o2)
  <2>1. Keeps(o, o2)
    BY <1>3, <1>5, KeepsTransitive
  <2> QED BY <2>1, KeepsContext
<1>7. child_max \in Nat /\ old_max \in Nat
  BY <1>3, InnerNode, MaxKeyIsNat
<1> HIDE DEF child_max, old_max
<1>8. Inner(o2, above)
  <2>1. p \in Pages
    BY DEF Inner
  <2> QED BY <1>6, <2>1, ParentIsInner, RootIsInner
<1> HIDE DEF is_root
<1>9. /\ s.old.page = page /\ s.new.page = new /\ s.parent.page = above
      /\ s.child.page = child /\ s.child_max = child_max /\ s.old_max = old_max
  BY <1>4 DEF SplitLocals, Pointer
<1> HIDE DEF s, page, above
<1>10. Failed(o2) \/ (/\ Ready(o2, s)
                      /\ s.old.page # s.new.page /\ o2.pages[s.new.page].cells = <<>>
                      /\ Len(o2.pages[s.old.page].cells) >= INTERNAL_NODE_MAX_CELLS)
  BY <1>5, <1>7, <1>8, <1>9 DEF Ready
<1>11. Keeps(o2, r) /\ (Failed(o2) => r = o2)
  BY <1>6, <1>10, SplitFinished
<1>12. internal_node_split_and_insert(o, p, child, insert) = r
  BY DEF internal_node_split_and_insert, r, s, o2, o1, o0, old, new, child_max, old_max, is_root
<1> HIDE DEF r
<1>13. Keeps(o, r)
  BY <1>6, <1>11, KeepsTransitive
<1>14. Failed(o) => r = o
  BY <1>1, <1>2, <1>5, <1>11
<1> QED BY <1>12, <1>13, <1>14

\* A loop of n turns from s0, every turn the same, when Inv[i] holds after turn i.
LEMMA Repeated ==
  ASSUME NEW S, NEW s0, NEW turn, \A s \in S : turn[s] \in S, NEW n \in Nat,
         NEW Inv, \A i \in 0 .. n : Inv[i] \subseteq S, s0 \in Inv[0],
         \A i \in 1 .. n : \A s \in Inv[i - 1] : turn[s] \in Inv[i]
  PROVE  Repeat(turn, s0, n) \in Inv[n]
<1> DEFINE Turn(f, i) == IF i = 0 THEN s0 ELSE turn[f[i - 1]]
           f == CHOOSE f : f = [i \in 0 .. n |-> Turn(f, i)]
<1>1. s0 \in S
  OBVIOUS
<1>2. \E g : g = [i \in 0 .. n |-> Turn(g, i)]
  <2> DEFINE step == [i \in 1 .. n |-> [s \in S |-> turn[s]]]
  <2>1. PICK g \in [0 .. n -> S] : g[0] = s0 /\ \A i \in 1 .. n : g[i] = step[i][g[i - 1]]
    <3>1. step \in [1 .. n -> [S -> S]]
      OBVIOUS
    <3> HIDE DEF step
    <3> QED BY ONLY <1>1, <3>1, n \in Nat, Loop
  <2>2. \A i \in 0 .. n : g[i] = Turn(g, i)
    <3>1. \A i \in 0 .. n : i = 0 \/ (i \in 1 .. n /\ i - 1 \in 0 .. n)
      OBVIOUS
    <3> QED BY <2>1, <3>1
  <2>3. g = [i \in 0 .. n |-> Turn(g, i)]
    <3> HIDE DEF Turn
    <3> QED BY <2>1, <2>2
  <2> QED BY <2>3
<1>3. f = [i \in 0 .. n |-> Turn(f, i)]
  <2> HIDE DEF Turn
  <2> QED BY <1>2
<1>4. f[n] \in Inv[n]
  <2> HIDE DEF f
  <2> DEFINE T == {i \in 0 .. n : f[i] \in Inv[i]}
  <2>1. \A i \in 0 .. n : f[i] = Turn(f, i)
    <3> HIDE DEF Turn
    <3> QED BY <1>3
  <2>2. 0 \in T
    BY <2>1
  <2>3. ASSUME NEW i \in 0 .. n, i \in T, i + 1 <= n PROVE i + 1 \in T
    <3>1. i + 1 \in 1 .. n /\ i + 1 \in 0 .. n /\ (i + 1) - 1 = i /\ i + 1 # 0
      BY <2>3
    <3>2. f[i + 1] = turn[f[i]]
      BY <2>1, <3>1
    <3> QED BY <2>3, <3>1, <3>2
  <2> HIDE DEF T
  <2>4. \A i \in 0 .. n : i \in T
    BY <2>2, <2>3, InductionTo
  <2> QED BY <2>4 DEF T
<1> QED BY <1>4 DEF Repeat

InOrder(cells) ==
  \A i, j \in DOMAIN cells : i < j => cells[i].key <= cells[j].key

\* The first n cells have keys up to the key; the cells past the first n,
\* keys from it on.
UpTo(cells, n, key) == \A j \in 1 .. n : cells[j].key <= key
FromOn(cells, n, key) == \A j \in n + 1 .. Len(cells) : key <= cells[j].key

\* Cell n + 1 has the key, or the first n cells have lesser ones.
Below(cells, n, key) == \A j \in 1 .. n : cells[j].key < key
Hit(cells, n, key) == n < Len(cells) /\ cells[n + 1].key = key

\* internal_node_find_child() returns the first of the children whose key is
\* not less, when their keys are in order.
LEMMA ChildFound ==
  ASSUME NEW cells \in Seq(InternalCell), NEW key \in Nat
  PROVE  /\ internal_node_find_child(cells, key) \in 0 .. Len(cells)
         /\ InOrder(cells) => /\ Below(cells, internal_node_find_child(cells, key), key)
                              /\ FromOn(cells, internal_node_find_child(cells, key), key)
<1> DEFINE n == Len(cells)
           S == Searches(cells)
           turn == FindChildTurn(cells, key)
           Sought(s, i) == /\ s.min <= s.max + 1 /\ s.ans = s.max + 1 /\ s.max - s.min + 1 <= n - i
                           /\ Below(cells, s.min, key) /\ FromOn(cells, s.ans, key)
           Inv == [i \in 0 .. n |-> {s \in S : InOrder(cells) => Sought(s, i)}]
<1>1. n \in Nat /\ DOMAIN cells = 1 .. n /\ \A i \in 1 .. n : cells[i].key \in Nat
  <2>1. n \in Nat /\ DOMAIN cells = 1 .. n /\ \A i \in 1 .. n : cells[i] \in InternalCell
    OBVIOUS
  <2> HIDE DEF n
  <2> QED BY <2>1 DEF InternalCell
<1>2. Whole(cells) \in S /\ Sought(Whole(cells), 0)
  BY <1>1 DEF Whole, Searches, Below, FromOn
<1>3. ASSUME NEW s \in S
      PROVE  /\ turn[s] \in S
             /\ \A i \in 1 .. n : InOrder(cells) /\ Sought(s, i - 1) => Sought(turn[s], i)
  <2> DEFINE index == (s.min + s.max) \div 2
             middle == cells[index + 1].key
  <2>1. /\ s.min \in 0 .. n /\ s.max \in -1 .. n - 1 /\ s.ans \in 0 .. n
        /\ s = [min |-> s.min, max |-> s.max, ans |-> s.ans]
    BY DEF Searches
  <2>2. turn[s] = IF s.min > s.max THEN s
                  ELSE IF key <= middle
                  THEN [s EXCEPT !.max = index - 1, !.ans = index]
                  ELSE [s EXCEPT !.min = index + 1]
    BY DEF FindChildTurn
  <2>3. ~(s.min > s.max) => index \in 0 .. n - 1 /\ index \in s.min .. s.max /\ middle \in Nat
    <3>1. ~(s.min > s.max) => index \in 0 .. n - 1 /\ index \in s.min .. s.max
      BY <1>1, <2>1
    <3> HIDE DEF index
    <3>2. ~(s.min > s.max) => index + 1 \in 1 .. n
      BY <1>1, <3>1
    <3> QED BY <1>1, <3>1, <3>2
  <2>4. ASSUME InOrder(cells), ~(s.min > s.max)
        PROVE  /\ \A j \in 1 .. index + 1 : cells[j].key <= middle
               /\ \A j \in index + 1 .. n : middle <= cells[j].key
    <3> DEFINE k == index + 1
    <3>1. k \in 1 .. n
      BY <1>1, <2>3, <2>4
    <3>2. \A i, j \in 1 .. n : i <= j => cells[i].key <= cells[j].key
      BY <1>1, <2>4 DEF InOrder
    <3>3. /\ \A j \in 1 .. k : j \in 1 .. n /\ j <= k
          /\ \A j \in k .. n : j \in 1 .. n /\ k <= j
      <4> HIDE DEF k
      <4> QED BY <1>1, <3>1
    <3>4. middle = cells[k].key
      OBVIOUS
    <3> HIDE DEF k, middle
    <3>5. (\A j \in 1 .. k : cells[j].key <= middle) /\ (\A j \in k .. n : middle <= cells[j].key)
      BY <3>1, <3>2, <3>3, <3>4
    <3> QED BY <3>5 DEF k
  <2> HIDE DEF index, middle, n, turn
  <2>5. ~(s.min > s.max) => /\ index - 1 \in -1 .. n - 1 /\ index \in 0 .. n
                            /\ index + 1 \in 0 .. n
    BY <1>1, <2>3
  <2>6. CASE s.min > s.max
    <3>1. turn[s] = s
      BY <2>2, <2>6
    <3>2. \A i \in 1 .. n : Sought(s, i - 1) => Sought(s, i)
      BY <1>1, <2>1, <2>6
    <3> QED BY <3>1, <3>2
  <2>7. CASE ~(s.min > s.max) /\ key <= middle
    <3> DEFINE t == [min |-> s.min, max |-> index - 1, ans |-> index]
    <3>1. turn[s] = t /\ t \in S
      <4>1. turn[s] = t
        BY <2>1, <2>2, <2>7
      <4>2. t \in S
        BY <2>1, <2>5, <2>7 DEF Searches, n
      <4> QED BY <4>1, <4>2
    <3>2. InOrder(cells) => FromOn(cells, index, key)
      <4>1. \A j \in index + 1 .. n : j \in 1 .. n
        BY <1>1, <2>3, <2>7
      <4>2. ASSUME InOrder(cells), NEW j \in index + 1 .. n PROVE key <= cells[j].key
        BY <1>1, <2>3, <2>4, <2>7, <4>1, <4>2
      <4> QED BY <4>2 DEF FromOn, n
    <3>3. ASSUME NEW i \in 1 .. n, Sought(s, i - 1)
          PROVE  t.min <= t.max + 1 /\ t.ans = t.max + 1 /\ t.max - t.min + 1 <= n - i
      <4>1. t.min = s.min /\ t.max = index - 1 /\ t.ans = index
        OBVIOUS
      <4>2. s.min \in Int /\ s.max \in Int /\ index \in Int /\ s.min <= index /\ index <= s.max
        BY <1>1, <2>1, <2>3, <2>7
      <4>3. s.max - s.min + 1 <= n - (i - 1) /\ i \in Int /\ n \in Int
        BY <1>1, <3>3
      <4> HIDE DEF t
      <4> QED BY ONLY <4>1, <4>2, <4>3
    <3>4. t.min = s.min /\ t.ans = index
      OBVIOUS
    <3> HIDE DEF t
    <3> QED BY <3>1, <3>2, <3>3, <3>4
  <2>8. CASE ~(s.min > s.max) /\ ~(key <= middle)
    <3> DEFINE t == [min |-> index + 1, max |-> s.max, ans |-> s.ans]
    <3>1. turn[s] = t /\ t \in S
      <4>1. turn[s] = t
        BY <2>1, <2>2, <2>8
      <4>2. t \in S
        BY <2>1, <2>5, <2>8 DEF Searches, n
      <4> QED BY <4>1, <4>2
    <3>2. InOrder(cells) => Below(cells, index + 1, key)
      <4>1. \A j \in 1 .. index + 1 : j \in 1 .. n
        BY <1>1, <2>3, <2>8
      <4>2. ASSUME InOrder(cells), NEW j \in 1 .. index + 1 PROVE cells[j].key < key
        BY <1>1, <2>3, <2>4, <2>8, <4>1, <4>2
      <4> QED BY <4>2 DEF Below
    <3>3. ASSUME NEW i \in 1 .. n, Sought(s, i - 1)
          PROVE  t.min <= t.max + 1 /\ t.ans = t.max + 1 /\ t.max - t.min + 1 <= n - i
      <4>1. t.min = index + 1 /\ t.max = s.max /\ t.ans = s.ans
        OBVIOUS
      <4>2. s.min \in Int /\ s.max \in Int /\ index \in Int /\ s.min <= index /\ index <= s.max
        BY <1>1, <2>1, <2>3, <2>8
      <4>3. s.max - s.min + 1 <= n - (i - 1) /\ i \in Int /\ n \in Int /\ s.ans = s.max + 1
        BY <1>1, <3>3
      <4> HIDE DEF t
      <4> QED BY ONLY <4>1, <4>2, <4>3
    <3>4. t.min = index + 1 /\ t.ans = s.ans
      OBVIOUS
    <3> HIDE DEF t
    <3> QED BY <3>1, <3>2, <3>3, <3>4
  <2> QED BY <2>6, <2>7, <2>8
<1>4. /\ \A i \in 0 .. n : Inv[i] \subseteq S
      /\ Whole(cells) \in Inv[0]
      /\ \A i \in 1 .. n : \A s \in Inv[i - 1] : turn[s] \in Inv[i]
  <2>1. \A i \in 1 .. n : i - 1 \in 0 .. n /\ i \in 0 .. n
    BY <1>1
  <2>2. 0 \in 0 .. n
    BY <1>1
  <2> HIDE DEF n, S, turn, Sought
  <2> QED BY <1>2, <1>3, <2>1, <2>2
<1>5. Repeat(turn, Whole(cells), n) \in Inv[n]
  <2> HIDE DEF n, S, turn, Inv
  <2> QED BY <1>1, <1>3, <1>4, Repeated
<1> DEFINE last == Repeat(turn, Whole(cells), n)
<1>6. internal_node_find_child(cells, key) = last.ans
  BY DEF internal_node_find_child
<1>7. last \in S /\ (InOrder(cells) => Sought(last, n))
  <2>1. n \in 0 .. n
    BY <1>1
  <2> HIDE DEF n, S, turn, Sought
  <2> QED BY <1>5, <2>1
<1> HIDE DEF last, turn
<1>8. last.min \in 0 .. n /\ last.max \in -1 .. n - 1 /\ last.ans \in 0 .. n
  BY <1>7 DEF Searches
<1>9. InOrder(cells) => last.min = last.ans
  BY <1>1, <1>7, <1>8
<1> QED BY <1>6, <1>7, <1>8, <1>9

LEMMA ChildInserted ==
  ASSUME NEW insert, Contract(insert), NEW o, Good(o), Grown(o), NEW p, Inner(o, p),
         NEW child \in Nat
  PROVE  Inserts(o, p, InsertChild(o, p, child, insert))
<1> DEFINE o1 == get_page(o, p)
           parent == Pointer(o1, p)
           o11 == get_page(o1, child)
           o2 == Use(o11, {parent})
           child_max == get_node_max_key(o2.pages, child)
           node == o2.pages[p]
           index == internal_node_find_child(node.cells, child_max)
           o3 == get_page(o2, node.right)
           right_max == get_node_max_key(o3.pages, node.right)
           first == [node EXCEPT !.right = child]
           last == WithLast(node, child, right_max)
           inside == WithCell(node, index, child, child_max)
           o4 == IF child_max > right_max \/ index = Len(node.cells)
                 THEN TestCell(o3, parent, node, Len(node.cells)) ELSE o3
           split == internal_node_split_and_insert(o2, p, child, insert)
           new == IF child_max > right_max THEN last ELSE inside
           r == InsertChild(o, p, child, insert)
<1> SUFFICES Inserts(o, p, r)
  OBVIOUS
<1>1. /\ Keeps(o, o1) /\ o1.pages = o.pages
      /\ Failed(o) => o1 = o
  BY RequestKeeps
<1>2. parent.page = p
  BY DEF Pointer
<1>3. r = IF Failed(o2) THEN o2
          ELSE IF Len(node.cells) >= INTERNAL_NODE_MAX_CELLS THEN split
          ELSE IF node.right = INVALID_PAGE_NUM THEN StoreNode(o2, parent, first)
          ELSE IF Failed(o3) THEN o3
          ELSE StoreNode(o4, parent, new)
  BY DEF InsertChild
<1> HIDE DEF o1, parent, r
<1>4. /\ Keeps(o1, o11) /\ o11.pages = o1.pages
      /\ Failed(o1) => o11 = o1
      /\ ~Failed(o11) => child \in Pages
  BY <1>1, KeepsContext, RequestKeeps
<1> HIDE DEF o11
<1>5. /\ Keeps(o11, o2) /\ o2.pages = o11.pages
      /\ Failed(o11) => o2 = o11
      /\ ~Failed(o2) => o2 = o11
  BY <1>1, <1>4, KeepsContext, UseKeeps
<1> HIDE DEF o2
<1>6. /\ Keeps(o, o2) /\ Good(o2) /\ Grown(o2) /\ Inner(o2, p) /\ o2.pages = o.pages
      /\ Failed(o) => o2 = o
      /\ ~Failed(o2) => child \in Pages
  <2>1. Keeps(o, o11)
    BY <1>1, <1>4, KeepsTransitive
  <2>2. Keeps(o, o2)
    BY <1>5, <2>1, KeepsTransitive
  <2> QED BY <1>1, <1>4, <1>5, <2>2, KeepsContext
<1>7. CASE Failed(o2)
  BY <1>3, <1>6, <1>7 DEF Inserts
<1>8. CASE ~Failed(o2)
  <2>1. /\ p \in Pages /\ node \in InternalNode /\ node.cells \in Seq(InternalCell)
        /\ Len(node.cells) \in Nat /\ o2.pages \in [Pages -> Node] /\ child \in Pages
        /\ node.right \in Nat /\ ~IsLeaf(node)
    <3>1. /\ p \in Pages /\ node \in InternalNode /\ node.cells \in Seq(InternalCell)
          /\ Len(node.cells) \in Nat /\ o2.pages \in [Pages -> Node]
      BY <1>6, InnerNode
    <3> QED BY <1>6, <1>8, <3>1 DEF InternalNode, IsLeaf
  <2>2. child_max \in Nat
    BY <2>1, MaxKeyIsNat
  <2> HIDE DEF child_max
  <2>3. index \in 0 .. Len(node.cells)
    BY <2>1, <2>2, ChildFound
  <2> HIDE DEF index
  <2>4. node.is_root <=> p = root_page_num
    BY <1>6, <2>1 DEF Good, Shaped
  <2>5. Inner(o2, node.parent)
    BY <1>6, <2>1, ParentIsInner
  <2>6. node = o.pages[p]
    BY <1>6
  <2> HIDE DEF node
  <2>7. CASE Len(node.cells) >= INTERNAL_NODE_MAX_CELLS
    <3>1. Keeps(o2, split)
      BY <1>6, <2>1, <2>7, SplitInserted DEF node
    <3>2. r = split
      BY <1>3, <1>8, <2>7
    <3> HIDE DEF split
    <3>3. Keeps(o, r)
      BY <1>6, <3>1, <3>2, KeepsTransitive
    <3>4. ~(Len(node.cells) < INTERNAL_NODE_MAX_CELLS)
      BY <2>1, <2>7 DEF INTERNAL_NODE_MAX_CELLS
    <3> QED BY <1>6, <1>8, <2>6, <3>3, <3>4 DEF Inserts
  \* What is stored has one cell more, or none.
  <2>8. ASSUME NEW x, Keeps(o2, x), x.pages = o2.pages, NEW to \in InternalNode,
               to.is_root = node.is_root, to.parent = node.parent,
               Len(to.cells) <= Len(node.cells) + 1, r = StoreNode(x, parent, to)
        PROVE  Inserts(o, p, r)
    <3>1. Good(x) /\ Grown(x) /\ Inner(x, node.parent)
      BY <1>6, <2>5, <2>8, KeepsContext
    <3>2. /\ parent.page \in Pages /\ ~IsLeaf(x.pages[parent.page])
          /\ to.is_root <=> parent.page = root_page_num
      BY <1>2, <2>1, <2>4, <2>8 DEF node
    <3>3. /\ Keeps(x, r)
          /\ ~Failed(r) => r.pages = [x.pages EXCEPT ![parent.page] = to]
      BY <2>8, <3>1, <3>2, InnerStored
    <3>4. Keeps(o, r)
      <4>1. Keeps(o, x)
        BY <1>6, <2>8, KeepsTransitive
      <4> QED BY <3>3, <4>1, KeepsTransitive
    <3>5. ~Failed(r) => OnlyGrows(o.pages, r.pages, p)
      <4>1. ~Failed(r) => r.pages = [o.pages EXCEPT ![p] = to]
        BY <1>2, <1>6, <2>8, <3>3
      <4>2. o.pages \in [Pages -> Node]
        BY <1>6, <2>1
      <4> QED BY <2>1, <2>6, <2>8, <4>1, <4>2 DEF OnlyGrows
    <3>6. ~Failed(o)
      BY <1>6, <1>8
    <3> QED BY <3>4, <3>5, <3>6 DEF Inserts
  <2>9. CASE ~(Len(node.cells) >= INTERNAL_NODE_MAX_CELLS) /\ node.right = INVALID_PAGE_NUM
    <3>1. /\ first \in InternalNode /\ first.is_root = node.is_root
          /\ first.parent = node.parent /\ first.cells = node.cells
      BY <2>1, PageNumbers DEF InternalNode
    <3>2. r = StoreNode(o2, parent, first)
      BY <1>3, <1>8, <2>9
    <3> HIDE DEF first
    <3>3. Keeps(o2, o2) /\ Len(first.cells) <= Len(node.cells) + 1
      BY <1>6, <2>1, <3>1, KeepsItself
    <3> QED BY <2>8, <3>1, <3>2, <3>3
  <2>10. CASE ~(Len(node.cells) >= INTERNAL_NODE_MAX_CELLS) /\ node.right # INVALID_PAGE_NUM
    <3>1. /\ Keeps(o2, o3) /\ o3.pages = o2.pages
          /\ ~Failed(o3) => node.right \in Pages
      BY <1>6, RequestKeeps
    <3> HIDE DEF o3
    <3>2. CASE Failed(o3)
      <4>1. r = o3
        BY <1>3, <1>8, <2>10, <3>2
      <4>2. Keeps(o, r)
        BY <1>6, <3>1, <4>1, KeepsTransitive
      <4> QED BY <1>6, <1>8, <3>2, <4>1, <4>2 DEF Inserts
    <3>3. CASE ~Failed(o3)
      <4>1. right_max \in Nat /\ node.right \in Pages
        BY <2>1, <3>1, <3>3, MaxKeyIsNat
      <4>2. r = StoreNode(o4, parent, new)
        BY <1>3, <1>8, <2>10, <3>3
      <4>9. Keeps(o2, o4) /\ o4.pages = o2.pages
        <5>1. Good(o3)
          BY <1>6, <3>1, KeepsContext
        <5>2. /\ Keeps(o3, TestCell(o3, parent, node, Len(node.cells)))
              /\ TestCell(o3, parent, node, Len(node.cells)).pages = o3.pages
          BY <2>1, <5>1, TestKeeps
        <5>3. Keeps(o3, o3)
          BY <5>1, KeepsItself
        <5>4. Keeps(o3, o4) /\ o4.pages = o3.pages
          BY <5>2, <5>3
        <5> QED BY <1>6, <3>1, <5>4, KeepsTransitive
      <4> HIDE DEF right_max, o4
      <4> DEFINE appended == Append(node.cells, [child |-> node.right, key |-> right_max])
                 inserted == InsertAt(node.cells, index + 1, [child |-> child, key |-> child_max])
      <4>3. appended \in Seq(InternalCell) /\ Len(appended) = Len(node.cells) + 1
        <5>1. [child |-> node.right, key |-> right_max] \in InternalCell
          BY <4>1 DEF InternalCell
        <5> QED BY <2>1, <5>1, AppendProperties
      <4>4. inserted \in Seq(InternalCell) /\ Len(inserted) = Len(node.cells) + 1
        <5>1. [child |-> child, key |-> child_max] \in InternalCell
          BY <2>1, <2>2 DEF InternalCell
        <5>2. index + 1 \in 1 .. Len(node.cells) + 1
          BY <2>1, <2>3
        <5> QED BY <2>1, <5>1, <5>2, InsertAtElements
      <4>5. /\ last = [node EXCEPT !.cells = appended, !.right = child,
                                   !.leftover = @ \ {Len(node.cells)}]
            /\ inside = [node EXCEPT !.cells = inserted, !.leftover = @ \ {Len(node.cells)}]
        BY DEF WithLast, WithCell
      <4> HIDE DEF appended, inserted, last, inside
      <4>6. /\ last \in InternalNode /\ last.is_root = node.is_root
            /\ last.parent = node.parent /\ last.cells = appended
        BY <2>1, <4>3, <4>5, PageNumbers DEF InternalNode
      <4>7. /\ inside \in InternalNode /\ inside.is_root = node.is_root
            /\ inside.parent = node.parent /\ inside.cells = inserted
        BY <2>1, <4>4, <4>5 DEF InternalNode
      <4>8. /\ new \in InternalNode /\ new.is_root = node.is_root /\ new.parent = node.parent
            /\ Len(new.cells) <= Len(node.cells) + 1
        BY <2>1, <4>3, <4>4, <4>6, <4>7
      <4> HIDE DEF new
      <4> QED BY <2>8, <4>2, <4>8, <4>9
    <3> QED BY <3>2, <3>3
  <2> QED BY <2>7, <2>9, <2>10
<1> QED BY <1>7, <1>8

\* What the calls of internal_node_insert() do, by how deep they may nest.
Nested(insert) ==
  /\ \A call \in Calls : insert[0][call] = get_page(call.op, INVALID_PAGE_NUM)
  /\ \A n \in 0 .. FILE_PAGES_NUM : n + 1 <= FILE_PAGES_NUM =>
       \A call \in Calls :
         insert[n + 1][call] = InsertChild(call.op, call.parent, call.child, insert[n])

LEMMA CallsNested ==
  ASSUME NEW o, NEW p, NEW child
  PROVE  \E insert : /\ Nested(insert)
                     /\ internal_node_insert(o, p, child) = insert[FILE_PAGES_NUM][Call(o, p, child)]
<1> DEFINE N == FILE_PAGES_NUM
           At(n, f) == [call \in Calls |->
                          IF n = 0 THEN get_page(call.op, INVALID_PAGE_NUM)
                          ELSE InsertChild(call.op, call.parent, call.child, f[n - 1])]
           insert == CHOOSE f : f = [n \in 0 .. N |-> At(n, f)]
           Has(k) == \E f : f = [n \in 0 .. k |-> At(n, f)]
<1>1. N \in Nat
  BY PagePointersAssumption DEF PagePointersAssumption
\* At(n, f) depends on f[n - 1] alone.
<1>2. ASSUME NEW n \in Nat, NEW f, NEW g, n # 0 => f[n - 1] = g[n - 1] PROVE At(n, f) = At(n, g)
  BY <1>2
<1>3. Has(0)
  <2> DEFINE g == [n \in 0 .. 0 |-> At(0, <<>>)]
  <2>1. \A n \in 0 .. 0 : n = 0 /\ g[n] = At(0, <<>>)
    <3> HIDE DEF At
    <3> QED OBVIOUS
  <2>2. g[0] = At(0, g)
    BY <2>1
  <2>3. g = [n \in 0 .. 0 |-> At(n, g)]
    <3>1. \A n \in 0 .. 0 : g[n] = At(n, g)
      <4> HIDE DEF g, At
      <4> QED BY <2>1, <2>2
    <3>2. g = [n \in 0 .. 0 |-> g[n]]
      <4> HIDE DEF At
      <4> QED OBVIOUS
    <3> HIDE DEF g, At
    <3> QED BY <3>1, <3>2
  <2> QED BY <2>3
<1>4. ASSUME NEW k \in 0 .. N, Has(k), k + 1 <= N PROVE Has(k + 1)
  <2>1. PICK f : f = [n \in 0 .. k |-> At(n, f)]
    BY <1>4
  <2> DEFINE g == [n \in 0 .. k + 1 |-> IF n <= k THEN f[n] ELSE At(k + 1, f)]
  <2>2. \A n \in 0 .. k : f[n] = At(n, f)
    <3> HIDE DEF At
    <3> QED BY <2>1
  <2>3. /\ \A n \in 0 .. k : g[n] = f[n]
        /\ g[k + 1] = At(k + 1, f)
        /\ g = [n \in 0 .. k + 1 |-> g[n]]
    <3> HIDE DEF At
    <3> QED BY <1>4
  <2> HIDE DEF g
  <2>4. ASSUME NEW n \in 0 .. k + 1 PROVE g[n] = At(n, g)
    <3>1. n # 0 => f[n - 1] = g[n - 1]
      <4>1. n # 0 => n - 1 \in 0 .. k
        OBVIOUS
      <4> QED BY <2>3, <4>1
    <3>2. At(n, f) = At(n, g)
      <4> HIDE DEF At
      <4> QED BY <1>2, <3>1
    <3>3. n \in 0 .. k \/ n = k + 1
      BY <1>4
    <3> HIDE DEF At
    <3> QED BY <2>2, <2>3, <3>2, <3>3
  <2>5. g = [n \in 0 .. k + 1 |-> At(n, g)]
    <3> HIDE DEF At
    <3> QED BY <2>3, <2>4
  <2> QED BY <2>5
<1>5. Has(N)
  <2> HIDE DEF Has
  <2> DEFINE T == {k \in 0 .. N : Has(k)}
  <2>1. 0 \in T /\ \A k \in 0 .. N : k \in T /\ k + 1 <= N => k + 1 \in T
    BY <1>1, <1>3, <1>4
  <2> HIDE DEF T
  <2>2. \A k \in 0 .. N : k \in T
    BY <1>1, <2>1, InductionTo
  <2> QED BY <1>1, <2>2 DEF T
<1>6. insert = [n \in 0 .. N |-> At(n, insert)]
  <2> HIDE DEF At
  <2> QED BY <1>5
<1>7. internal_node_insert(o, p, child) = insert[N][Call(o, p, child)]
  BY DEF internal_node_insert
<1> HIDE DEF insert
<1>8. \A n \in 0 .. N : insert[n] = At(n, insert)
  <2> HIDE DEF At
  <2> QED BY <1>6
<1>9. ASSUME NEW call \in Calls PROVE insert[0][call] = get_page(call.op, INVALID_PAGE_NUM)
  <2>1. insert[0] = At(0, insert)
    <3> HIDE DEF At
    <3> QED BY <1>1, <1>8
  <2>2. At(0, insert)[call] = get_page(call.op, INVALID_PAGE_NUM)
    BY ONLY call \in Calls
  <2> QED BY <2>1, <2>2
<1>10. ASSUME NEW n \in 0 .. N, n + 1 <= N, NEW call \in Calls
       PROVE  insert[n + 1][call] = InsertChild(call.op, call.parent, call.child, insert[n])
  <2>1. n + 1 \in 0 .. N /\ n + 1 # 0 /\ (n + 1) - 1 = n
    BY <1>1, <1>10
  <2>2. insert[n + 1] = At(n + 1, insert)
    <3> HIDE DEF At
    <3> QED BY <1>8, <2>1
  <2>3. At(n + 1, insert)[call] = InsertChild(call.op, call.parent, call.child, insert[(n + 1) - 1])
    BY ONLY call \in Calls, <2>1
  <2> QED BY <2>1, <2>2, <2>3
<1> QED BY <1>7, <1>9, <1>10 DEF Nested

LEMMA NestedContract ==
  ASSUME NEW insert, Nested(insert), NEW n \in 0 .. FILE_PAGES_NUM
  PROVE  Contract(insert[n])
<1> DEFINE N == FILE_PAGES_NUM
           T == {k \in 0 .. N : Contract(insert[k])}
<1>1. N \in Nat
  BY PagePointersAssumption DEF PagePointersAssumption
<1>2. 0 \in T
  <2>1. ASSUME NEW call \in Calls, Good(call.op), Grown(call.op), Inner(call.op, call.parent)
        PROVE  Inserts(call.op, call.parent, insert[0][call])
    <3> DEFINE r == get_page(call.op, INVALID_PAGE_NUM)
    <3>1. insert[0][call] = r
      BY DEF Nested
    <3>2. /\ Keeps(call.op, r) /\ r.pages = call.op.pages
          /\ Failed(call.op) => r = call.op
          /\ ~Failed(r) => INVALID_PAGE_NUM \in Pages
      BY <2>1, RequestKeeps
    <3> HIDE DEF r
    <3> QED BY <3>1, <3>2, PageNumbers DEF Inserts
  <2> QED BY <1>1, <2>1 DEF Contract
<1>3. ASSUME NEW k \in 0 .. N, k \in T, k + 1 <= N PROVE k + 1 \in T
  <2>1. Contract(insert[k]) /\ k + 1 \in 0 .. N
    BY <1>3
  <2>2. ASSUME NEW call \in Calls, Good(call.op), Grown(call.op), Inner(call.op, call.parent)
        PROVE  Inserts(call.op, call.parent, insert[k + 1][call])
    <3>1. insert[k + 1][call] = InsertChild(call.op, call.parent, call.child, insert[k])
      BY <1>3 DEF Nested
    <3>2. call.child \in Nat
      BY DEF Calls
    <3> QED BY <2>1, <2>2, <3>1, <3>2, ChildInserted
  <2> QED BY <2>1, <2>2 DEF Contract
<1> HIDE DEF T
<1>4. \A k \in 0 .. N : k \in T
  BY <1>1, <1>2, <1>3, InductionTo
<1> QED BY <1>4 DEF T

\* internal_node_insert(), however deep its calls are nested.
LEMMA NodeInserted ==
  ASSUME NEW o, Good(o), Grown(o), NEW p, Inner(o, p), NEW child \in Nat
  PROVE  Inserts(o, p, internal_node_insert(o, p, child))
<1>1. PICK insert : /\ Nested(insert)
                    /\ internal_node_insert(o, p, child) = insert[FILE_PAGES_NUM][Call(o, p, child)]
  BY CallsNested
<1>2. FILE_PAGES_NUM \in 0 .. FILE_PAGES_NUM
  BY PagePointersAssumption DEF PagePointersAssumption
<1>3. Contract(insert[FILE_PAGES_NUM])
  BY <1>1, <1>2, NestedContract
<1> QED BY <1>1, <1>3, Called

-----------------------------------------------------------------------------
(***************************************************************************)
(* Searching a leaf.                                                       *)
(***************************************************************************)

\* The variables of leaf_node_find() stay within its cells.
LEMMA FindCellTurns ==
  ASSUME NEW cells \in Seq(Rows), NEW key \in Nat, NEW s \in Searches(cells)
  PROVE  FindCellTurn(cells, key)[s] \in Searches(cells)
<1> DEFINE n == Len(cells)
           turn == FindCellTurn(cells, key)
           index == (s.min + s.max) \div 2
           middle == cells[index + 1].key
<1> SUFFICES turn[s] \in Searches(cells)
  OBVIOUS
<1>0. n \in Nat
  OBVIOUS
<1>1. /\ s.min \in 0 .. n /\ s.max \in -1 .. n - 1 /\ s.ans \in 0 .. n
      /\ s = [min |-> s.min, max |-> s.max, ans |-> s.ans]
  BY DEF Searches
<1>2. turn[s] = IF s.min > s.max THEN s
                ELSE IF key = middle
                THEN [s EXCEPT !.min = s.max + 1, !.ans = index]
                ELSE IF key < middle
                THEN [s EXCEPT !.max = index - 1, !.ans = index]
                ELSE [s EXCEPT !.min = index + 1]
  BY DEF FindCellTurn
<1>3. ~(s.min > s.max) => index \in 0 .. n - 1
  BY <1>0, <1>1
<1> HIDE DEF index, middle, n, turn
<1>4. ~(s.min > s.max) => /\ index - 1 \in -1 .. n - 1 /\ index \in 0 .. n
                          /\ index + 1 \in 0 .. n /\ s.max + 1 \in 0 .. n
  BY <1>0, <1>1, <1>3
<1> QED BY <1>1, <1>2, <1>4 DEF Searches, n

\* leaf_node_find() returns a place where a row with the key leaves the
\* cells in order, the place of a row with the key if there is one.
LEMMA CellFound ==
  ASSUME NEW cells \in Seq(Rows), InOrder(cells), NEW key \in Nat
  PROVE  LET ans == CellSearch(cells, key)
         IN /\ ans \in 0 .. Len(cells) /\ UpTo(cells, ans, key) /\ FromOn(cells, ans, key)
            /\ Hit(cells, ans, key) \/ Below(cells, ans, key)
<1> DEFINE n == Len(cells)
           S == Searches(cells)
           turn == FindCellTurn(cells, key)
           Over(s) == /\ s.min > s.max /\ UpTo(cells, s.ans, key) /\ FromOn(cells, s.ans, key)
                      /\ Hit(cells, s.ans, key) \/ Below(cells, s.ans, key)
           Open(s, i) == /\ s.min <= s.max /\ s.ans = s.max + 1 /\ s.max - s.min + 1 <= n - i
                         /\ UpTo(cells, s.min, key) /\ FromOn(cells, s.ans, key)
                         /\ Below(cells, s.min, key)
           Inv == [i \in 0 .. n |-> {s \in S : Over(s) \/ Open(s, i)}]
<1>1. /\ n \in Nat
      /\ \A i \in 1 .. n : cells[i].key \in Nat
      /\ \A i, j \in 1 .. n : i < j => cells[i].key <= cells[j].key
  <2>1. n \in Nat /\ DOMAIN cells = 1 .. n /\ \A i \in 1 .. n : cells[i] \in Rows
    OBVIOUS
  <2>2. \A i \in 1 .. n : cells[i].key \in Nat
    <3> HIDE DEF n
    <3> QED BY <2>1, KeysAreNat DEF Rows
  <2> HIDE DEF n
  <2> QED BY <2>1, <2>2 DEF InOrder
<1>2. Whole(cells) \in Inv[0]
  <2>1. Whole(cells) \in S
    BY <1>1 DEF Whole, Searches
  <2>2. n = 0 => Over(Whole(cells))
    BY <1>1 DEF Whole, UpTo, FromOn, Below
  <2>3. n # 0 => Open(Whole(cells), 0)
    BY <1>1 DEF Whole, UpTo, FromOn, Below
  <2>4. 0 \in 0 .. n
    BY <1>1
  <2> HIDE DEF S, Over, Open, n
  <2> QED BY <2>1, <2>2, <2>3, <2>4
<1>3. ASSUME NEW i \in 1 .. n, NEW s \in S, Over(s) \/ Open(s, i - 1)
      PROVE  turn[s] \in S /\ (Over(turn[s]) \/ Open(turn[s], i))
  <2> DEFINE index == (s.min + s.max) \div 2
             middle == cells[index + 1].key
  <2>1. /\ s.min \in 0 .. n /\ s.max \in -1 .. n - 1 /\ s.ans \in 0 .. n
        /\ s = [min |-> s.min, max |-> s.max, ans |-> s.ans]
    BY DEF Searches
  <2>2. turn[s] = IF s.min > s.max THEN s
                  ELSE IF key = middle
                  THEN [s EXCEPT !.min = s.max + 1, !.ans = index]
                  ELSE IF key < middle
                  THEN [s EXCEPT !.max = index - 1, !.ans = index]
                  ELSE [s EXCEPT !.min = index + 1]
    BY DEF FindCellTurn
  <2> HIDE DEF turn
  <2>3. CASE s.min > s.max
    BY <1>3, <2>1, <2>2, <2>3
  <2>4. CASE ~(s.min > s.max)
    <3>1. Open(s, i - 1)
      BY <1>3, <2>4
    <3>2. index \in s.min .. s.max /\ index + 1 \in 1 .. n /\ index \in 0 .. n - 1
      BY <1>1, <2>1, <2>4
    <3>3. middle \in Nat
      BY <1>1, <3>2
    <3>4. /\ \A j \in 1 .. index : cells[j].key <= middle
          /\ \A j \in index + 2 .. n : middle <= cells[j].key
      <4>1. /\ \A j \in 1 .. index : j \in 1 .. n /\ j < index + 1
            /\ \A j \in index + 2 .. n : j \in 1 .. n /\ index + 1 < j
        <5> HIDE DEF index, n
        <5> QED BY <1>1, <3>2
      <4> HIDE DEF index, n
      <4> QED BY <1>1, <3>2, <4>1
    <3>8. /\ index - 1 \in -1 .. n - 1 /\ index \in 0 .. n /\ index + 1 \in 0 .. n
          /\ s.max + 1 \in 0 .. n /\ s.min <= index /\ index <= s.max /\ i \in Nat
      <4> HIDE DEF index, n
      <4> QED BY <1>1, <2>1, <3>2
    <3> HIDE DEF index, middle, n
    <3>5. CASE key = middle
      <4> DEFINE t == [min |-> s.max + 1, max |-> s.max, ans |-> index]
      <4>1. turn[s] = t /\ t \in S
        <5>1. turn[s] = t
          BY <2>1, <2>2, <2>4, <3>5
        <5>2. t \in S
          BY <2>1, <3>8 DEF Searches, n
        <5> QED BY <5>1, <5>2
      <4>2. UpTo(cells, index, key)
        BY <3>4, <3>5 DEF UpTo
      <4>3. FromOn(cells, index, key)
        <5>1. ASSUME NEW j \in index + 1 .. n PROVE key <= cells[j].key
          <6>1. j = index + 1 \/ j \in index + 2 .. n
            BY <1>1, <3>2
          <6> QED BY <3>3, <3>4, <3>5, <6>1 DEF middle
        <5> QED BY <5>1 DEF FromOn, n
      <4>4. t.min > t.max /\ t.ans = index
        BY <2>1
      <4>5. Hit(cells, index, key)
        <5>1. index < n
          BY <1>1, <3>2
        <5> QED BY <3>5, <5>1 DEF Hit, middle, n
      <4> QED BY <4>1, <4>2, <4>3, <4>4, <4>5
    <3>6. CASE key < middle
      <4> DEFINE t == [min |-> s.min, max |-> index - 1, ans |-> index]
      <4>1. turn[s] = t /\ t \in S
        <5>1. key # middle
          BY <3>3, <3>6
        <5>2. turn[s] = t
          BY <2>1, <2>2, <2>4, <3>6, <5>1
        <5>3. t \in S
          BY <2>1, <3>8 DEF Searches, n
        <5> QED BY <5>2, <5>3
      <4>2. FromOn(cells, index, key)
        <5>1. ASSUME NEW j \in index + 1 .. n PROVE key <= cells[j].key
          <6>1. j = index + 1 \/ (j \in index + 2 .. n /\ j \in 1 .. n)
            BY <1>1, <3>2
          <6>2. CASE j = index + 1
            BY <3>3, <3>6, <6>2 DEF middle
          <6>3. CASE j \in index + 2 .. n /\ j \in 1 .. n
            BY <1>1, <3>3, <3>4, <3>6, <6>3
          <6> QED BY <6>1, <6>2, <6>3
        <5> QED BY <5>1 DEF FromOn, n
      <4>3. CASE s.min <= index - 1
        <5>1. /\ t.min <= t.max /\ t.ans = t.max + 1 /\ t.max - t.min + 1 <= n - i
              /\ t.min = s.min /\ t.ans = index
          <6>1. s.max - s.min + 1 <= n - (i - 1) /\ t.min = s.min /\ t.max = index - 1 /\ t.ans = index
            BY <3>1
          <6>2. \A lo, hi, ix, x, m \in Int :
                  hi - lo + 1 <= m - (x - 1) /\ ix <= hi => (ix - 1) - lo + 1 <= m - x
            OBVIOUS
          <6>3. s.min \in Int /\ s.max \in Int /\ index \in Int /\ n \in Int /\ i \in Int
            BY <1>1, <2>1, <3>8
          <6>4. s.max - s.min + 1 <= n - (i - 1) /\ index <= s.max
            BY <3>8, <6>1
          <6>5. (index - 1) - s.min + 1 <= n - i
            BY ONLY <6>2, <6>3, <6>4
          <6>6. index = (index - 1) + 1
            BY ONLY <6>3
          <6> HIDE DEF t
          <6> QED BY ONLY <4>3, <6>1, <6>5, <6>6
        <5> QED BY <3>1, <4>1, <4>2, <5>1
      <4>4. CASE ~(s.min <= index - 1)
        <5>1. t.min > t.max /\ t.ans = index /\ s.min = index
          <6>1. s.min \in Int /\ index \in Int
            BY <1>1, <2>1, <3>8
          <6>2. s.min = index /\ s.min > index - 1
            BY ONLY <3>8, <4>4, <6>1
          <6>3. t.min = s.min /\ t.max = index - 1 /\ t.ans = index
            OBVIOUS
          <6> HIDE DEF t
          <6> QED BY ONLY <6>2, <6>3
        <5> QED BY <3>1, <4>1, <4>2, <5>1
      <4> QED BY <4>3, <4>4
    <3>7. CASE ~(key = middle) /\ ~(key < middle)
      <4> DEFINE t == [min |-> index + 1, max |-> s.max, ans |-> s.ans]
      <4>1. turn[s] = t /\ t \in S
        <5>1. turn[s] = t
          BY <2>1, <2>2, <2>4, <3>7
        <5>2. t \in S
          BY <2>1, <3>8 DEF Searches, n
        <5> QED BY <5>1, <5>2
      <4>5. Below(cells, index + 1, key)
        <5>1. ASSUME NEW j \in 1 .. index + 1 PROVE cells[j].key < key
          <6>1. j = index + 1 \/ (j \in 1 .. index /\ j \in 1 .. n)
            BY <1>1, <3>2
          <6>2. middle < key
            BY <3>3, <3>7
          <6>3. CASE j = index + 1
            BY <3>3, <6>2, <6>3 DEF middle
          <6>4. CASE j \in 1 .. index /\ j \in 1 .. n
            BY <1>1, <3>3, <3>4, <6>2, <6>4
          <6> QED BY <6>1, <6>3, <6>4
        <5> QED BY <5>1 DEF Below
      <4>2. UpTo(cells, index + 1, key)
        <5>1. \A j \in 1 .. index + 1 : j \in 1 .. n
          BY <1>1, <3>2
        <5> QED BY <1>1, <4>5, <5>1 DEF UpTo, Below
      <4>3. CASE index + 1 <= s.max
        <5>1. /\ t.min <= t.max /\ t.ans = t.max + 1 /\ t.max - t.min + 1 <= n - i
              /\ t.min = index + 1 /\ t.ans = s.ans
          <6>1. /\ s.max - s.min + 1 <= n - (i - 1) /\ s.ans = s.max + 1
                /\ t.min = index + 1 /\ t.max = s.max /\ t.ans = s.ans
            BY <3>1
          <6>2. \A lo, hi, ix, x, m \in Int :
                  hi - lo + 1 <= m - (x - 1) /\ lo <= ix => hi - (ix + 1) + 1 <= m - x
            OBVIOUS
          <6>3. s.min \in Int /\ s.max \in Int /\ index \in Int /\ n \in Int /\ i \in Int
            BY <1>1, <2>1, <3>8
          <6>4. s.max - s.min + 1 <= n - (i - 1) /\ s.min <= index
            BY <3>8, <6>1
          <6>5. s.max - (index + 1) + 1 <= n - i
            BY ONLY <6>2, <6>3, <6>4
          <6> HIDE DEF t
          <6> QED BY ONLY <4>3, <6>1, <6>5
        <5> QED BY <3>1, <4>1, <4>2, <4>5, <5>1
      <4>4. CASE ~(index + 1 <= s.max)
        <5>1. t.min > t.max /\ t.ans = index + 1 /\ s.ans = index + 1
          <6>1. s.ans = s.max + 1
            BY <3>1
          <6>2. s.max \in Int /\ index \in Int
            BY <1>1, <2>1, <3>8
          <6>3. s.ans = index + 1 /\ index + 1 > s.max
            BY ONLY <3>8, <4>4, <6>1, <6>2
          <6>4. t.min = index + 1 /\ t.max = s.max /\ t.ans = s.ans
            OBVIOUS
          <6> HIDE DEF t
          <6> QED BY ONLY <6>3, <6>4
        <5> QED BY <3>1, <4>1, <4>2, <4>5, <5>1
      <4> QED BY <4>3, <4>4
    <3> QED BY <3>5, <3>6, <3>7
  <2> QED BY <2>3, <2>4
<1>4. ASSUME NEW s \in S PROVE turn[s] \in S
  BY FindCellTurns
<1>5. /\ \A i \in 0 .. n : Inv[i] \subseteq S
      /\ \A i \in 1 .. n : \A s \in Inv[i - 1] : turn[s] \in Inv[i]
  <2>1. \A i \in 1 .. n : i - 1 \in 0 .. n /\ i \in 0 .. n
    BY <1>1
  <2> HIDE DEF n, S, turn, Over, Open
  <2> QED BY <1>3, <2>1
<1>6. Repeat(turn, Whole(cells), n) \in Inv[n]
  <2> HIDE DEF n, S, turn, Inv
  <2> QED BY <1>1, <1>2, <1>4, <1>5, Repeated
<1> DEFINE last == Repeat(turn, Whole(cells), n)
<1> HIDE DEF last
<1>7. last \in S /\ (Over(last) \/ Open(last, n))
  <2>1. n \in 0 .. n
    BY <1>1
  <2> HIDE DEF S, Over, Open, n
  <2> QED BY <1>6, <2>1 DEF last
<1>8. last.min \in 0 .. n /\ last.max \in -1 .. n - 1 /\ last.ans \in 0 .. n
  BY <1>7 DEF Searches
<1>9. Over(last)
  BY <1>1, <1>7, <1>8
<1>10. CellSearch(cells, key) = last.ans
  BY DEF CellSearch, last
<1> QED BY <1>8, <1>9, <1>10

-----------------------------------------------------------------------------
(***************************************************************************)
(* The cells of a leaf into which a row is put.                            *)
(***************************************************************************)

LEMMA OrderKept ==
  ASSUME NEW cells \in Seq(Rows), InOrder(cells), NEW n \in 0 .. Len(cells), NEW row \in Rows,
         UpTo(cells, n, row.key), FromOn(cells, n, row.key)
  PROVE  InOrder(InsertAt(cells, n + 1, row))
<1> DEFINE all == InsertAt(cells, n + 1, row)
           m == Len(cells)
<1>1. /\ m \in Nat /\ n + 1 \in 1 .. m + 1 /\ DOMAIN cells = 1 .. m
      /\ \A i \in 1 .. m : cells[i] \in Rows
  OBVIOUS
<1>2. /\ all \in Seq(Rows) /\ Len(all) = m + 1
      /\ \A i \in 1 .. (n + 1) - 1 : all[i] = cells[i]
      /\ all[n + 1] = row
      /\ \A i \in (n + 1) + 1 .. m + 1 : all[i] = cells[i - 1]
  <2> DEFINE k == n + 1
  <2>a. k \in 1 .. Len(cells) + 1
    BY <1>1
  <2>1. all = InsertAt(cells, k, row)
    OBVIOUS
  <2> HIDE DEF k, all
  <2>2. /\ InsertAt(cells, k, row) \in Seq(Rows)
        /\ Len(InsertAt(cells, k, row)) = Len(cells) + 1
        /\ \A i \in 1 .. k - 1 : InsertAt(cells, k, row)[i] = cells[i]
        /\ InsertAt(cells, k, row)[k] = row
        /\ \A i \in k + 1 .. Len(cells) + 1 : InsertAt(cells, k, row)[i] = cells[i - 1]
    BY ONLY <2>a, cells \in Seq(Rows), row \in Rows, InsertAtElements
  <2>3. /\ all \in Seq(Rows) /\ Len(all) = Len(cells) + 1
        /\ \A i \in 1 .. k - 1 : all[i] = cells[i]
        /\ all[k] = row
        /\ \A i \in k + 1 .. Len(cells) + 1 : all[i] = cells[i - 1]
    BY ONLY <2>1, <2>2, Zenon
  <2> QED BY ONLY <2>3, Zenon DEF k, m
<1> HIDE DEF all, m
<1>3. DOMAIN all = 1 .. m + 1
  BY <1>2
<1>4. \A i \in 1 .. m : cells[i].key \in Nat
  BY <1>1, KeysAreNat DEF Rows
<1>5. row.key \in Nat
  BY KeysAreNat DEF Rows
<1>6. ASSUME NEW i \in 1 .. m + 1, NEW j \in 1 .. m + 1, i < j PROVE all[i].key <= all[j].key
  <2>1. CASE i < n + 1 /\ j < n + 1
    <3>1. all[i] = cells[i] /\ all[j] = cells[j] /\ i \in 1 .. m /\ j \in 1 .. m
      BY <1>1, <1>2, <2>1
    <3> QED BY <1>1, <1>6, <3>1 DEF InOrder
  <2>2. CASE i < n + 1 /\ j = n + 1
    <3>1. all[i] = cells[i] /\ all[j] = row /\ i \in 1 .. n
      BY <1>1, <1>2, <2>2
    <3> QED BY <3>1 DEF UpTo
  <2>3. CASE i < n + 1 /\ j > n + 1
    <3>1. all[i] = cells[i] /\ all[j] = cells[j - 1] /\ i \in 1 .. n /\ j - 1 \in n + 1 .. m
          /\ i \in 1 .. m /\ j - 1 \in 1 .. m
      BY <1>1, <1>2, <2>3
    <3>2. cells[i].key <= row.key /\ row.key <= cells[j - 1].key
      BY <3>1 DEF UpTo, FromOn, m
    <3> QED BY <1>4, <1>5, <3>1, <3>2
  <2>4. CASE i = n + 1
    <3>1. all[i] = row /\ all[j] = cells[j - 1] /\ j - 1 \in n + 1 .. m
      BY <1>1, <1>2, <1>6, <2>4
    <3> QED BY <3>1 DEF FromOn, m
  <2>5. CASE i > n + 1
    <3>1. /\ i \in (n + 1) + 1 .. m + 1 /\ j \in (n + 1) + 1 .. m + 1
          /\ i - 1 \in 1 .. m /\ j - 1 \in 1 .. m /\ i - 1 < j - 1
      BY <1>1, <1>6, <2>5
    <3>2. all[i] = cells[i - 1] /\ all[j] = cells[j - 1]
      BY <1>2, <3>1
    <3> QED BY <1>1, <3>1, <3>2 DEF InOrder
  <2>6. (i < n + 1 \/ i = n + 1 \/ i > n + 1) /\ (j < n + 1 \/ j = n + 1 \/ j > n + 1)
    BY <1>1
  <2> QED BY <2>1, <2>2, <2>3, <2>4, <2>5, <2>6
<1>7. InOrder(all)
  BY <1>3, <1>6 DEF InOrder
<1> QED BY <1>7 DEF all

LEMMA PartInOrder ==
  ASSUME NEW cells \in Seq(Rows), InOrder(cells),
         NEW a \in 1 .. Len(cells) + 1, NEW b \in 0 .. Len(cells), a <= b + 1
  PROVE  LET part == SubSeq(cells, a, b)
         IN /\ part \in Seq(Rows) /\ Len(part) = b - a + 1
            /\ \A i \in 1 .. b - a + 1 : part[i] = cells[a + i - 1]
            /\ InOrder(part)
<1> DEFINE part == SubSeq(cells, a, b)
<1>1. Len(cells) \in Nat /\ DOMAIN cells = 1 .. Len(cells)
  OBVIOUS
<1>2. /\ part \in Seq(Rows) /\ Len(part) = b - a + 1
      /\ \A i \in 1 .. b - a + 1 : part[i] = cells[a + i - 1]
  BY <1>1
<1> HIDE DEF part
<1>3. DOMAIN part = 1 .. b - a + 1
  BY <1>2
<1>4. ASSUME NEW i \in 1 .. b - a + 1, NEW j \in 1 .. b - a + 1, i < j
      PROVE  part[i].key <= part[j].key
  <2>1. /\ part[i] = cells[a + i - 1] /\ part[j] = cells[a + j - 1]
        /\ a + i - 1 \in 1 .. Len(cells) /\ a + j - 1 \in 1 .. Len(cells)
        /\ a + i - 1 < a + j - 1
    BY <1>1, <1>2, <1>4
  <2> QED BY <1>1, <2>1 DEF InOrder
<1>5. InOrder(part)
  BY <1>3, <1>4 DEF InOrder
<1> QED BY <1>2, <1>5 DEF part

\* The key that lands in a leaf changes no key and no inserted row.
LEMMA StrayKeeps ==
  ASSUME NEW cells \in Seq(Rows), InOrder(cells), cells # <<>>, NEW key
  PROVE  LET to == SplitStray(cells, key)
         IN /\ to \in Seq(Rows) /\ Len(to) = Len(cells)
            /\ \A i \in 1 .. Len(cells) : AsInserted(to[i]) = AsInserted(cells[i])
            /\ InOrder(to)
<1> DEFINE to == SplitStray(cells, key)
<1>1. /\ Len(cells) \in Nat /\ DOMAIN cells = 1 .. Len(cells) /\ 1 \in 1 .. Len(cells)
      /\ \A i \in 1 .. Len(cells) : cells[i] \in Rows
  BY EmptySeq
<1>2. CASE to = cells
  BY <1>1, <1>2
<1>3. CASE to # cells
  <2> DEFINE damaged == [cells[1] EXCEPT !.text = "damaged"]
  <2>1. to = [cells EXCEPT ![1] = damaged] /\ cells[1].text # "short"
    BY <1>3 DEF SplitStray
  <2>2. damaged \in Rows /\ damaged.key = cells[1].key /\ damaged.text = "damaged"
    BY <1>1 DEF Rows
  <2>3. AsInserted(damaged) = AsInserted(cells[1])
    <3>1. /\ cells[1] = [key |-> cells[1].key, text |-> cells[1].text, ones |-> cells[1].ones]
          /\ cells[1].text \in {"long", "damaged"}
      BY <1>1, <2>1 DEF Rows
    <3> QED BY <3>1 DEF AsInserted
  <2> HIDE DEF damaged, to
  <2>4. /\ to \in Seq(Rows) /\ Len(to) = Len(cells) /\ DOMAIN to = DOMAIN cells
        /\ \A i \in 1 .. Len(cells) : to[i] = IF i = 1 THEN damaged ELSE cells[i]
    BY <1>1, <2>1, <2>2
  <2>5. \A i \in 1 .. Len(cells) : AsInserted(to[i]) = AsInserted(cells[i])
    BY <2>3, <2>4
  <2>6. \A i \in DOMAIN cells : to[i].key = cells[i].key
    BY <1>1, <2>2, <2>4
  <2>7. InOrder(to)
    BY <2>4, <2>6 DEF InOrder
  <2> QED BY <2>4, <2>5, <2>7 DEF to
<1> QED BY <1>2, <1>3

-----------------------------------------------------------------------------
(***************************************************************************)
(* What becomes of the leaves while an insertion is under way.             *)
(***************************************************************************)

\* The cells of a leaf are in order, and there is room for them.
Fits(cells) == cells \in Seq(Rows) /\ InOrder(cells) /\ Len(cells) <= LEAF_NODE_MAX_CELLS

InShape(tree) == \A q \in Pages : IsLeaf(tree[q]) => Fits(tree[q].cells)

\* The same rows, but for the texts that a split damages.
SameRows(a, b) ==
  Len(a) = Len(b) /\ \A i \in 1 .. Len(b) : AsInserted(a[i]) = AsInserted(b[i])

LeafIs(node, cells, next) == IsLeaf(node) /\ node.next = next /\ SameRows(node.cells, cells)

\* Outside of the pages in P, the leaves are what they were.
OthersKept(a, b, P) ==
  \A q \in Pages \ P :
    /\ IsLeaf(b[q]) <=> IsLeaf(a[q])
    /\ IsLeaf(a[q]) => b[q].cells = a[q].cells /\ b[q].next = a[q].next

FirstHalf(all) == SubSeq(all, 1, LEFT_SPLIT_COUNT)
SecondHalf(all) == SubSeq(all, LEFT_SPLIT_COUNT + 1, Len(all))

\* The leaf p took the row.
Took(a, b, p, all) == OthersKept(a, b, {p}) /\ LeafIs(b[p], all, a[p].next)

\* The leaf p was split, its second half being in the page new.
Divided(a, b, p, new, all) ==
  /\ new \in Pages \ {p, root_page_num} /\ ~IsLeaf(a[new])
  /\ OthersKept(a, b, {p, new})
  /\ LeafIs(b[p], FirstHalf(all), new)
  /\ LeafIs(b[new], SecondHalf(all), a[p].next)

\* So was the root, a leaf whose first half moved to the page left.
Grew(a, b, left, new, all) ==
  /\ left \in Pages \ {root_page_num} /\ new \in Pages \ {left, root_page_num}
  /\ ~IsLeaf(a[left]) /\ ~IsLeaf(a[new]) /\ ~IsLeaf(b[root_page_num])
  /\ OthersKept(a, b, {root_page_num, left, new})
  /\ LeafIs(b[left], FirstHalf(all), new)
  /\ LeafIs(b[new], SecondHalf(all), a[root_page_num].next)

\* A page just handed out: in use, and no node's parent.
Fresh(o, q) ==
  /\ q \in Pages \ {root_page_num} /\ q < o.num_pages /\ ~IsLeaf(o.pages[q])
  /\ \A p \in Pages : o.pages[p].parent # q

LEMMA ShapeKept ==
  ASSUME NEW a, NEW b, LeavesKept(a, b), InShape(a)
  PROVE  InShape(b)
BY DEF LeavesKept, InShape

LEMMA FreshPage ==
  ASSUME NEW o, Good(o), NEW q, q = o.num_pages, ~Failed(get_page(o, q))
  PROVE  Fresh(get_page(o, q), q)
<1> DEFINE r == get_page(o, q)
<1>1. r.pages = o.pages /\ q \in Pages /\ r.num_pages = q + 1
  BY RequestKeeps
<1>2. q \in 1 .. FILE_PAGES_NUM
  BY DEF Good, Shaped
<1>3. ~IsLeaf(o.pages[q])
  BY <1>1, <1>2 DEF Good, Shaped
<1>4. ASSUME NEW p \in Pages PROVE o.pages[p].parent # q
  <2>1. o.pages[p].parent \in Nat
    BY OperationFields, NodeFields, PageNumbers DEF Good
  <2>2. o.pages[p].parent < q
    BY DEF Good, Shaped
  <2> QED BY <1>2, <2>1, <2>2
<1> HIDE DEF r
<1>5. q < r.num_pages /\ q # root_page_num
  BY <1>1, <1>2 DEF root_page_num
<1>6. Fresh(r, q)
  BY <1>1, <1>3, <1>4, <1>5 DEF Fresh
<1> QED BY <1>6 DEF r

LEMMA FreshKept ==
  ASSUME NEW o, Good(o), NEW r, NEW q, Fresh(o, q), r.pages = o.pages, r.num_pages = o.num_pages
  PROVE  Fresh(r, q)
BY DEF Fresh

\* Storing a leaf in the place of a leaf, or in a page just handed out.
LEMMA LeafStored ==
  ASSUME NEW o, Good(o), NEW ptr, NEW node \in LeafNode, NEW x \in Pages,
         ptr.page \in Pages, IsLeaf(o.pages[ptr.page]) \/ Fresh(o, ptr.page),
         node.parent = o.pages[x].parent, node.is_root <=> ptr.page = root_page_num
  PROVE  LET r == StoreNode(o, ptr, node)
         IN /\ Good(r) /\ r.num_pages = o.num_pages
            /\ Failed(o) => r = o
            /\ Failed(r) => r.pages = o.pages
            /\ ~Failed(r) => ~Failed(o) /\ r.pages = [o.pages EXCEPT ![ptr.page] = node]
            /\ InShape(o.pages) /\ Fits(node.cells) => InShape(r.pages)
<1> DEFINE p == ptr.page
           r == StoreNode(o, ptr, node)
           tree == [o.pages EXCEPT ![p] = node]
<1>1. /\ o \in Operations /\ o.pages \in [Pages -> Node] /\ node \in Node /\ IsLeaf(node)
      /\ o.num_pages \in Nat
  BY OperationFields DEF Good, Shaped, Node, LeafNode, IsLeaf
<1>2. /\ r \in Operations /\ r.num_pages = o.num_pages
      /\ Failed(o) => r = o
      /\ Failed(r) => r.pages = o.pages
      /\ ~Failed(r) => ~Failed(o) /\ r.pages = tree
  BY <1>1, NodeStored
<1>3. \A q \in Pages : tree[q] = IF q = p THEN node ELSE o.pages[q]
  BY <1>1
<1> HIDE DEF tree, r
<1>4. Shaped(tree, o.num_pages)
  <2>1. o.num_pages \in 1 .. FILE_PAGES_NUM
    BY DEF Good, Shaped
  <2>2. /\ \A q \in Pages : q >= o.num_pages => ~IsLeaf(o.pages[q])
        /\ \A q \in Pages : o.pages[q].is_root <=> q = root_page_num
        /\ \A q \in Pages : o.pages[q].parent < o.num_pages
    BY DEF Good, Shaped
  <2>3. /\ IsLeaf(o.pages[root_page_num]) => \A q \in Pages : o.pages[q].parent = root_page_num
        /\ ~IsLeaf(o.pages[root_page_num]) => \A q \in Pages : ~IsLeaf(o.pages[o.pages[q].parent])
    BY DEF Good, Shaped
  <2>4. p < o.num_pages /\ p \in Nat
    <3>1. p \in Nat
      BY PageNumbers
    <3>2. CASE Fresh(o, p)
      BY <3>1, <3>2 DEF Fresh
    <3>3. CASE IsLeaf(o.pages[p])
      BY <2>1, <2>2, <3>1, <3>3
    <3> QED BY <3>2, <3>3
  <2>5. \A q \in Pages : \E y \in Pages : tree[q].parent = o.pages[y].parent
    BY <1>3
  <2>6. /\ \A q \in Pages : q >= o.num_pages => ~IsLeaf(tree[q])
        /\ \A q \in Pages : tree[q].is_root <=> q = root_page_num
        /\ \A q \in Pages : tree[q].parent < o.num_pages
    <3>1. \A q \in Pages : q >= o.num_pages => q # p
      BY <2>1, <2>4
    <3>2. \A q \in Pages : q >= o.num_pages => ~IsLeaf(tree[q])
      BY <1>3, <2>2, <3>1
    <3>3. \A q \in Pages : tree[q].is_root <=> q = root_page_num
      BY <1>3, <2>2
    <3>4. \A q \in Pages : tree[q].parent < o.num_pages
      BY <2>2, <2>5
    <3> QED BY <3>2, <3>3, <3>4
  <2>7. IsLeaf(tree[root_page_num]) <=> IsLeaf(o.pages[root_page_num])
    BY <1>1, <1>3, PageNumbers DEF Fresh
  <2>8. CASE IsLeaf(o.pages[root_page_num])
    <3>1. \A q \in Pages : tree[q].parent = root_page_num
      BY <2>3, <2>5, <2>8
    <3> QED BY <2>1, <2>6, <2>7, <2>8, <3>1 DEF Shaped
  <2>9. CASE ~IsLeaf(o.pages[root_page_num])
    <3>1. ASSUME NEW q \in Pages PROVE ~IsLeaf(tree[tree[q].parent])
      <4>1. PICK y \in Pages : tree[q].parent = o.pages[y].parent
        BY <2>5
      <4>2. o.pages[y].parent \in Pages /\ ~IsLeaf(o.pages[o.pages[y].parent])
        BY <1>1, <2>3, <2>9, NodeFields
      <4>3. o.pages[y].parent # p
        BY <4>2 DEF Fresh
      <4> QED BY <1>3, <4>1, <4>2, <4>3
    <3> QED BY <2>1, <2>6, <2>7, <2>9, <3>1 DEF Shaped
  <2> QED BY <2>8, <2>9
<1>5. Good(r)
  <2>1. CASE Failed(r)
    BY <1>2, <2>1 DEF Good
  <2>2. CASE ~Failed(r)
    BY <1>2, <1>4, <2>2 DEF Good
  <2> QED BY <2>1, <2>2
<1>6. ASSUME InShape(o.pages), Fits(node.cells) PROVE InShape(r.pages)
  BY <1>2, <1>3, <1>6 DEF InShape
<1> QED BY <1>2, <1>5, <1>6 DEF r, tree

LEMMA SplitCounts ==
  /\ LEFT_SPLIT_COUNT \in 1 .. LEAF_NODE_MAX_CELLS
  /\ LEAF_NODE_MAX_CELLS + 1 - LEFT_SPLIT_COUNT \in 1 .. LEAF_NODE_MAX_CELLS
  /\ LEAF_NODE_MAX_CELLS \in Nat \ {0}
<1>1. LEAF_NODE_MAX_CELLS \in Nat \ {0}
  BY TableAssumption DEF TableAssumption
<1> DEFINE n == LEAF_NODE_MAX_CELLS
<1>2. (n + 1) \div 2 \in 1 .. n
  BY <1>1
<1>3. LEFT_SPLIT_COUNT = n + 1 - ((n + 1) \div 2)
  BY DEF LEFT_SPLIT_COUNT, RIGHT_SPLIT_COUNT
<1> QED BY <1>1, <1>2, <1>3

\* Both halves of a full leaf with one row more fit.
LEMMA HalvesFit ==
  ASSUME NEW all \in Seq(Rows), InOrder(all), Len(all) = LEAF_NODE_MAX_CELLS + 1
  PROVE  /\ Fits(FirstHalf(all)) /\ Fits(SecondHalf(all))
         /\ Len(FirstHalf(all)) = LEFT_SPLIT_COUNT
         /\ Len(SecondHalf(all)) = LEAF_NODE_MAX_CELLS + 1 - LEFT_SPLIT_COUNT
         /\ \A i \in 1 .. Len(FirstHalf(all)) : FirstHalf(all)[i] = all[i]
         /\ \A i \in 1 .. Len(SecondHalf(all)) : SecondHalf(all)[i] = all[LEFT_SPLIT_COUNT + i]
<1> DEFINE k == LEFT_SPLIT_COUNT
           n == LEAF_NODE_MAX_CELLS
           first == SubSeq(all, 1, k)
           second == SubSeq(all, k + 1, n + 1)
<1>1. k \in 1 .. n /\ n + 1 - k \in 1 .. n /\ n \in Nat
  BY SplitCounts
<1> HIDE DEF k, n
<1>2. Len(all) = n + 1
  BY DEF n
<1>3. /\ first \in Seq(Rows) /\ Len(first) = k - 1 + 1
      /\ \A i \in 1 .. k - 1 + 1 : first[i] = all[1 + i - 1]
      /\ InOrder(first)
  <2>1. 1 \in 1 .. Len(all) + 1 /\ k \in 0 .. Len(all) /\ 1 <= k + 1
    BY <1>1, <1>2
  <2> HIDE DEF first
  <2> QED BY <2>1, PartInOrder DEF first
<1>4. /\ second \in Seq(Rows) /\ Len(second) = (n + 1) - (k + 1) + 1
      /\ \A i \in 1 .. (n + 1) - (k + 1) + 1 : second[i] = all[(k + 1) + i - 1]
      /\ InOrder(second)
  <2> DEFINE a == k + 1
             b == n + 1
  <2>1. a \in 1 .. Len(all) + 1 /\ b \in 0 .. Len(all) /\ a <= b + 1
    BY <1>1, <1>2
  <2>2. second = SubSeq(all, a, b)
    OBVIOUS
  <2> HIDE DEF a, b, second
  <2>3. /\ second \in Seq(Rows) /\ Len(second) = b - a + 1
        /\ \A i \in 1 .. b - a + 1 : second[i] = all[a + i - 1]
        /\ InOrder(second)
    BY <2>1, <2>2, PartInOrder
  <2> QED BY <2>3 DEF a, b
<1> HIDE DEF first, second
<1>5. Len(first) = k /\ Len(second) = n + 1 - k
  BY <1>1, <1>3, <1>4
<1>6. \A i \in 1 .. Len(first) : first[i] = all[i]
  <2>1. \A i \in 1 .. Len(first) : i \in 1 .. k - 1 + 1 /\ 1 + i - 1 = i
    BY <1>1, <1>5
  <2> QED BY <1>3, <2>1
<1>7. \A i \in 1 .. Len(second) : second[i] = all[k + i]
  <2>1. \A i \in 1 .. Len(second) : i \in 1 .. (n + 1) - (k + 1) + 1 /\ (k + 1) + i - 1 = k + i
    BY <1>1, <1>5
  <2> QED BY <1>4, <2>1
<1>8. Len(first) <= n /\ Len(second) <= n
  BY <1>1, <1>5
<1>9. FirstHalf(all) = first /\ SecondHalf(all) = second
  BY <1>2 DEF FirstHalf, SecondHalf, first, second, k
<1> QED BY <1>3, <1>4, <1>5, <1>6, <1>7, <1>8, <1>9 DEF Fits, k, n

-----------------------------------------------------------------------------
(***************************************************************************)
(* leaf_node_insert().                                                     *)
(***************************************************************************)

\* A row is to be put into cell c of the leaf p.
Target(o, p, c, row) ==
  /\ Good(o) /\ ~Failed(o) /\ InShape(o.pages)
  /\ p \in Pages /\ IsLeaf(o.pages[p]) /\ (p # root_page_num => Grown(o))
  /\ c \in 0 .. Len(o.pages[p].cells) /\ row \in Rows
  /\ UpTo(o.pages[p].cells, c, row.key) /\ FromOn(o.pages[p].cells, c, row.key)

\* The cells of the leaf with the row, were there room for them.
With(o, p, c, row) == InsertAt(o.pages[p].cells, c + 1, row)

LEMMA RowPlaced ==
  ASSUME NEW o, NEW p, NEW c, NEW row, Target(o, p, c, row)
  PROVE  LET cells == o.pages[p].cells
             all   == With(o, p, c, row)
         IN /\ Fits(cells) /\ Len(cells) \in Nat
            /\ all \in Seq(Rows) /\ Len(all) = Len(cells) + 1 /\ InOrder(all)
<1> DEFINE cells == o.pages[p].cells
           all == With(o, p, c, row)
           k == c + 1
<1>1. /\ p \in Pages /\ row \in Rows /\ c \in 0 .. Len(cells)
      /\ UpTo(cells, c, row.key) /\ FromOn(cells, c, row.key) /\ Fits(cells)
  BY DEF Target, InShape
<1>2. all = InsertAt(cells, k, row)
  BY DEF With
<1> HIDE DEF cells, all
<1>3. cells \in Seq(Rows) /\ InOrder(cells)
  BY <1>1 DEF Fits
<1>4. Len(cells) \in Nat
  BY <1>3
<1>5. k \in 1 .. Len(cells) + 1
  BY <1>1, <1>4
<1>6. InOrder(all)
  BY <1>1, <1>2, <1>3, OrderKept
<1> HIDE DEF k
<1>7. all \in Seq(Rows) /\ Len(all) = Len(cells) + 1
  BY <1>1, <1>2, <1>3, <1>5, InsertAtElements
<1> QED BY <1>1, <1>4, <1>6, <1>7 DEF cells, all

\* A page of the file is never refused.
LEMMA PageGranted ==
  ASSUME NEW o \in Operations, NEW p \in Pages
  PROVE  get_page(o, p).fault = o.fault
BY PageRequested

LEMMA TargetKept ==
  ASSUME NEW o, NEW p, NEW c, NEW row, Target(o, p, c, row)
  PROVE  LET r == get_page(o, p)
         IN Target(r, p, c, row) /\ r.pages = o.pages
<1> DEFINE r == get_page(o, p)
<1>1. Good(o) /\ o \in Operations /\ p \in Pages
  BY DEF Target, Good
<1>2. Keeps(o, r) /\ r.pages = o.pages
  BY <1>1, RequestKeeps
<1>3. r.fault = o.fault
  BY <1>1, PageGranted
<1> HIDE DEF r
<1>4. Good(r)
  BY <1>2 DEF Keeps
<1>5. Target(r, p, c, row)
  BY <1>2, <1>3, <1>4 DEF Target, Failed, Grown
<1> QED BY <1>2, <1>5 DEF r

\* The rows of a full leaf and one more.
Overfull(all) == all \in Seq(Rows) /\ InOrder(all) /\ Len(all) = LEAF_NODE_MAX_CELLS + 1

\* What leaf_node_insert() may leave behind: nothing done, or done by halves.
Outcome(o, p, all, r) ==
  /\ Good(r) /\ InShape(r.pages)
  /\ \/ Halted(r)
     \/ Failed(r) /\ LeavesKept(o.pages, r.pages)
     \/ ~Failed(r) /\ Took(o.pages, r.pages, p, all)
     \/ Overfull(all) /\ \E new \in Pages : Divided(o.pages, r.pages, p, new, all)
     \/ /\ ~Failed(r) /\ p = root_page_num /\ Overfull(all)
        /\ \E left, new \in Pages : Grew(o.pages, r.pages, left, new, all)

\* A leaf with room.
LEMMA RowStored ==
  ASSUME NEW o, NEW p, NEW c, NEW row, Target(o, p, c, row),
         Len(o.pages[p].cells) < LEAF_NODE_MAX_CELLS, NEW ptr, ptr.page = p
  PROVE  Outcome(o, p, With(o, p, c, row),
                 StoreNode(o, ptr, [o.pages[p] EXCEPT !.cells = With(o, p, c, row)]))
<1> DEFINE all == With(o, p, c, row)
           old == o.pages[p]
           node == [old EXCEPT !.cells = all]
           r == StoreNode(o, ptr, node)
<1>1. Fits(old.cells) /\ Len(old.cells) \in Nat /\ all \in Seq(Rows) /\ Len(all) = Len(old.cells) + 1 /\ InOrder(all)
  BY RowPlaced
<1>2. /\ Good(o) /\ ~Failed(o) /\ InShape(o.pages) /\ p \in Pages /\ IsLeaf(old)
      /\ o \in Operations /\ o.pages \in [Pages -> Node]
  BY OperationFields DEF Target, Good
<1> HIDE DEF all
<1>3. old \in LeafNode /\ (old.is_root <=> p = root_page_num)
  BY <1>2, NodeFields DEF Good, Shaped
<1> HIDE DEF old
<1>4. /\ node \in LeafNode /\ node.cells = all /\ node.next = old.next
      /\ node.parent = old.parent /\ node.is_root = old.is_root /\ IsLeaf(node)
  BY <1>1, <1>3 DEF LeafNode, IsLeaf
<1> HIDE DEF node
<1>5. Len(all) <= LEAF_NODE_MAX_CELLS
  <2>1. LEAF_NODE_MAX_CELLS \in Nat
    BY SplitCounts
  <2> QED BY <1>1, <2>1 DEF old
<1>6. Fits(node.cells)
  BY <1>1, <1>4, <1>5 DEF Fits
<1>7. /\ Good(r) /\ (Failed(r) => r.pages = o.pages)
      /\ ~Failed(r) => r.pages = [o.pages EXCEPT ![ptr.page] = node]
      /\ InShape(r.pages)
  <2>1. /\ ptr.page \in Pages /\ IsLeaf(o.pages[ptr.page]) /\ node.parent = o.pages[p].parent
        /\ (node.is_root <=> ptr.page = root_page_num)
    BY <1>2, <1>3, <1>4 DEF old
  <2>2. /\ Good(r) /\ (Failed(r) => r.pages = o.pages)
        /\ ~Failed(r) => r.pages = [o.pages EXCEPT ![ptr.page] = node]
        /\ InShape(o.pages) /\ Fits(node.cells) => InShape(r.pages)
    BY ONLY <1>2, <1>4, <2>1, p \in Pages, LeafStored
  <2> QED BY <1>2, <1>6, <2>2
<1>8. Failed(r) => Halted(r)
  BY <1>2, StoreFails
<1> HIDE DEF r
<1>9. ASSUME ~Failed(r) PROVE Took(o.pages, r.pages, p, all)
  <2>1. \A q \in Pages : r.pages[q] = IF q = p THEN node ELSE o.pages[q]
    BY <1>2, <1>7, <1>9
  <2>2. OthersKept(o.pages, r.pages, {p})
    BY <2>1 DEF OthersKept
  <2>3. SameRows(node.cells, all)
    BY <1>4 DEF SameRows
  <2> QED BY <1>2, <1>4, <2>1, <2>2, <2>3 DEF Took, LeafIs, old
<1> QED BY <1>7, <1>8, <1>9 DEF Outcome, r, all, node, old

\* The nodes of a split leaf.
LEMMA HalfNodes ==
  ASSUME NEW node \in LeafNode, NEW new \in Pages,
         NEW all, Overfull(all), NEW right, right = RightHalf(node, all), NEW left, left = LeftHalf(node, all, new)
  PROVE  /\ right \in LeafNode /\ IsLeaf(right) /\ Fits(right.cells)
         /\ right.cells = SecondHalf(all) /\ right.next = node.next
         /\ right.parent = node.parent /\ ~right.is_root
         /\ left \in LeafNode /\ IsLeaf(left) /\ Fits(left.cells)
         /\ left.cells = FirstHalf(all) /\ left.next = new
         /\ left.parent = node.parent /\ (left.is_root <=> node.is_root)
<1> DEFINE first == FirstHalf(all)
           second == SecondHalf(all)
<1>1. Fits(first) /\ Fits(second)
  BY HalvesFit DEF Overfull
<1>2. first \in Seq(Rows) /\ second \in Seq(Rows)
  BY <1>1 DEF Fits
<1>3. /\ node.parent \in Pages /\ node.next \in Pages /\ node.is_root \in BOOLEAN
      /\ node = [type |-> "LEAF", is_root |-> node.is_root, parent |-> node.parent,
                 next |-> node.next, cells |-> node.cells]
  BY DEF LeafNode
<1>4. right = [type |-> "LEAF", is_root |-> FALSE, parent |-> node.parent,
               next |-> node.next, cells |-> second]
  <2>1. right = [initialize_leaf_node(node) EXCEPT !.next = node.next, !.cells = second]
    BY DEF RightHalf, SecondHalf
  <2> HIDE DEF second
  <2> QED BY <2>1 DEF initialize_leaf_node
<1>5. left = [type |-> "LEAF", is_root |-> node.is_root, parent |-> node.parent,
              next |-> new, cells |-> first]
  <2>1. left = [node EXCEPT !.next = new, !.cells = first]
    BY DEF LeftHalf, FirstHalf
  <2> HIDE DEF first
  <2>2. left = [[type |-> "LEAF", is_root |-> node.is_root, parent |-> node.parent,
                 next |-> node.next, cells |-> node.cells] EXCEPT !.next = new, !.cells = first]
    BY <1>3, <2>1, Zenon
  <2> QED BY <2>2
<1> HIDE DEF first, second
<1>6. right \in LeafNode /\ left \in LeafNode
  BY <1>2, <1>3, <1>4, <1>5 DEF LeafNode
<1> QED BY <1>1, <1>4, <1>5, <1>6 DEF IsLeaf, first, second

\* When the pages are divided.
LEMMA TreeDivided ==
  ASSUME NEW a, NEW b, NEW p \in Pages, NEW new \in Pages \ {p, root_page_num},
         NEW all, ~IsLeaf(a[new]), NEW left, NEW right,
         IsLeaf(left), left.next = new, SameRows(left.cells, FirstHalf(all)),
         IsLeaf(right), right.next = a[p].next, SameRows(right.cells, SecondHalf(all)),
         \A q \in Pages : b[q] = IF q = p THEN left ELSE IF q = new THEN right ELSE a[q]
  PROVE  Divided(a, b, p, new, all)
<1>1. b[p] = left /\ b[new] = right
  OBVIOUS
<1>2. OthersKept(a, b, {p, new})
  BY DEF OthersKept
<1> QED BY <1>1, <1>2 DEF Divided, LeafIs

\* And stay divided while no leaf is changed.
LEMMA DividedKept ==
  ASSUME NEW a, NEW b, NEW c, NEW p \in Pages, NEW new \in Pages, NEW all,
         Divided(a, b, p, new, all), LeavesKept(b, c)
  PROVE  Divided(a, c, p, new, all)
BY DEF Divided, OthersKept, LeavesKept, LeafIs

\* No room for one more.
Full(node) == Len(node.cells) >= LEAF_NODE_MAX_CELLS

\* The leaf's right half is stored in the new page, its left half in its own.
LEMMA HalvesStored ==
  ASSUME NEW o, NEW p, NEW c, NEW row, Target(o, p, c, row), Full(o.pages[p]),
         NEW new, new = o.num_pages, ~Failed(get_page(o, new)),
         NEW old, old.page = p, NEW at, at.page = new,
         NEW left, left = LeftHalf(o.pages[p], With(o, p, c, row), new),
         NEW right, right = RightHalf(o.pages[p], With(o, p, c, row)),
         NEW r, r = StoreNode(StoreNode(get_page(o, new), at, right), old, left)
  PROVE  /\ Good(r) /\ InShape(r.pages) /\ r.num_pages = new + 1
         /\ new \in Pages \ {p, root_page_num} /\ ~IsLeaf(o.pages[new])
         /\ IsLeaf(r.pages[p]) /\ r.pages[p].parent = o.pages[p].parent
         /\ p # root_page_num => r.pages[root_page_num] = o.pages[root_page_num]
         /\ Failed(r) => Halted(r)
         /\ ~Failed(r) =>
              \A q \in Pages :
                r.pages[q] = IF q = p THEN left ELSE IF q = new THEN right ELSE o.pages[q]
<1> DEFINE node == o.pages[p]
           all == With(o, p, c, row)
           o2 == get_page(o, new)
           o3 == StoreNode(o2, at, right)
<1>1. /\ Good(o) /\ ~Failed(o) /\ InShape(o.pages) /\ p \in Pages /\ IsLeaf(node)
      /\ o \in Operations /\ o.pages \in [Pages -> Node]
  BY OperationFields DEF Target, Good
<1>2. node \in LeafNode /\ (node.is_root <=> p = root_page_num)
  BY <1>1, NodeFields DEF Good, Shaped
<1>3. Overfull(all)
  <2>1. /\ Fits(node.cells) /\ Len(node.cells) \in Nat /\ all \in Seq(Rows)
        /\ Len(all) = Len(node.cells) + 1 /\ InOrder(all)
    BY RowPlaced
  <2> HIDE DEF all, node
  <2>2. Len(node.cells) <= LEAF_NODE_MAX_CELLS /\ LEAF_NODE_MAX_CELLS \in Nat
    BY <2>1, SplitCounts DEF Fits
  <2>3. Len(node.cells) = LEAF_NODE_MAX_CELLS
    BY <2>1, <2>2 DEF Full, node
  <2> QED BY <2>1, <2>3 DEF Overfull
<1>4. Keeps(o, o2) /\ o2.pages = o.pages /\ new \in Pages /\ o2.num_pages = new + 1
  BY <1>1, RequestKeeps
<1>5. Fresh(o2, new) /\ Good(o2) /\ o2 \in Operations /\ ~Failed(o2)
  BY <1>1, <1>4, FreshPage DEF Keeps, Good
<1>6. new \in Pages \ {p, root_page_num} /\ ~IsLeaf(o.pages[new])
  BY <1>1, <1>4, <1>5 DEF Fresh
<1> HIDE DEF all, o2
<1>7. /\ right \in LeafNode /\ IsLeaf(right) /\ Fits(right.cells)
      /\ right.parent = node.parent /\ ~right.is_root
      /\ left \in LeafNode /\ IsLeaf(left) /\ Fits(left.cells)
      /\ left.parent = node.parent /\ (left.is_root <=> node.is_root)
  <2> HIDE DEF node
  <2>1. node \in LeafNode /\ new \in Pages
    BY <1>2, <1>4
  <2>2. right = RightHalf(node, all) /\ left = LeftHalf(node, all, new)
    BY DEF node, all
  <2>3. /\ right \in LeafNode /\ IsLeaf(right) /\ Fits(right.cells)
        /\ right.parent = node.parent /\ ~right.is_root
    BY ONLY <2>1, <2>2, <1>3, HalfNodes
  <2>4. /\ left \in LeafNode /\ IsLeaf(left) /\ Fits(left.cells)
        /\ left.parent = node.parent /\ (left.is_root <=> node.is_root)
    BY ONLY <2>1, <2>2, <1>3, HalfNodes
  <2> QED BY <2>3, <2>4
<1> HIDE DEF node
<1>8. /\ Good(o3) /\ o3.num_pages = new + 1 /\ InShape(o3.pages)
      /\ Failed(o3) => o3.pages = o.pages
      /\ ~Failed(o3) => o3.pages = [o.pages EXCEPT ![new] = right]
  <2>1. /\ at.page \in Pages /\ Fresh(o2, at.page) /\ right.parent = o2.pages[p].parent
        /\ (right.is_root <=> at.page = root_page_num)
    BY <1>4, <1>5, <1>6, <1>7 DEF node
  <2>a. Good(o2) /\ p \in Pages /\ right \in LeafNode /\ o3 = StoreNode(o2, at, right)
    BY <1>1, <1>5, <1>7
  <2>2. /\ Good(o3) /\ o3.num_pages = o2.num_pages
        /\ Failed(o3) => o3.pages = o2.pages
        /\ ~Failed(o3) => o3.pages = [o2.pages EXCEPT ![at.page] = right]
        /\ InShape(o2.pages) /\ Fits(right.cells) => InShape(o3.pages)
    BY ONLY <2>a, <2>1, LeafStored
  <2> HIDE DEF o3
  <2> QED BY <1>1, <1>4, <1>7, <2>2
<1>9. Failed(o3) => Halted(o3)
  BY <1>5, StoreFails
<1>a. r = StoreNode(o3, old, left)
  BY DEF o3, o2
<1> HIDE DEF o3
<1>10. /\ \A q \in Pages : o3.pages[q] = o.pages[q] \/ (q = new /\ o3.pages[q] = right)
       /\ ~Failed(o3) => \A q \in Pages : o3.pages[q] = IF q = new THEN right ELSE o.pages[q]
  BY <1>1, <1>8
<1>11. o3.pages[p] = node /\ o3 \in Operations
  BY <1>1, <1>6, <1>8, <1>10 DEF node, Good
<1>12. /\ Good(r) /\ r.num_pages = new + 1 /\ InShape(r.pages)
       /\ Failed(o3) => r = o3
       /\ Failed(r) => r.pages = o3.pages
       /\ ~Failed(r) => ~Failed(o3) /\ r.pages = [o3.pages EXCEPT ![p] = left]
  <2>1. /\ old.page \in Pages /\ IsLeaf(o3.pages[old.page]) /\ left.parent = o3.pages[p].parent
        /\ (left.is_root <=> old.page = root_page_num)
    BY <1>1, <1>2, <1>7, <1>11
  <2>a. Good(o3) /\ p \in Pages /\ left \in LeafNode
    BY <1>1, <1>8, <1>7
  <2> DEFINE t == StoreNode(o3, old, left)
  <2>2. /\ Good(t) /\ t.num_pages = o3.num_pages
        /\ Failed(o3) => t = o3
        /\ Failed(t) => t.pages = o3.pages
        /\ ~Failed(t) => ~Failed(o3) /\ t.pages = [o3.pages EXCEPT ![old.page] = left]
        /\ InShape(o3.pages) /\ Fits(left.cells) => InShape(t.pages)
    BY ONLY <2>a, <2>1, LeafStored
  <2> HIDE DEF t
  <2>3. r = t
    BY <1>a DEF t
  <2> QED BY <1>8, <1>7, <2>2, <2>3
<1>13. Failed(r) => Halted(r)
  <2>1. ~Failed(o3) /\ Failed(r) => Halted(r)
    BY <1>11, <1>a, StoreFails
  <2> QED BY <1>9, <1>12, <2>1
<1>14. /\ IsLeaf(r.pages[p]) /\ r.pages[p].parent = node.parent
       /\ p # root_page_num => r.pages[root_page_num] = o.pages[root_page_num]
  <2>1. o3.pages \in [Pages -> Node]
    BY <1>11, OperationFields
  <2>2. o3.pages[root_page_num] = o.pages[root_page_num]
    BY <1>6, <1>10, PageNumbers
  <2> QED BY <1>1, <1>7, <1>11, <1>12, <2>1, <2>2, PageNumbers
<1>15. ASSUME ~Failed(r)
       PROVE  \A q \in Pages :
                r.pages[q] = IF q = p THEN left ELSE IF q = new THEN right ELSE o.pages[q]
  <2>1. o3.pages \in [Pages -> Node]
    BY <1>11, OperationFields
  <2> QED BY <1>10, <1>12, <1>15, <2>1
<1> QED BY <1>6, <1>12, <1>13, <1>14, <1>15 DEF node

\* The left half with the key that lands in it.
Stray(left, key) == [left EXCEPT !.cells = SplitStray(@, key)]

LEMMA StrayHalf ==
  ASSUME NEW left \in LeafNode, Fits(left.cells), left.cells # <<>>, NEW key,
         NEW node, node = Stray(left, key)
  PROVE  /\ node \in LeafNode /\ IsLeaf(node) /\ Fits(node.cells)
         /\ node.next = left.next /\ node.parent = left.parent
         /\ (node.is_root <=> left.is_root)
         /\ SameRows(node.cells, left.cells)
<1> DEFINE to == SplitStray(left.cells, key)
<1>1. left.cells \in Seq(Rows) /\ InOrder(left.cells) /\ Len(left.cells) <= LEAF_NODE_MAX_CELLS
  BY DEF Fits
<1>2. /\ to \in Seq(Rows) /\ Len(to) = Len(left.cells) /\ InOrder(to)
      /\ \A i \in 1 .. Len(left.cells) : AsInserted(to[i]) = AsInserted(left.cells[i])
  BY <1>1, StrayKeeps
<1>3. node = [left EXCEPT !.cells = to]
  BY DEF Stray
<1> HIDE DEF to
<1>4. /\ node \in LeafNode /\ node.cells = to /\ node.next = left.next
      /\ node.parent = left.parent /\ (node.is_root <=> left.is_root) /\ IsLeaf(node)
  BY <1>2, <1>3 DEF LeafNode, IsLeaf
<1> QED BY <1>1, <1>2, <1>4 DEF Fits, SameRows

\* A split of leaf p went on to what internal_node_insert() makes of x,
\* where the halves are stored.
PutAbove(o, p, all, x, r) ==
  LET new == o.num_pages
  IN /\ Good(x) /\ ~Failed(x) /\ x.num_pages = new + 1
     /\ x.pages[root_page_num] = o.pages[root_page_num]
     /\ x.pages[p].parent = o.pages[p].parent
     /\ Divided(o.pages, x.pages, p, new, all) /\ Overfull(all)
     /\ Keeps(x, r) /\ r = internal_node_insert(x, o.pages[p].parent, new)

\* A full leaf that is not the root.
LEMMA LeafSplit ==
  ASSUME NEW o, NEW p, NEW c, NEW row, Target(o, p, c, row), p # root_page_num,
         Full(o.pages[p])
  PROVE  LET r   == leaf_node_split_and_insert(o, p, c, row)
             all == With(o, p, c, row)
         IN /\ Outcome(o, p, all, r)
            /\ ~Failed(r) => \E x : PutAbove(o, p, all, x, r)
<1> DEFINE o1 == get_page(o, p)
           old == Pointer(o1, p)
           node == o1.pages[p]
           new == o1.num_pages
           o2 == get_page(o1, new)
           at == Pointer(o2, new)
           all == InsertAt(node.cells, c + 1, row)
           o3 == StoreNode(o2, at, RightHalf(node, all))
           left == LeftHalf(node, all, new)
           right == RightHalf(node, all)
           h == StoreNode(o3, old, left)
           o4 == get_page(h, p)
           stray == [left EXCEPT !.cells = SplitStray(@, Last(node.cells).key)]
           o5 == StoreNode(o4, Pointer(o4, p), stray)
           r == internal_node_insert(o5, node.parent, new)
           s == leaf_node_split_and_insert(o, p, c, row)
<1>1. Target(o1, p, c, row) /\ o1.pages = o.pages
  BY TargetKept
<1>2. /\ Good(o1) /\ p \in Pages /\ IsLeaf(node) /\ Grown(o1) /\ InShape(o1.pages)
      /\ node \in LeafNode /\ ~node.is_root
  <2>1. Good(o1) /\ p \in Pages /\ IsLeaf(node) /\ Grown(o1) /\ InShape(o1.pages)
    BY <1>1 DEF Target
  <2>2. o1.pages \in [Pages -> Node]
    BY <2>1, OperationFields DEF Good
  <2> QED BY <2>1, <2>2, NodeFields DEF Good, Shaped
<1>3. s = IF Failed(o2) THEN o2
          ELSE IF node.is_root THEN create_new_root(h, new) ELSE r
  BY DEF leaf_node_split_and_insert
<1>4. With(o, p, c, row) = all /\ With(o1, p, c, row) = all
  BY <1>1 DEF With
<1>5. old.page = p /\ at.page = new
  BY DEF Pointer
<1> HIDE DEF o1, s
<1>6. CASE Failed(o2)
  <2>1. Keeps(o1, o2)
    BY <1>2, RequestKeeps
  <2>2. Good(o2) /\ LeavesKept(o.pages, o2.pages)
    BY <1>1, <2>1 DEF Keeps
  <2>3. InShape(o2.pages)
    BY <1>1, <1>2, <2>2, ShapeKept
  <2> HIDE DEF o2
  <2> QED BY <1>3, <1>6, <2>2, <2>3 DEF Outcome, s
<1>7. CASE ~Failed(o2)
  <2>1. /\ Good(h) /\ InShape(h.pages)
        /\ new \in Pages \ {p, root_page_num} /\ ~IsLeaf(o1.pages[new])
        /\ IsLeaf(h.pages[p]) /\ h.pages[p].parent = node.parent
        /\ h.pages[root_page_num] = o1.pages[root_page_num] /\ h.num_pages = new + 1
        /\ Failed(h) => Halted(h)
        /\ ~Failed(h) =>
             \A q \in Pages :
               h.pages[q] = IF q = p THEN left ELSE IF q = new THEN right ELSE o1.pages[q]
    <3>1. Full(o1.pages[p]) /\ new = o1.num_pages
      BY <1>1
    <3> HIDE DEF at, old
    <3>2. /\ ~Failed(get_page(o1, new))
          /\ h = StoreNode(StoreNode(get_page(o1, new), at, right), old, left)
          /\ left = LeftHalf(o1.pages[p], With(o1, p, c, row), new)
          /\ right = RightHalf(o1.pages[p], With(o1, p, c, row))
      BY <1>4, <1>7
    <3> HIDE DEF h, left, right, all, o2, o3, new, node
    <3>3. /\ Good(h) /\ InShape(h.pages)
          /\ new \in Pages \ {p, root_page_num} /\ ~IsLeaf(o1.pages[new])
          /\ IsLeaf(h.pages[p]) /\ h.pages[p].parent = o1.pages[p].parent
          /\ h.num_pages = new + 1
      BY ONLY <1>1, <1>5, <3>1, <3>2, HalvesStored
    <3>4. /\ h.pages[root_page_num] = o1.pages[root_page_num]
          /\ Failed(h) => Halted(h)
          /\ ~Failed(h) =>
               \A q \in Pages :
                 h.pages[q] = IF q = p THEN left ELSE IF q = new THEN right ELSE o1.pages[q]
      BY ONLY p # root_page_num, <1>1, <1>5, <3>1, <3>2, HalvesStored
    <3> QED BY <3>3, <3>4 DEF node
  <2>a. /\ new = o.num_pages /\ p \in Nat /\ new \in Nat /\ p < new
    <3>1. Good(o) /\ IsLeaf(o.pages[p]) /\ p \in Pages
      BY DEF Target
    <3>2. o.num_pages \in Nat /\ p \in Nat
      BY <3>1, OperationFields, PageNumbers DEF Good
    <3>3. p < o.num_pages
      BY <3>1, <3>2 DEF Good, Shaped
    <3>4. get_page(o, p).num_pages = o.num_pages
      BY <3>1, <3>2, <3>3, RequestKeeps
    <3> QED BY <3>2, <3>3, <3>4 DEF o1
  <2>2. Overfull(all)
    <3>1. /\ Fits(node.cells) /\ Len(node.cells) \in Nat
          /\ all \in Seq(Rows) /\ Len(all) = Len(node.cells) + 1 /\ InOrder(all)
      BY <1>1, <1>4, RowPlaced
    <3>2. Len(node.cells) <= LEAF_NODE_MAX_CELLS /\ LEAF_NODE_MAX_CELLS \in Nat
      BY <3>1, SplitCounts DEF Fits
    <3>3. Len(node.cells) >= LEAF_NODE_MAX_CELLS
      BY <1>1 DEF Full
    <3> HIDE DEF all, node
    <3>4. Len(node.cells) = LEAF_NODE_MAX_CELLS
      BY <3>1, <3>2, <3>3
    <3> QED BY <3>1, <3>4 DEF Overfull
  <2> HIDE DEF new, all, node
  <2>3. /\ IsLeaf(right) /\ right.cells = SecondHalf(all) /\ right.next = node.next
        /\ left \in LeafNode /\ Fits(left.cells)
        /\ left.cells = FirstHalf(all) /\ left.next = new
        /\ left.parent = node.parent /\ (left.is_root <=> node.is_root)
    <3>1. left = LeftHalf(node, all, new) /\ right = RightHalf(node, all) /\ new \in Pages
      BY <2>1
    <3> HIDE DEF left, right
    <3> QED BY <1>2, <2>2, <3>1, HalfNodes
  <2>4. left.cells # <<>>
    <3>1. Len(FirstHalf(all)) = LEFT_SPLIT_COUNT
      BY <2>2, HalvesFit DEF Overfull
    <3>2. LEFT_SPLIT_COUNT # 0
      BY SplitCounts
    <3> HIDE DEF left
    <3> QED BY <2>3, <3>1, <3>2
  <2>5. /\ stray \in LeafNode /\ IsLeaf(stray) /\ Fits(stray.cells)
        /\ stray.next = new /\ stray.parent = node.parent /\ ~stray.is_root
        /\ SameRows(stray.cells, FirstHalf(all))
    <3> DEFINE key == Last(node.cells).key
    <3>1. stray = Stray(left, key)
      BY DEF Stray
    <3> HIDE DEF left, stray, key
    <3>2. /\ stray \in LeafNode /\ IsLeaf(stray) /\ Fits(stray.cells)
          /\ stray.next = left.next /\ stray.parent = left.parent
          /\ (stray.is_root <=> left.is_root)
          /\ SameRows(stray.cells, left.cells)
      BY ONLY <2>3, <2>4, <3>1, StrayHalf
    <3> QED BY <1>2, <2>3, <3>2
  <2> HIDE DEF h, stray, left, right
  <2>6. /\ Good(o4) /\ o4 \in Operations /\ o4.pages = h.pages /\ o4.fault = h.fault
        /\ o4.num_pages = new + 1
    <3>1. p # h.num_pages
      BY <2>1, <2>a
    <3> QED BY <1>2, <2>1, <3>1, RequestKeeps, PageGranted DEF Keeps, Good
  <2> HIDE DEF o4
  <2>7. /\ Good(o5) /\ o5.num_pages = o4.num_pages /\ InShape(o5.pages)
        /\ Failed(o4) => o5 = o4
        /\ Failed(o5) => o5.pages = o4.pages
        /\ ~Failed(o5) => ~Failed(o4) /\ o5.pages = [o4.pages EXCEPT ![p] = stray]
    <3> DEFINE ptr == Pointer(o4, p)
    <3>1. /\ ptr.page = p /\ p \in Pages /\ IsLeaf(o4.pages[ptr.page]) /\ InShape(o4.pages)
          /\ stray.parent = o4.pages[p].parent /\ (stray.is_root <=> ptr.page = root_page_num)
      BY <1>2, <2>1, <2>5, <2>6 DEF Pointer
    <3>2. o5 = StoreNode(o4, ptr, stray)
      OBVIOUS
    <3> HIDE DEF ptr, o5
    <3>3. /\ Good(o5) /\ o5.num_pages = o4.num_pages
          /\ Failed(o4) => o5 = o4
          /\ Failed(o5) => o5.pages = o4.pages
          /\ ~Failed(o5) => ~Failed(o4) /\ o5.pages = [o4.pages EXCEPT ![ptr.page] = stray]
          /\ InShape(o4.pages) /\ Fits(stray.cells) => InShape(o5.pages)
      BY ONLY <2>5, <2>6, <3>1, <3>2, LeafStored
    <3> QED BY <2>5, <3>1, <3>3
  <2>8. Failed(o5) => Halted(o5)
    <3>1. ~Failed(o4) /\ Failed(o5) => Halted(o5)
      BY <2>6, StoreFails
    <3>2. (Failed(o4) <=> Failed(h)) /\ (Halted(o4) <=> Halted(h))
      BY <2>6, Zenon DEF Failed, Halted
    <3> HIDE DEF o5
    <3> QED BY <2>1, <2>7, <3>1, <3>2
  <2> HIDE DEF o5
  <2>9. o4.pages \in [Pages -> Node]
    BY <2>6, OperationFields
  <2>10. /\ o5.pages[p].parent = node.parent /\ Grown(o5)
         /\ o5.pages[root_page_num] = o1.pages[root_page_num]
    <3>1. o5.pages[p].parent = node.parent
      BY <1>2, <2>1, <2>5, <2>6, <2>7, <2>9
    <3>2. o5.pages[root_page_num] = o1.pages[root_page_num]
      BY <2>1, <2>6, <2>7, <2>9, PageNumbers
    <3> QED BY <1>2, <3>1, <3>2 DEF Grown
  <2>11. Inner(o5, node.parent) /\ new \in Nat
    BY <1>2, <2>1, <2>7, <2>10, ParentIsInner, PageNumbers
  <2>12. Keeps(o5, r) /\ (Failed(o5) => r = o5)
    BY <2>7, <2>10, <2>11, NodeInserted DEF Inserts
  <2>13. s = r
    BY <1>2, <1>3, <1>7
  <2>b. r = internal_node_insert(o5, o.pages[p].parent, o.num_pages)
    BY <1>1, <2>a DEF node
  <2> HIDE DEF r
  <2>14. Good(r) /\ InShape(r.pages)
    BY <2>7, <2>12, ShapeKept DEF Keeps
  <2>15. ASSUME ~Failed(o5)
         PROVE  Divided(o.pages, r.pages, p, new, all) /\ Divided(o.pages, o5.pages, p, new, all)
    <3>1. \A q \in Pages :
            o5.pages[q] = IF q = p THEN stray ELSE IF q = new THEN right ELSE o1.pages[q]
      <4>1. ~Failed(h)
        BY <2>6, <2>7, <2>15 DEF Failed
      <4>2. o5.pages = [o4.pages EXCEPT ![p] = stray]
        BY <2>7, <2>15
      <4>3. \A q \in Pages : o4.pages[q] = IF q = p THEN left ELSE IF q = new THEN right ELSE o1.pages[q]
        BY <2>1, <2>6, <4>1
      <4> QED BY ONLY <2>9, <4>2, <4>3
    <3>2. SameRows(right.cells, SecondHalf(all)) /\ right.next = o.pages[p].next
      BY <1>1, <2>3 DEF SameRows, node
    <3>3. Divided(o.pages, o5.pages, p, new, all)
      <4> DEFINE tree == o.pages
                 next == o5.pages
      <4>1. /\ p \in Pages /\ new \in Pages \ {p, root_page_num} /\ ~IsLeaf(tree[new])
            /\ IsLeaf(stray) /\ stray.next = new /\ SameRows(stray.cells, FirstHalf(all))
            /\ IsLeaf(right) /\ right.next = tree[p].next /\ SameRows(right.cells, SecondHalf(all))
        BY ONLY <1>1, <1>2, <2>1, <2>3, <2>5, <3>2
      <4>2. \A q \in Pages : next[q] = IF q = p THEN stray ELSE IF q = new THEN right ELSE tree[q]
        BY ONLY <1>1, <3>1
      <4> HIDE DEF tree, next
      <4>3. Divided(tree, next, p, new, all)
        BY ONLY <4>1, <4>2, TreeDivided
      <4> QED BY <4>3 DEF tree, next
    <3> QED BY <1>2, <2>1, <2>12, <3>3, DividedKept DEF Keeps
  <2>16. Halted(r) \/ Divided(o.pages, r.pages, p, new, all)
    BY <2>8, <2>12, <2>15
  <2>17. Outcome(o, p, all, r)
    BY <2>1, <2>2, <2>14, <2>16 DEF Outcome
  <2>18. ASSUME ~Failed(r) PROVE PutAbove(o, p, all, o5, r)
    <3>1. ~Failed(o5)
      BY <2>12, <2>18
    <3>2. /\ o5.pages[root_page_num] = o.pages[root_page_num]
          /\ o5.pages[p].parent = o.pages[p].parent
      BY <1>1, <2>10 DEF node
    <3>3. o5.num_pages = o.num_pages + 1
      BY <2>6, <2>7, <2>a
    <3> QED BY <2>2, <2>7, <2>12, <2>15, <2>a, <2>b, <3>1, <3>2, <3>3 DEF PutAbove
  <2> QED BY <1>4, <2>13, <2>17, <2>18 DEF s, all
<1> QED BY <1>6, <1>7

-----------------------------------------------------------------------------
(***************************************************************************)
(* create_new_root() of a root that is a leaf.                             *)
(***************************************************************************)

\* A failed operation is left alone, and a new failure ends it for good.
FailsHalted(o, r) == IF Failed(o) THEN r = o ELSE Failed(r) => Halted(r)

LEMMA StoreFailsHalted ==
  ASSUME NEW o \in Operations, NEW ptr, NEW ptrs, NEW node, NEW parent
  PROVE  /\ FailsHalted(o, StoreNode(o, ptr, node))
         /\ FailsHalted(o, Use(o, ptrs))
         /\ FailsHalted(o, SetParent(o, ptr, parent))
<1>1. ASSUME NEW any PROVE FailsHalted(o, StoreNode(o, ptr, any))
  <2>1. Failed(o) => StoreNode(o, ptr, any) = o
    BY DEF StoreNode
  <2>2. ~Failed(o) /\ Failed(StoreNode(o, ptr, any)) => Halted(StoreNode(o, ptr, any))
    BY StoreFails
  <2> QED BY <2>1, <2>2 DEF FailsHalted
<1>2. FailsHalted(o, Use(o, ptrs))
  <2>1. [o EXCEPT !.fault = "stale pointer"].fault = "stale pointer"
    BY Zenon DEF Operations
  <2>2. Halted([o EXCEPT !.fault = "stale pointer"])
    BY <2>1, Zenon DEF Halted
  <2>3. Use(o, ptrs) = o \/ (~Failed(o) /\ Use(o, ptrs) = [o EXCEPT !.fault = "stale pointer"])
    BY Zenon DEF Use
  <2> QED BY <2>2, <2>3, Zenon DEF FailsHalted
<1>3. FailsHalted(o, SetParent(o, ptr, parent))
  <2>1. \/ Failed(o) /\ SetParent(o, ptr, parent) = o
        \/ \E any : SetParent(o, ptr, parent) = StoreNode(o, ptr, any)
    BY DEF SetParent
  <2> QED BY <1>1, <2>1 DEF FailsHalted
<1> QED BY <1>1, <1>2, <1>3

LEMMA FailsHaltedTransitive ==
  ASSUME NEW o1, NEW o2, NEW o3, FailsHalted(o1, o2), FailsHalted(o2, o3)
  PROVE  FailsHalted(o1, o3)
BY DEF FailsHalted

\* The test of an unused cell changes no page; where it fails the process ends.
LEMMA TestFailsHalted ==
  ASSUME NEW o \in Operations, NEW ptr, NEW node \in InternalNode, NEW cell
  PROVE  LET r == TestCell(o, ptr, node, cell)
         IN /\ r \in Operations /\ r.pages = o.pages /\ r.num_pages = o.num_pages
            /\ FailsHalted(o, r)
<1> DEFINE r == TestCell(o, ptr, node, cell)
<1>1. /\ r \in Operations /\ r.pages = o.pages /\ r.num_pages = o.num_pages
      /\ Failed(o) => r = o
      /\ r = o \/ Halted(r)
  BY CellTested
<1> HIDE DEF r
<1>2. FailsHalted(o, r)
  BY <1>1, Zenon DEF FailsHalted
<1> QED BY <1>1, <1>2 DEF r

\* The root becomes an internal node.
LEMMA RootStored ==
  ASSUME NEW o, Good(o), Failed(o) \/ IsLeaf(o.pages[root_page_num]),
         NEW ptr, ptr.page = root_page_num, NEW node \in InternalNode, node.is_root,
         node.parent = o.pages[root_page_num].parent
  PROVE  LET r == StoreNode(o, ptr, node)
         IN /\ Good(r) /\ r.num_pages = o.num_pages
            /\ Failed(o) => r = o
            /\ Failed(r) => r.pages = o.pages
            /\ ~Failed(r) => ~Failed(o) /\ r.pages = [o.pages EXCEPT ![root_page_num] = node]
<1> DEFINE r == StoreNode(o, ptr, node)
           tree == [o.pages EXCEPT ![root_page_num] = node]
<1>1. /\ o \in Operations /\ o.pages \in [Pages -> Node] /\ node \in Node /\ ~IsLeaf(node)
      /\ ptr.page \in Pages
  BY OperationFields, PageNumbers DEF Good, Node, InternalNode, IsLeaf
<1>2. /\ r \in Operations /\ r.num_pages = o.num_pages
      /\ Failed(o) => r = o
      /\ Failed(r) => r.pages = o.pages
      /\ ~Failed(r) => ~Failed(o) /\ r.pages = tree
  BY <1>1, NodeStored
<1>3. \A q \in Pages : tree[q] = IF q = root_page_num THEN node ELSE o.pages[q]
  BY <1>1
<1> HIDE DEF tree, r
<1>4. ASSUME ~Failed(r) PROVE Shaped(tree, o.num_pages)
  <2>1. IsLeaf(o.pages[root_page_num])
    BY <1>2, <1>4
  <2>2. /\ o.num_pages \in 1 .. FILE_PAGES_NUM
        /\ \A q \in Pages : q >= o.num_pages => ~IsLeaf(o.pages[q])
        /\ \A q \in Pages : o.pages[q].is_root <=> q = root_page_num
        /\ \A q \in Pages : o.pages[q].parent < o.num_pages
        /\ \A q \in Pages : o.pages[q].parent = root_page_num
    BY <2>1 DEF Good, Shaped
  <2>3. \A q \in Pages : tree[q].parent = root_page_num
    BY <1>3, <2>2, PageNumbers
  <2>4. /\ \A q \in Pages : q >= o.num_pages => ~IsLeaf(tree[q])
        /\ \A q \in Pages : tree[q].is_root <=> q = root_page_num
        /\ \A q \in Pages : tree[q].parent < o.num_pages
    BY <1>1, <1>3, <2>2, <2>3, PageNumbers
  <2>5. tree[root_page_num] = node
    BY <1>3, PageNumbers
  <2> QED BY <1>1, <2>2, <2>3, <2>4, <2>5 DEF Shaped
<1>5. Good(r)
  <2>1. CASE Failed(r)
    BY <1>2, <2>1 DEF Good
  <2>2. CASE ~Failed(r)
    BY <1>2, <1>4, <2>2 DEF Good
  <2> QED BY <2>1, <2>2
<1> QED BY <1>2, <1>5 DEF r, tree

\* The rows of the root, a leaf, are now in the page left.
RootMoved(a, b, left) ==
  /\ ~IsLeaf(b[root_page_num]) /\ IsLeaf(b[left])
  /\ b[left].cells = a[root_page_num].cells /\ b[left].next = a[root_page_num].next
  /\ OthersKept(a, b, {root_page_num, left})

LEMMA LeafCopied ==
  ASSUME NEW o, Good(o), InShape(o.pages), IsLeaf(o.pages[root_page_num]),
         NEW root, NEW right, NEW left, Fresh(o, left.page),
         NEW r, r = AdoptChildren(CopyRoot(o, root, right, left), left)
  PROVE  /\ Good(r) /\ r.num_pages = o.num_pages /\ InShape(r.pages)
         /\ FailsHalted(o, r)
         /\ IsLeaf(r.pages[root_page_num])
         /\ r.pages[root_page_num].parent = o.pages[root_page_num].parent
         /\ ~Failed(r) => r.pages = [o.pages EXCEPT ![left.page] = LeftCopy(o.pages[root_page_num])]
<1> DEFINE old_root == o.pages[root_page_num]
           copy == LeftCopy(old_root)
           u == Use(o, {root})
           c == CopyRoot(o, root, right, left)
<1>1. o \in Operations /\ o.pages \in [Pages -> Node] /\ root_page_num \in Pages
  BY OperationFields, PageNumbers DEF Good
<1>2. old_root \in LeafNode /\ Fits(old_root.cells)
  BY <1>1, NodeFields DEF InShape
<1>3. left.page \in Pages /\ left.page # root_page_num /\ left.page < o.num_pages /\ ~IsLeaf(o.pages[left.page])
  BY DEF Fresh
<1>4. c = StoreNode(u, left, copy)
  BY DEF CopyRoot
<1>5. /\ u \in Operations /\ Good(u) /\ u.pages = o.pages /\ u.num_pages = o.num_pages
      /\ FailsHalted(o, u)
  BY <1>1, UseKeeps, StoreFailsHalted DEF Keeps, Good
<1>6. Fresh(u, left.page)
  BY <1>5, FreshKept
<1> HIDE DEF old_root, u, c
<1>7. /\ copy \in LeafNode /\ IsLeaf(copy) /\ ~copy.is_root /\ copy.parent = old_root.parent
      /\ copy.cells = old_root.cells /\ copy.next = old_root.next
  BY <1>2 DEF LeftCopy, LeafNode, IsLeaf
<1> HIDE DEF copy
<1>8. /\ Good(c) /\ c.num_pages = o.num_pages /\ InShape(c.pages) /\ FailsHalted(u, c)
      /\ Failed(c) => c.pages = o.pages
      /\ ~Failed(c) => c.pages = [o.pages EXCEPT ![left.page] = copy]
  <2>1. copy.parent = u.pages[root_page_num].parent /\ (copy.is_root <=> left.page = root_page_num)
    BY <1>3, <1>5, <1>7 DEF old_root
  <2>2. /\ Good(c) /\ c.num_pages = u.num_pages
        /\ Failed(c) => c.pages = u.pages
        /\ ~Failed(c) => c.pages = [u.pages EXCEPT ![left.page] = copy]
        /\ InShape(u.pages) /\ Fits(copy.cells) => InShape(c.pages)
    <3>1. root_page_num \in Pages /\ left.page \in Pages
      BY <1>1, <1>3
    <3>2. Good(u) /\ Fresh(u, left.page) /\ copy \in LeafNode
      BY <1>5, <1>6, <1>7
    <3> QED BY ONLY <1>4, <2>1, <3>1, <3>2, LeafStored
  <2>3. FailsHalted(u, c)
    BY <1>4, <1>5, StoreFailsHalted
  <2> QED BY <1>2, <1>5, <1>7, <2>2, <2>3
<1>9. r = c
  <2>1. CASE ~Failed(c)
    <3>1. IsLeaf(c.pages[left.page])
      BY <1>1, <1>3, <1>7, <1>8, <2>1
    <3> QED BY <3>1 DEF AdoptChildren, c
  <2>2. CASE Failed(c)
    <3>1. Inner(c, left.page)
      BY <1>3, <1>8, <2>2 DEF Inner
    <3> QED BY <1>8, <2>2, <3>1, ChildrenAdopted DEF c
  <2> QED BY <2>1, <2>2
<1>10. FailsHalted(o, c)
  BY <1>5, <1>8, FailsHaltedTransitive
<1>11. c.pages[root_page_num] = old_root
  BY <1>1, <1>3, <1>8 DEF old_root
<1> QED BY <1>8, <1>9, <1>10, <1>11 DEF old_root, copy

LEMMA RootPut ==
  ASSUME NEW o, Good(o), InShape(o.pages), IsLeaf(o.pages[root_page_num]),
         NEW root, root.page = root_page_num,
         NEW right, right.page \in Pages, NEW left, left.page \in Pages,
         NEW r, r = RootAbove(o, root, right, left)
  PROVE  /\ Good(r) /\ r.num_pages = o.num_pages /\ InShape(r.pages)
         /\ FailsHalted(o, r)
         /\ ~Failed(r) =>
              /\ ~IsLeaf(r.pages[root_page_num])
              /\ \A q \in Pages \ {root_page_num} : r.pages[q] = o.pages[q]
<1> DEFINE old == o.pages[root_page_num]
           max == get_node_max_key(o.pages, left.page)
           empty == initialize_internal_node(old)
           node == [empty EXCEPT
                      !.is_root = TRUE,
                      !.cells = <<[child |-> left.page, key |-> max]>>,
                      !.right = right.page,
                      !.leftover = @ \ {0}]
           tested == TestCell(o, root, empty, 0)
<1>1. o \in Operations /\ o.pages \in [Pages -> Node] /\ root_page_num \in Pages
  BY OperationFields, PageNumbers DEF Good
<1>2. max \in Nat /\ old \in Node
  BY <1>1, MaxKeyIsNat
<1>3. r = StoreNode(tested, root, node)
  BY DEF RootAbove
<1>4. initialize_internal_node(old) \in InternalNode /\ initialize_internal_node(old).parent = old.parent
  BY <1>2, NodeInitialized DEF initialize_internal_node
<1>5. <<[child |-> left.page, key |-> max]>> \in Seq(InternalCell) /\ right.page \in Nat
  <2> HIDE DEF max
  <2> QED BY <1>2, PageNumbers DEF InternalCell
<1> HIDE DEF max, old
<1>6. node \in InternalNode /\ node.is_root /\ node.parent = old.parent
  <2> DEFINE cells == <<[child |-> left.page, key |-> max]>>
  <2>1. cells \in Seq(InternalCell)
    BY <1>5
  <2> HIDE DEF cells
  <2> DEFINE n == [empty EXCEPT !.is_root = TRUE, !.cells = cells, !.right = right.page,
                                !.leftover = @ \ {0}]
  <2>4. empty \in InternalNode /\ empty.parent = old.parent
    BY <1>4
  <2>5. node = n
    BY DEF cells
  <2> HIDE DEF empty
  <2>2. n \in InternalNode
    BY <1>5, <2>1, <2>4 DEF InternalNode
  <2>3. n.is_root /\ n.parent = old.parent
    BY <1>5, <2>1, <2>4 DEF InternalNode
  <2> QED BY <2>2, <2>3, <2>5
<1> HIDE DEF node, empty
<1>12. /\ Good(tested) /\ tested.pages = o.pages /\ tested.num_pages = o.num_pages
       /\ Failed(o) => tested = o
       /\ ~Failed(tested) => tested = o
       /\ FailsHalted(o, tested)
  <2>1. /\ tested \in Operations /\ tested.pages = o.pages /\ tested.num_pages = o.num_pages
        /\ Failed(o) => tested = o
        /\ ~Failed(tested) => tested = o
        /\ tested = o \/ Halted(tested)
    <3>1. empty \in InternalNode
      BY <1>4 DEF empty
    <3> QED BY <1>1, <3>1, CellTested
  <2>2. Good(tested)
    BY <2>1 DEF Good
  <2> QED BY <2>1, <2>2 DEF FailsHalted
<1> HIDE DEF tested
<1>13. /\ Good(r) /\ r.num_pages = tested.num_pages
       /\ Failed(r) => r.pages = tested.pages
       /\ ~Failed(r) => ~Failed(tested) /\ r.pages = [tested.pages EXCEPT ![root_page_num] = node]
  BY <1>3, <1>6, <1>12, RootStored DEF old
<1>7. /\ Good(r) /\ r.num_pages = o.num_pages
      /\ Failed(r) => r.pages = o.pages
      /\ ~Failed(r) => r.pages = [o.pages EXCEPT ![root_page_num] = node]
  BY <1>12, <1>13
<1>8. FailsHalted(o, r)
  <2>1. FailsHalted(tested, r)
    BY <1>3, <1>12, StoreFailsHalted DEF Good
  <2> QED BY <1>12, <2>1 DEF FailsHalted
<1>9. ~Failed(r) => \A q \in Pages : r.pages[q] = IF q = root_page_num THEN node ELSE o.pages[q]
  BY <1>1, <1>7
<1>10. ~IsLeaf(node)
  BY <1>6 DEF InternalNode, IsLeaf
<1>11. InShape(r.pages)
  BY <1>7, <1>9, <1>10 DEF InShape
<1> QED BY <1>1, <1>7, <1>8, <1>9, <1>10, <1>11

LEMMA LeafRootGrown ==
  ASSUME NEW o, Good(o), InShape(o.pages), IsLeaf(o.pages[root_page_num]),
         NEW root, root.page = root_page_num,
         NEW right, right.page \in Pages, NEW left, Fresh(o, left.page),
         NEW r, r = GrowRoot(o, root, right, left)
  PROVE  /\ Good(r) /\ InShape(r.pages) /\ FailsHalted(o, r)
         /\ ~Failed(r) => RootMoved(o.pages, r.pages, left.page)
<1> DEFINE old == o.pages[root_page_num]
           a == AdoptChildren(CopyRoot(o, root, right, left), left)
           b == RootAbove(a, root, right, left)
           s == SetParent(b, left, root_page_num)
<1>1. r = SetParent(s, right, root_page_num)
  BY DEF GrowRoot
<1>2. /\ o \in Operations /\ o.pages \in [Pages -> Node] /\ root_page_num \in Pages
      /\ left.page \in Pages /\ left.page # root_page_num /\ old \in Node
  BY OperationFields, PageNumbers DEF Good, Fresh
<1> HIDE DEF old
<1>3. /\ Good(a) /\ a.num_pages = o.num_pages /\ InShape(a.pages) /\ FailsHalted(o, a)
      /\ IsLeaf(a.pages[root_page_num])
      /\ ~Failed(a) => a.pages = [o.pages EXCEPT ![left.page] = LeftCopy(old)]
  BY LeafCopied DEF old
<1> HIDE DEF a
<1>4. /\ Good(b) /\ b.num_pages = o.num_pages /\ InShape(b.pages) /\ FailsHalted(a, b)
      /\ ~Failed(b) => /\ ~IsLeaf(b.pages[root_page_num])
                       /\ \A q \in Pages \ {root_page_num} : b.pages[q] = a.pages[q]
  BY <1>2, <1>3, RootPut
<1> HIDE DEF b
<1>5. b \in Operations /\ FailsHalted(b, s) /\ (~Failed(b) => Good(s))
  <2>1. b \in Operations
    BY <1>4 DEF Good
  <2>2. ~Failed(b) => Grown(b)
    BY <1>4 DEF Grown
  <2>3. ~Failed(b) => Inner(b, root_page_num)
    BY <1>4, <2>2, RootIsInner
  <2>4. ~Failed(b) => Keeps(b, s)
    BY <1>2, <1>4, <2>2, <2>3, ParentSet
  <2> HIDE DEF s
  <2>5. FailsHalted(b, s)
    BY <2>1, StoreFailsHalted DEF s
  <2> QED BY <2>1, <2>4, <2>5 DEF Keeps
<1>6. FailsHalted(s, r)
  <2>1. CASE Failed(b)
    <3>1. s = b
      BY <1>5, <2>1 DEF FailsHalted
    <3> HIDE DEF s
    <3> QED BY <1>1, <1>5, <3>1, StoreFailsHalted
  <2>2. CASE ~Failed(b)
    <3>1. s \in Operations
      BY <1>5, <2>2 DEF Good
    <3> HIDE DEF s
    <3> QED BY <1>1, <3>1, StoreFailsHalted
  <2> QED BY <2>1, <2>2
<1>7. FailsHalted(o, r)
  <2> HIDE DEF s
  <2> QED BY <1>3, <1>4, <1>5, <1>6, FailsHaltedTransitive
<1>8. CASE Failed(b)
  <2>1. r = b
    <3>1. s = b
      BY <1>5, <1>8 DEF FailsHalted
    <3> HIDE DEF s
    <3> QED BY <1>6, <1>8, <3>1 DEF FailsHalted
  <2> QED BY <1>4, <1>7, <1>8, <2>1
<1>9. CASE ~Failed(b)
  <2>1. Grown(b) /\ Inner(b, root_page_num)
    BY <1>4, <1>9, RootIsInner DEF Grown
  <2>2. Keeps(b, s)
    BY <1>2, <1>4, <2>1, ParentSet
  <2> HIDE DEF s
  <2>3. Good(s) /\ Grown(s) /\ Inner(s, root_page_num)
    BY <1>4, <2>1, <2>2, KeepsContext
  <2>4. Keeps(s, r)
    BY <1>1, <2>3, ParentSet
  <2>5. Keeps(b, r)
    BY <1>4, <2>2, <2>4, KeepsTransitive
  <2>6. Good(r) /\ LeavesKept(b.pages, r.pages)
    BY <2>5 DEF Keeps
  <2>7. InShape(r.pages)
    BY <1>4, <2>6, ShapeKept
  <2>8. ~Failed(a)
    BY <1>4, <1>9 DEF FailsHalted
  <2>9. /\ LeftCopy(old).cells = old.cells /\ LeftCopy(old).next = old.next /\ IsLeaf(LeftCopy(old))
    BY <1>2, NodeFields DEF LeftCopy, LeafNode, IsLeaf, old
  <2>10. /\ b.pages[left.page] = LeftCopy(old)
         /\ \A q \in Pages \ {root_page_num, left.page} : b.pages[q] = o.pages[q]
    BY <1>2, <1>3, <1>4, <1>9, <2>8
  <2>11. ~IsLeaf(b.pages[root_page_num])
    BY <1>4, <1>9
  <2>12. RootMoved(o.pages, r.pages, left.page)
    BY <1>2, <2>6, <2>9, <2>10, <2>11 DEF RootMoved, OthersKept, LeavesKept, old
  <2> QED BY <1>7, <2>6, <2>7, <2>12
<1> QED BY <1>8, <1>9

\* create_new_root() above a leaf: it moves the rows of the root, or the
\* file is full and nothing is done.
LEMMA LeafRootSplit ==
  ASSUME NEW o, Good(o), InShape(o.pages), IsLeaf(o.pages[root_page_num]),
         NEW new \in Pages, NEW r, r = create_new_root(o, new)
  PROVE  /\ Good(r) /\ InShape(r.pages) /\ (Failed(o) => r = o)
         /\ \/ Failed(r) /\ (Halted(r) \/ r.pages = o.pages)
            \/ /\ ~Failed(r)
               /\ \E left \in Pages \ {root_page_num} :
                    ~IsLeaf(o.pages[left]) /\ RootMoved(o.pages, r.pages, left)
<1> DEFINE o0 == get_page(o, root_page_num)
           o1 == get_page(o0, new)
           n == o1.num_pages
           o2 == get_page(o1, n)
           grown == GrowRoot(o2, Pointer(o2, root_page_num), Pointer(o2, new), Pointer(o2, n))
<1>1. r = IF Failed(o2) THEN o2 ELSE grown
  BY DEF create_new_root
<1>2. Good(o0) /\ o0.pages = o.pages /\ (Failed(o) => o0 = o)
  BY RequestKeeps DEF Keeps
<1> HIDE DEF o0
<1>3. Good(o1) /\ o1.pages = o.pages /\ (Failed(o) => o1 = o)
  BY <1>2, RequestKeeps DEF Keeps
<1> HIDE DEF o1
<1>4. Good(o2) /\ o2.pages = o.pages /\ (Failed(o) => o2 = o)
  BY <1>3, RequestKeeps DEF Keeps
<1>5. CASE Failed(o2)
  <2> HIDE DEF o2
  <2> QED BY <1>1, <1>4, <1>5
<1>6. CASE ~Failed(o2)
  <2>1. Fresh(o2, n)
    BY <1>3, <1>6, FreshPage
  <2>2. /\ Pointer(o2, root_page_num).page = root_page_num
        /\ Pointer(o2, new).page = new /\ Pointer(o2, n).page = n
    BY DEF Pointer
  <2> HIDE DEF o2, n, grown
  <2>3. r = grown
    BY <1>1, <1>6
  <2>4. /\ Good(r) /\ InShape(r.pages) /\ FailsHalted(o2, r)
        /\ ~Failed(r) => RootMoved(o2.pages, r.pages, n)
    <3> DEFINE root == Pointer(o2, root_page_num)
               right == Pointer(o2, new)
               left == Pointer(o2, n)
    <3>1. grown = GrowRoot(o2, root, right, left)
      BY DEF grown
    <3>2. root.page = root_page_num /\ right.page = new /\ left.page = n
      BY <2>2
    <3> HIDE DEF root, right, left
    <3>3. InShape(o2.pages) /\ IsLeaf(o2.pages[root_page_num])
      BY <1>4
    <3> QED BY <1>4, <2>1, <2>3, <3>1, <3>2, <3>3, LeafRootGrown
  <2>5. n \in Pages \ {root_page_num} /\ ~IsLeaf(o.pages[n])
    BY <1>4, <2>1 DEF Fresh
  <2>6. Failed(o) => r = o
    BY <1>4, <1>6
  <2> QED BY <1>4, <1>6, <2>4, <2>5, <2>6 DEF FailsHalted
<1> QED BY <1>5, <1>6

\* A split of the root, a leaf, went on to what create_new_root() makes of x,
\* where the halves are stored.
PutUnder(o, all, x, new, r) ==
  /\ Good(x) /\ InShape(x.pages) /\ ~Failed(x)
  /\ Divided(o.pages, x.pages, root_page_num, new, all) /\ Overfull(all)
  /\ r = create_new_root(x, new)

\* A full leaf that is the root.
LEMMA RootLeafSplit ==
  ASSUME NEW o, NEW p, NEW c, NEW row, Target(o, p, c, row), p = root_page_num,
         Full(o.pages[p])
  PROVE  LET r   == leaf_node_split_and_insert(o, p, c, row)
             all == With(o, p, c, row)
         IN /\ Outcome(o, p, all, r)
            /\ ~Failed(r) => \E x, new : PutUnder(o, all, x, new, r)
<1> DEFINE o1 == get_page(o, p)
           old == Pointer(o1, p)
           node == o1.pages[p]
           new == o1.num_pages
           o2 == get_page(o1, new)
           at == Pointer(o2, new)
           all == InsertAt(node.cells, c + 1, row)
           o3 == StoreNode(o2, at, RightHalf(node, all))
           left == LeftHalf(node, all, new)
           right == RightHalf(node, all)
           h == StoreNode(o3, old, left)
           r == create_new_root(h, new)
           s == leaf_node_split_and_insert(o, p, c, row)
<1>1. Target(o1, p, c, row) /\ o1.pages = o.pages
  BY TargetKept
<1>2. /\ Good(o1) /\ p \in Pages /\ IsLeaf(node) /\ InShape(o1.pages)
      /\ node \in LeafNode /\ node.is_root
  <2>1. Good(o1) /\ p \in Pages /\ IsLeaf(node) /\ InShape(o1.pages)
    BY <1>1 DEF Target
  <2>2. o1.pages \in [Pages -> Node]
    BY <2>1, OperationFields DEF Good
  <2> QED BY <2>1, <2>2, NodeFields DEF Good, Shaped
<1>3. s = IF Failed(o2) THEN o2 ELSE r
  BY <1>2 DEF leaf_node_split_and_insert
<1>4. With(o, p, c, row) = all /\ With(o1, p, c, row) = all
  BY <1>1 DEF With
<1>5. old.page = p /\ at.page = new
  BY DEF Pointer
<1> HIDE DEF o1, s
<1>6. CASE Failed(o2)
  <2>1. Keeps(o1, o2)
    BY <1>2, RequestKeeps
  <2>2. Good(o2) /\ LeavesKept(o.pages, o2.pages)
    BY <1>1, <2>1 DEF Keeps
  <2>3. InShape(o2.pages)
    BY <1>1, <1>2, <2>2, ShapeKept
  <2> HIDE DEF o2
  <2> QED BY <1>3, <1>6, <2>2, <2>3 DEF Outcome, s
<1>7. CASE ~Failed(o2)
  <2>1. /\ Good(h) /\ InShape(h.pages)
        /\ new \in Pages \ {p, root_page_num} /\ ~IsLeaf(o1.pages[new])
        /\ IsLeaf(h.pages[p])
        /\ Failed(h) => Halted(h)
        /\ ~Failed(h) =>
             \A q \in Pages :
               h.pages[q] = IF q = p THEN left ELSE IF q = new THEN right ELSE o1.pages[q]
    <3>1. Full(o1.pages[p]) /\ new = o1.num_pages
      BY <1>1
    <3> HIDE DEF at, old
    <3>2. /\ ~Failed(get_page(o1, new))
          /\ h = StoreNode(StoreNode(get_page(o1, new), at, right), old, left)
          /\ left = LeftHalf(o1.pages[p], With(o1, p, c, row), new)
          /\ right = RightHalf(o1.pages[p], With(o1, p, c, row))
      BY <1>4, <1>7
    <3> HIDE DEF h, left, right, all, o2, o3, new, node
    <3>3. /\ Good(h) /\ InShape(h.pages)
          /\ new \in Pages \ {p, root_page_num} /\ ~IsLeaf(o1.pages[new])
          /\ IsLeaf(h.pages[p])
      BY ONLY <1>1, <1>5, <3>1, <3>2, HalvesStored
    <3>4. /\ Failed(h) => Halted(h)
          /\ ~Failed(h) =>
               \A q \in Pages :
                 h.pages[q] = IF q = p THEN left ELSE IF q = new THEN right ELSE o1.pages[q]
      BY ONLY <1>1, <1>5, <3>1, <3>2, HalvesStored
    <3> QED BY <3>3, <3>4
  <2>2. Overfull(all)
    <3>1. /\ Fits(node.cells) /\ Len(node.cells) \in Nat
          /\ all \in Seq(Rows) /\ Len(all) = Len(node.cells) + 1 /\ InOrder(all)
      BY <1>1, <1>4, RowPlaced
    <3>2. Len(node.cells) <= LEAF_NODE_MAX_CELLS /\ LEAF_NODE_MAX_CELLS \in Nat
      BY <3>1, SplitCounts DEF Fits
    <3>3. Len(node.cells) >= LEAF_NODE_MAX_CELLS
      BY <1>1 DEF Full
    <3> HIDE DEF all, node
    <3>4. Len(node.cells) = LEAF_NODE_MAX_CELLS
      BY <3>1, <3>2, <3>3
    <3> QED BY <3>1, <3>4 DEF Overfull
  <2> HIDE DEF new, all, node
  <2>3. /\ IsLeaf(right) /\ right.cells = SecondHalf(all) /\ right.next = node.next
        /\ IsLeaf(left) /\ left.cells = FirstHalf(all) /\ left.next = new
    <3>1. left = LeftHalf(node, all, new) /\ right = RightHalf(node, all) /\ new \in Pages
      BY <2>1
    <3> HIDE DEF left, right
    <3> QED BY <1>2, <2>2, <3>1, HalfNodes
  <2> HIDE DEF h, left, right
  <2>4. /\ Good(r) /\ InShape(r.pages) /\ (Failed(h) => r = h)
        /\ \/ Failed(r) /\ (Halted(r) \/ r.pages = h.pages)
           \/ /\ ~Failed(r)
              /\ \E to \in Pages \ {root_page_num} :
                   ~IsLeaf(h.pages[to]) /\ RootMoved(h.pages, r.pages, to)
    <3>1. IsLeaf(h.pages[root_page_num]) /\ new \in Pages
      BY <2>1
    <3>2. r = create_new_root(h, new)
      OBVIOUS
    <3> HIDE DEF r
    <3> QED BY ONLY <2>1, <3>1, <3>2, LeafRootSplit
  <2>5. s = r
    BY <1>3, <1>7
  <2>b. r = create_new_root(h, new)
    OBVIOUS
  <2> HIDE DEF r
  <2>6. CASE Failed(h)
    <3>1. Halted(r)
      BY <2>1, <2>4, <2>6
    <3>2. Failed(r)
      BY <2>4, <2>6
    <3>3. Outcome(o, p, With(o, p, c, row), r)
      BY <2>4, <3>1, <3>2 DEF Outcome
    <3> QED BY <2>5, <3>2, <3>3 DEF s
  <2>7. CASE ~Failed(h)
    <3>1. SameRows(left.cells, FirstHalf(all)) /\ SameRows(right.cells, SecondHalf(all))
      BY <2>3 DEF SameRows
    <3>2. Divided(o.pages, h.pages, p, new, all)
      <4>1. right.next = o.pages[p].next
        BY <1>1, <2>3 DEF node
      <4>2. \A q \in Pages :
              h.pages[q] = IF q = p THEN left ELSE IF q = new THEN right ELSE o.pages[q]
        BY <1>1, <2>1, <2>7
      <4>3. p \in Pages /\ new \in Pages \ {p, root_page_num} /\ ~IsLeaf(o.pages[new])
        BY <1>1, <1>2, <2>1
      <4> QED BY ONLY <2>3, <3>1, <4>1, <4>2, <4>3, TreeDivided
    <3>3. CASE Failed(r)
      <4>1. Halted(r) \/ r.pages = h.pages
        BY <2>4, <3>3
      <4>2. Outcome(o, p, all, r)
        BY <2>1, <2>2, <2>4, <3>2, <4>1 DEF Outcome
      <4> QED BY <1>4, <2>5, <3>3, <4>2 DEF s, all
    <3>4. CASE ~Failed(r)
      <4>1. PICK to \in Pages \ {root_page_num} :
              ~IsLeaf(h.pages[to]) /\ RootMoved(h.pages, r.pages, to)
        BY <2>4, <3>4
      <4>2. to # new
        BY <2>1, <2>3, <2>7, <4>1
      <4>3. h.pages[to] = o.pages[to] /\ ~IsLeaf(o.pages[to]) /\ ~IsLeaf(o.pages[new])
        BY <1>1, <2>1, <2>7, <4>1, <4>2
      <4>4. /\ IsLeaf(r.pages[to]) /\ r.pages[to].next = new
            /\ SameRows(r.pages[to].cells, FirstHalf(all))
        BY <1>2, <2>1, <2>3, <2>7, <3>1, <4>1 DEF RootMoved
      <4>5. LeafIs(r.pages[new], SecondHalf(all), o.pages[root_page_num].next)
        <5>1. LeafIs(h.pages[new], SecondHalf(all), o.pages[root_page_num].next)
          BY <2>1, <3>2 DEF Divided
        <5> QED BY <2>1, <4>1, <4>2, <5>1 DEF RootMoved, OthersKept, LeafIs
      <4>6. OthersKept(o.pages, r.pages, {root_page_num, to, new})
        <5>1. \A q \in Pages \ {root_page_num, to, new} : h.pages[q] = o.pages[q]
          BY <1>1, <2>1, <2>7
        <5> QED BY <4>1, <5>1 DEF RootMoved, OthersKept
      <4>7. Grew(o.pages, r.pages, to, new, all)
        BY <2>1, <4>1, <4>2, <4>3, <4>4, <4>5, <4>6 DEF Grew, LeafIs, RootMoved
      <4>8. PutUnder(o, all, h, new, r)
        BY <2>1, <2>2, <2>7, <2>b, <3>2 DEF PutUnder
      <4>9. Outcome(o, p, all, r)
        BY <2>1, <2>2, <2>4, <3>4, <4>1, <4>7 DEF Outcome
      <4> QED BY <1>4, <2>5, <4>8, <4>9 DEF s, all
    <3> QED BY <3>3, <3>4
  <2> QED BY <2>6, <2>7
<1> QED BY <1>6, <1>7

\* The outcome of leaf_node_insert().
LEMMA LeafInserted ==
  ASSUME NEW o, NEW p, NEW c, NEW row, Target(o, p, c, row)
  PROVE  Outcome(o, p, With(o, p, c, row), leaf_node_insert(o, p, c, row))
<1> DEFINE o1 == get_page(o, p)
           all == With(o, p, c, row)
           r == leaf_node_insert(o, p, c, row)
           stored == StoreNode(o1, Pointer(o1, p), [o1.pages[p] EXCEPT !.cells = InsertAt(@, c + 1, row)])
<1>1. Target(o1, p, c, row) /\ o1.pages = o.pages
  BY TargetKept
<1>2. r = IF Full(o1.pages[p]) THEN leaf_node_split_and_insert(o1, p, c, row) ELSE stored
  BY DEF leaf_node_insert, Full
<1>3. all = With(o1, p, c, row)
  BY <1>1 DEF With
<1>4. ASSUME NEW s, Outcome(o1, p, all, s) PROVE Outcome(o, p, all, s)
  BY <1>1, <1>4 DEF Outcome
<1>5. CASE Full(o1.pages[p])
  <2> HIDE DEF o1, all, r
  <2>1. Outcome(o1, p, all, leaf_node_split_and_insert(o1, p, c, row))
    BY <1>1, <1>3, <1>5, LeafSplit, RootLeafSplit
  <2> QED BY <1>2, <1>4, <1>5, <2>1 DEF r, all
<1>6. CASE ~Full(o1.pages[p])
  <2>1. stored = StoreNode(o1, Pointer(o1, p), [o1.pages[p] EXCEPT !.cells = With(o1, p, c, row)])
    BY DEF With
  <2>2. Len(o1.pages[p].cells) < LEAF_NODE_MAX_CELLS
    <3>1. Len(o1.pages[p].cells) \in Nat /\ LEAF_NODE_MAX_CELLS \in Nat
      BY <1>1, RowPlaced, SplitCounts
    <3> HIDE DEF o1
    <3> QED BY <1>6, <3>1 DEF Full
  <2>3. Pointer(o1, p).page = p
    BY DEF Pointer
  <2> HIDE DEF o1, all, r, stored
  <2>4. Outcome(o1, p, all, stored)
    BY <1>1, <1>3, <2>1, <2>2, <2>3, RowStored
  <2> QED BY <1>2, <1>4, <1>6, <2>4 DEF r, all
<1> QED BY <1>5, <1>6

-----------------------------------------------------------------------------
(***************************************************************************)
(* The table.                                                              *)
(***************************************************************************)

\* A row put into a bag.
LEMMA BagGrown ==
  ASSUME NEW bag, IsABag(bag), NEW row
  PROVE  LET new == bag (+) SetToBag({row})
         IN /\ IsABag(new) /\ BagToSet(new) = BagToSet(bag) \cup {row}
            /\ \A e : Copies(e, bag) \in Nat
            /\ \A e : Copies(e, new) = IF e = row THEN Copies(e, bag) + 1 ELSE Copies(e, bag)
<1> DEFINE new == bag (+) SetToBag({row})
<1>1. new = [e \in (DOMAIN bag) \cup {row} |->
               (IF e \in DOMAIN bag THEN bag[e] ELSE 0) + (IF e \in {row} THEN 1 ELSE 0)]
  BY DEF (+), SetToBag
<1>2. \A e \in DOMAIN bag : bag[e] \in Nat /\ bag[e] > 0
  BY DEF IsABag
<1> HIDE DEF new
<1>3. \A e \in DOMAIN new : new[e] \in Nat /\ new[e] > 0
  BY <1>1, <1>2
<1>4. IsABag(new)
  BY <1>1, <1>3 DEF IsABag
<1>5. BagToSet(new) = BagToSet(bag) \cup {row}
  BY <1>1 DEF BagToSet
<1>6. \A e : Copies(e, bag) \in Nat
  BY <1>2 DEF Copies, BagIn, BagToSet
<1>7. \A e : Copies(e, new) = IF e = row THEN Copies(e, bag) + 1 ELSE Copies(e, bag)
  BY <1>1, <1>2 DEF Copies, BagIn, BagToSet
<1> QED BY <1>4, <1>5, <1>6, <1>7 DEF new

\* The pages in which a row is to be inserted, and what that leads to.
Inserted(o, row, r) ==
  \/ r = [o EXCEPT !.fault = "exit"]
  \/ \E p \in Pages, c \in Nat : Target(o, p, c, row) /\ Outcome(o, p, With(o, p, c, row), r)

\* table_find() leads to a leaf and a place in it where the row belongs.
LEMMA CursorFound ==
  ASSUME NEW o, Good(o), ~Failed(o), InShape(o.pages), NEW row \in Rows,
         NEW at, at = table_find(o.pages, row.key), at.page \in Pages, IsLeaf(o.pages[at.page])
  PROVE  Target(o, at.page, at.cell, row)
<1> DEFINE root == IsLeaf(o.pages[root_page_num])
           page == IF root THEN root_page_num
                   ELSE internal_node_find(o.pages, root_page_num, row.key)
           cells == o.pages[page].cells
           cell == IF page = INVALID_PAGE_NUM THEN 0 ELSE CellSearch(cells, row.key)
<1>1. at.page = page /\ at.cell = cell
  BY DEF table_find
<1>2. page # root_page_num => Grown(o)
  BY DEF Grown
<1>3. page # INVALID_PAGE_NUM
  BY <1>1, PageNumbers
<1> HIDE DEF page
<1>4. cells \in Seq(Rows) /\ InOrder(cells)
  BY <1>1 DEF InShape, Fits
<1>5. row.key \in Nat
  BY KeysAreNat DEF Rows
<1> DEFINE found == CellSearch(cells, row.key)
<1>6. cell = found
  BY <1>3
<1>7. found \in 0 .. Len(cells) /\ UpTo(cells, found, row.key) /\ FromOn(cells, found, row.key)
  <2> HIDE DEF cells
  <2> QED BY <1>4, <1>5, CellFound DEF found
<1> HIDE DEF cell, found
<1> QED BY <1>1, <1>2, <1>6, <1>7 DEF Target

LEMMA RowInserted ==
  ASSUME NEW o, Good(o), ~Failed(o), InShape(o.pages), NEW row \in Rows,
         NEW r, r = InsertAtCursor(o, table_find(o.pages, row.key), row)
  PROVE  /\ Good(r) /\ InShape(r.pages)
         /\ Inserted(o, row, r)
<1> DEFINE at == table_find(o.pages, row.key)
<1>1. r = IF at.page \in Pages /\ IsLeaf(o.pages[at.page])
          THEN leaf_node_insert(o, at.page, at.cell, row)
          ELSE [o EXCEPT !.fault = "exit"]
  BY DEF InsertAtCursor
<1> HIDE DEF at
<1>2. CASE at.page \in Pages /\ IsLeaf(o.pages[at.page])
  <2>1. Target(o, at.page, at.cell, row)
    BY <1>2, CursorFound DEF at
  <2>2. Outcome(o, at.page, With(o, at.page, at.cell, row), r)
    BY <1>1, <1>2, <2>1, LeafInserted
  <2>3. at.cell \in Nat
    <3>1. at.cell \in 0 .. Len(o.pages[at.page].cells)
      BY <2>1 DEF Target
    <3> QED BY <3>1
  <2> QED BY <1>2, <2>1, <2>2, <2>3 DEF Inserted, Outcome
<1>3. CASE ~(at.page \in Pages /\ IsLeaf(o.pages[at.page]))
  <2>1. r = [o EXCEPT !.fault = "exit"]
    BY <1>1, <1>3
  <2>2. /\ r \in Operations /\ r.pages = o.pages /\ r.num_pages = o.num_pages
    <3>1. o \in Operations
      BY DEF Good
    <3>2. "exit" \in Faults
      BY Zenon DEF Faults
    <3> QED BY <2>1, <3>1, <3>2 DEF Operations
  <2> QED BY <2>1, <2>2 DEF Good, Inserted
<1> QED BY <1>2, <1>3

\* An operation that begins.
LEMMA Begun ==
  ASSUME NEW tree \in [Pages -> Node], NEW used \in 0 .. FILE_PAGES_NUM, Shaped(tree, used)
  PROVE  LET o == Begin(tree, used)
         IN Good(o) /\ ~Failed(o) /\ o.pages = tree /\ o.num_pages = used
<1> DEFINE o == Begin(tree, used)
<1>1. "none" \in Faults
  BY Zenon DEF Faults
<1>2. [p \in Pages |-> 0] \in [Pages -> Nat] /\ <<>> \in Seq(Pages)
  OBVIOUS
<1>3. o = [pages |-> tree, num_pages |-> used, recent |-> <<>>, loads |-> [p \in Pages |-> 0], fault |-> "none"]
  BY DEF Begin
<1>4. o \in Operations
  BY <1>1, <1>2, <1>3 DEF Operations, Node
<1> HIDE DEF o
<1> QED BY <1>3, <1>4 DEF Good, Failed, o

(***************************************************************************)
(* The inductive invariant of TypeOK and LeavesSorted: the tree is well    *)
(* formed enough for every helper to go on, and its leaves are in order.   *)
(***************************************************************************)
IInv == TypeOK /\ Shaped(pages, num_pages) /\ InShape(pages)

LEMMA InitIInv == Init => IInv
<1> SUFFICES ASSUME Init PROVE IInv
  OBVIOUS
<1> DEFINE leaf == [initialize_leaf_node(ZeroPage) EXCEPT !.is_root = TRUE]
<1>1. /\ pages = [p \in Pages |-> IF p = root_page_num THEN leaf ELSE ZeroPage]
      /\ num_pages = 1 /\ stopped = "none" /\ rows = EmptyBag /\ refused = EmptyBag
  BY DEF Init
<1>2. root_page_num \in Pages /\ Pages \subseteq Nat /\ root_page_num = 0
  BY PageNumbers DEF root_page_num
<1>3. 1 \in 0 .. FILE_PAGES_NUM /\ 1 \in 1 .. FILE_PAGES_NUM
  BY PagePointersAssumption DEF PagePointersAssumption
<1>4. /\ leaf \in LeafNode /\ IsLeaf(leaf) /\ leaf.is_root /\ leaf.parent = root_page_num
      /\ leaf.cells = <<>>
  <2> DEFINE empty == initialize_leaf_node(ZeroPage)
  <2>a. ZeroPage.parent = 0
    BY DEF ZeroPage
  <2>b. empty = [type |-> "LEAF", is_root |-> FALSE, parent |-> 0, next |-> 0, cells |-> <<>>]
    BY <2>a DEF initialize_leaf_node
  <2>1. <<>> \in Seq(Rows) /\ FALSE \in BOOLEAN /\ 0 \in Pages
    BY <1>2
  <2>2. empty \in LeafNode /\ empty.type = "LEAF" /\ empty.parent = 0 /\ empty.cells = <<>>
    BY <2>1, <2>b DEF LeafNode
  <2> HIDE DEF empty
  <2>3. ASSUME NEW yes \in BOOLEAN, yes
        PROVE  LET root == [empty EXCEPT !.is_root = yes]
               IN root \in LeafNode /\ root.type = "LEAF" /\ root.is_root /\ root.parent = 0 /\ root.cells = <<>>
    BY <2>2, <2>3 DEF LeafNode
  <2>4. leaf \in LeafNode /\ leaf.type = "LEAF" /\ leaf.is_root /\ leaf.parent = 0 /\ leaf.cells = <<>>
    BY <2>3 DEF empty
  <2> QED BY <1>2, <2>4 DEF IsLeaf
<1>5. ZeroPage \in InternalNode /\ ~IsLeaf(ZeroPage) /\ ~ZeroPage.is_root /\ ZeroPage.parent = root_page_num
  BY <1>2 DEF ZeroPage, InternalNode, IsLeaf
<1> HIDE DEF leaf
<1>6. pages \in [Pages -> LeafNode \cup InternalNode]
  BY <1>1, <1>4, <1>5
<1>7. IsABag(EmptyBag) /\ BagToSet(EmptyBag) = {}
  BY DEF IsABag, EmptyBag, SetToBag, BagToSet
<1>8. TypeOK
  <2>1. "none" \in Faults
    BY Zenon DEF Faults
  <2> QED BY <1>1, <1>3, <1>6, <1>7, <2>1 DEF TypeOK
<1>9. \A p \in Pages : /\ pages[p].parent = root_page_num
                       /\ pages[p].is_root <=> p = root_page_num
                       /\ IsLeaf(pages[p]) <=> p = root_page_num
  BY <1>1, <1>4, <1>5
<1>10. Shaped(pages, num_pages)
  BY <1>1, <1>2, <1>3, <1>9 DEF Shaped
<1>11. InShape(pages)
  <2>1. <<>> \in Seq(Rows) /\ Len(<<>>) = 0 /\ \A i \in DOMAIN <<>> : FALSE
    OBVIOUS
  <2>2. LEAF_NODE_MAX_CELLS \in Nat
    BY SplitCounts
  <2>3. Fits(<<>>)
    BY <2>1, <2>2 DEF Fits, InOrder
  <2> QED BY <1>1, <1>4, <1>9, <2>3 DEF InShape
<1> QED BY <1>8, <1>10, <1>11 DEF IInv

\* The row an insertion is of.
LEMMA RowToInsert ==
  ASSUME NEW key \in Keys, NEW text \in Texts, Insert(key, text)
  PROVE  \E row \in Rows :
           /\ row.key = key /\ AsInserted(row) = row /\ stopped = "none"
           /\ Returned(InsertAtCursor(Begin(pages, num_pages), table_find(pages, row.key), row), row)
<1> DEFINE new(ones) == [key |-> key, text |-> text, ones |-> ones]
<1>1. PICK ones \in Ones :
        Returned(InsertAtCursor(Begin(pages, num_pages), table_find(pages, key), new(ones)), new(ones))
  BY DEF Insert, InsertWith
<1>2. key \in Nat /\ text \in {"short", "long"} /\ ones \in SUBSET {1, 2}
  BY TableAssumption DEF TableAssumption
<1> DEFINE row == new(ones)
<1>3. row \in Rows /\ row.key = key /\ row.text = text
  BY <1>2 DEF Rows
<1>4. AsInserted(row) = row
  BY <1>2, <1>3 DEF AsInserted
<1>5. stopped = "none"
  BY DEF Insert, InsertWith
<1> HIDE DEF new
<1> QED BY <1>1, <1>3, <1>4, <1>5

\* What an insertion does to the variables.
LEMMA InsertStep ==
  ASSUME IInv, NEW key \in Keys, NEW text \in Texts, Insert(key, text)
  PROVE  \E row, r :
           LET o == Begin(pages, num_pages)
           IN /\ row \in Rows /\ AsInserted(row) = row
              /\ Good(o) /\ o.pages = pages
              /\ Good(r) /\ InShape(r.pages) /\ Inserted(o, row, r)
              /\ stopped = "none" /\ Returned(r, row)
<1>7. PICK row \in Rows :
        /\ AsInserted(row) = row /\ stopped = "none"
        /\ Returned(InsertAtCursor(Begin(pages, num_pages), table_find(pages, row.key), row), row)
  BY RowToInsert
<1> DEFINE o == Begin(pages, num_pages)
           r == InsertAtCursor(o, table_find(o.pages, row.key), row)
<1>1. /\ pages \in [Pages -> Node] /\ num_pages \in 0 .. FILE_PAGES_NUM
      /\ Shaped(pages, num_pages) /\ InShape(pages)
  BY DEF IInv, TypeOK, Node
<1>2. Good(o) /\ ~Failed(o) /\ o.pages = pages
  BY <1>1, Begun
<1>4. stopped = "none" /\ Returned(r, row)
  BY <1>2, <1>7
<1> HIDE DEF o, r
<1>5. r = InsertAtCursor(o, table_find(o.pages, row.key), row)
  BY DEF r
<1>6. Good(r) /\ InShape(r.pages) /\ Inserted(o, row, r)
  BY <1>1, <1>2, <1>7, <1>5, RowInserted
<1> QED BY <1>2, <1>4, <1>6, <1>7 DEF o

LEMMA InsertIInv ==
  ASSUME IInv, NEW key \in Keys, NEW text \in Texts, Insert(key, text)
  PROVE  IInv'
<1>1. PICK row, r : /\ row \in Rows /\ Good(r) /\ InShape(r.pages) /\ Returned(r, row)
  BY InsertStep
<1>2. /\ r.pages \in [Pages -> Node] /\ r.num_pages \in 0 .. FILE_PAGES_NUM /\ r.fault \in Faults
      /\ Shaped(r.pages, r.num_pages)
  BY <1>1, OperationFields DEF Good
<1>3. pages' = r.pages /\ num_pages' = r.num_pages
  BY <1>1 DEF Returned
<1>4. stopped' \in Faults
  <2>1. stopped' = r.fault \/ stopped' = "none"
    BY <1>1, Zenon DEF Returned
  <2>2. "none" \in Faults
    BY Zenon DEF Faults
  <2> QED BY <1>2, <2>1, <2>2
<1>5. /\ IsABag(rows) /\ BagToSet(rows) \subseteq Rows
      /\ IsABag(refused) /\ BagToSet(refused) \subseteq Rows
  BY DEF IInv, TypeOK
<1>6. ASSUME NEW bag, IsABag(bag), BagToSet(bag) \subseteq Rows
      PROVE  IsABag(bag (+) SetToBag({row})) /\ BagToSet(bag (+) SetToBag({row})) \subseteq Rows
  <2>1. /\ IsABag(bag (+) SetToBag({row}))
        /\ BagToSet(bag (+) SetToBag({row})) = BagToSet(bag) \cup {row}
    BY <1>6, BagGrown
  <2> QED BY <1>1, <1>6, <2>1
<1>7. /\ rows' = rows \/ rows' = rows (+) SetToBag({row})
      /\ refused' = refused \/ refused' = refused (+) SetToBag({row})
  BY <1>1 DEF Returned
<1>8. TypeOK'
  <2>1. /\ IsABag(rows') /\ BagToSet(rows') \subseteq Rows
        /\ IsABag(refused') /\ BagToSet(refused') \subseteq Rows
    BY <1>5, <1>6, <1>7
  <2> QED BY <1>2, <1>3, <1>4, <2>1 DEF TypeOK, Node
<1> QED BY <1>1, <1>2, <1>3, <1>8 DEF IInv

LEMMA NextIInv == IInv /\ [Next]_vars => IInv'
<1> SUFFICES ASSUME IInv, [Next]_vars PROVE IInv'
  OBVIOUS
<1>1. CASE Next
  BY <1>1, InsertIInv DEF Next
<1>2. CASE UNCHANGED vars
  BY <1>2 DEF vars, IInv, TypeOK
<1> QED BY <1>1, <1>2

LEMMA SortedFromIInv == IInv => LeavesSorted
<1> SUFFICES ASSUME IInv, NEW p \in Leaves PROVE InOrder(pages[p].cells)
  BY DEF LeavesSorted, InOrder
<1>1. num_pages \in 1 .. FILE_PAGES_NUM
  BY DEF IInv, Shaped
<1>2. p \in Pages /\ IsLeaf(pages[p])
  BY <1>1, PagePointersAssumption DEF PagePointersAssumption, Leaves, Allocated, Pages
<1> QED BY <1>2 DEF IInv, InShape, Fits

(* Whatever is inserted and wherever an insertion breaks off, every node   *)
(* keeps to the type its header gives.                                     *)
THEOREM TypeCorrect == Spec => []TypeOK
<1>1. IInv => TypeOK
  BY DEF IInv
<1> QED BY InitIInv, NextIInv, <1>1, PTL DEF Spec

(* The rows of every leaf are in the order of their keys, whatever is      *)
(* inserted in whatever order and wherever an insertion breaks off.        *)
THEOREM LeavesStaySorted == Spec => []LeavesSorted
BY InitIInv, NextIInv, SortedFromIInv, PTL DEF Spec

-----------------------------------------------------------------------------
(***************************************************************************)
(* The leaves taken together: the chain that links them, and the rows they *)
(* hold.                                                                   *)
(***************************************************************************)
\* Two sets with a one-to-one correspondence have as many elements.
LEMMA OneToOne ==
  ASSUME NEW S, NEW T, NEW f \in [S -> T], IsFiniteSet(S),
         \A x, y \in S : f[x] = f[y] => x = y,
         \A t \in T : \E x \in S : f[x] = t
  PROVE  IsFiniteSet(T) /\ Cardinality(T) = Cardinality(S)
<1>1. f \in Bijection(S, T)
  BY DEF Bijection, Injection, Surjection, IsInjective
<1>2. ExistsBijection(S, T)
  BY <1>1 DEF ExistsBijection
<1> QED BY <1>2, FS_Bijection

-----------------------------------------------------------------------------
(***************************************************************************)
(* The chain of leaves.                                                    *)
(***************************************************************************)

\* The leaves of a tree, each once, as they are linked.
Chained(tree, chain) ==
  /\ chain \in Seq(Pages) /\ Len(chain) >= 1 /\ Distinct(chain)
  /\ \A q \in Pages : IsLeaf(tree[q]) <=> Member(q, chain)
  /\ \A i \in 1 .. Len(chain) - 1 : tree[chain[i]].next = chain[i + 1]
  /\ \A i \in 2 .. Len(chain) : chain[i] # root_page_num
  /\ tree[chain[Len(chain)]].next = 0

Chain(tree) == \E chain : Chained(tree, chain)

SameLinks(a, b) ==
  \A q \in Pages : /\ IsLeaf(b[q]) <=> IsLeaf(a[q])
                   /\ IsLeaf(a[q]) => b[q].next = a[q].next

\* The contents of the root are moved to the page left.
Moved(a, left, inner) == [a EXCEPT ![left] = a[root_page_num], ![root_page_num] = inner]

LEMMA ChainElements ==
  ASSUME NEW tree, NEW chain, Chained(tree, chain)
  PROVE  /\ Len(chain) \in Nat \ {0}
         /\ \A i \in 1 .. Len(chain) : chain[i] \in Pages /\ IsLeaf(tree[chain[i]])
         /\ \A i, j \in 1 .. Len(chain) : chain[i] = chain[j] => i = j
<1>1. chain \in Seq(Pages) /\ Len(chain) >= 1 /\ Distinct(chain)
  BY DEF Chained
<1>2. Len(chain) \in Nat \ {0} /\ \A i \in 1 .. Len(chain) : chain[i] \in Pages
  BY <1>1
<1>3. \A i \in 1 .. Len(chain) : Member(chain[i], chain)
  BY DEF Member
<1>4. \A i \in 1 .. Len(chain) : IsLeaf(tree[chain[i]])
  BY <1>2, <1>3 DEF Chained
<1> QED BY <1>1, <1>2, <1>4 DEF Distinct

LEMMA ChainKept ==
  ASSUME NEW a, NEW b, NEW chain, Chained(a, chain), SameLinks(a, b)
  PROVE  Chained(b, chain)
<1> DEFINE n == Len(chain)
<1>1. /\ n \in Nat \ {0}
      /\ \A i \in 1 .. n : chain[i] \in Pages /\ IsLeaf(a[chain[i]])
  BY ChainElements
<1>2. \A i \in 1 .. n : b[chain[i]].next = a[chain[i]].next
  BY <1>1 DEF SameLinks
<1>3. n \in 1 .. n /\ \A i \in 1 .. n - 1 : i \in 1 .. n
  BY <1>1
<1>4. \A q \in Pages : IsLeaf(b[q]) <=> Member(q, chain)
  BY DEF Chained, SameLinks
<1>5. \A i \in 1 .. n - 1 : b[chain[i]].next = chain[i + 1]
  BY <1>2, <1>3 DEF Chained
<1>6. b[chain[n]].next = 0
  BY <1>2, <1>3 DEF Chained
<1> HIDE DEF n
<1> QED BY <1>4, <1>5, <1>6 DEF Chained, n

LEMMA ChainMoved ==
  ASSUME NEW a, a \in [Pages -> Node], NEW chain, Chained(a, chain), IsLeaf(a[root_page_num]),
         NEW left \in Pages \ {root_page_num}, ~IsLeaf(a[left]), NEW inner, ~IsLeaf(inner)
  PROVE  Chain(Moved(a, left, inner))
<1> DEFINE n == Len(chain)
           b == Moved(a, left, inner)
           new == [chain EXCEPT ![1] = left]
<1>1. /\ n \in Nat \ {0}
      /\ \A i \in 1 .. n : chain[i] \in Pages /\ IsLeaf(a[chain[i]])
      /\ \A i, j \in 1 .. n : chain[i] = chain[j] => i = j
  BY ChainElements
<1>2. \A q \in Pages : b[q] = IF q = root_page_num THEN inner
                              ELSE IF q = left THEN a[root_page_num] ELSE a[q]
  BY PageNumbers DEF Moved
<1>3. chain \in Seq(Pages) /\ \A i \in 2 .. n : chain[i] # root_page_num
  BY DEF Chained
<1>4. /\ new \in Seq(Pages) /\ Len(new) = n
      /\ \A i \in 1 .. n : new[i] = IF i = 1 THEN left ELSE chain[i]
  BY <1>1, <1>3
<1>5. chain[1] = root_page_num
  <2>1. Member(root_page_num, chain)
    BY PageNumbers DEF Chained
  <2>2. PICK i \in 1 .. n : chain[i] = root_page_num
    BY <2>1 DEF Member
  <2>3. i = 1
    BY <1>1, <1>3, <2>2
  <2> QED BY <2>2, <2>3
<1> HIDE DEF b, new, n
<1>6. 1 \in 1 .. n /\ n \in 1 .. n /\ \A i \in 1 .. n : i = 1 \/ i \in 2 .. n
  BY <1>1
<1>7. \A i \in 1 .. n : chain[i] # left
  BY <1>1
<1>8. Distinct(new)
  BY <1>1, <1>4, <1>7 DEF Distinct
<1>9. ASSUME NEW q \in Pages PROVE IsLeaf(b[q]) <=> Member(q, new)
  <2>1. IsLeaf(a[q]) <=> \E i \in 1 .. n : chain[i] = q
    BY DEF Chained, Member, n
  <2>2. Member(q, new) <=> \E i \in 1 .. n : new[i] = q
    BY <1>4 DEF Member
  <2>3. CASE q = left
    BY <1>2, <1>4, <1>6, <2>2, <2>3
  <2>4. CASE q = root_page_num
    <3>1. \A i \in 1 .. n : new[i] # q
      BY <1>3, <1>4, <1>6, <2>4
    <3> QED BY <1>2, <2>2, <2>4, <3>1
  <2>5. CASE q # left /\ q # root_page_num
    <3>1. \A i \in 1 .. n : new[i] = q <=> chain[i] = q
      BY <1>4, <1>5, <2>5
    <3> QED BY <1>2, <2>1, <2>2, <2>5, <3>1
  <2> QED BY <2>3, <2>4, <2>5
<1>10. \A i \in 1 .. n : b[new[i]] = a[chain[i]]
  BY <1>1, <1>2, <1>3, <1>4, <1>5, <1>6, <1>7
<1>11. \A i \in 1 .. n - 1 : a[chain[i]].next = chain[i + 1]
  BY DEF Chained, n
<1>12. a[chain[n]].next = 0
  BY DEF Chained, n
<1>13. \A i \in 1 .. n - 1 : i \in 1 .. n /\ i + 1 \in 2 .. n /\ i + 1 # 1 /\ i + 1 \in 1 .. n
  BY <1>1
<1>14. \A i \in 1 .. n - 1 : b[new[i]].next = new[i + 1]
  BY <1>4, <1>10, <1>11, <1>13
<1>15. \A i \in 2 .. n : new[i] # root_page_num
  <2>1. \A i \in 2 .. n : i \in 1 .. n /\ i # 1
    BY <1>1
  <2> QED BY <1>3, <1>4, <2>1
<1>16. n >= 1
  BY <1>1
<1>17. Chained(b, new)
  BY <1>4, <1>6, <1>8, <1>9, <1>10, <1>12, <1>14, <1>15, <1>16 DEF Chained
<1> QED BY <1>17 DEF Chain, b

\* The leaf p is divided, the page new being linked after it.
LEMMA ChainDivided ==
  ASSUME NEW a, NEW b, NEW chain, Chained(a, chain), NEW p \in Pages, IsLeaf(a[p]),
         NEW new \in Pages, NEW all, Divided(a, b, p, new, all)
  PROVE  Chain(b)
<1> DEFINE n == Len(chain)
<1>1. /\ n \in Nat \ {0}
      /\ \A i \in 1 .. n : chain[i] \in Pages /\ IsLeaf(a[chain[i]])
      /\ \A i, j \in 1 .. n : chain[i] = chain[j] => i = j
  BY ChainElements
<1>2. /\ chain \in Seq(Pages) /\ \A i \in 2 .. n : chain[i] # root_page_num
      /\ \A i \in 1 .. n - 1 : a[chain[i]].next = chain[i + 1]
      /\ a[chain[n]].next = 0
      /\ \A q \in Pages : IsLeaf(a[q]) <=> \E i \in 1 .. n : chain[i] = q
  BY DEF Chained, Member
<1>3. /\ new # p /\ new # root_page_num /\ ~IsLeaf(a[new])
      /\ IsLeaf(b[p]) /\ b[p].next = new
      /\ IsLeaf(b[new]) /\ b[new].next = a[p].next
      /\ \A q \in Pages \ {p, new} : /\ IsLeaf(b[q]) <=> IsLeaf(a[q])
                                     /\ IsLeaf(a[q]) => b[q].next = a[q].next
  BY DEF Divided, LeafIs, OthersKept
<1>4. PICK k \in 1 .. n : chain[k] = p
  BY <1>2
<1> DEFINE to == InsertAt(chain, k + 1, new)
<1> HIDE DEF n
<1>5. /\ to \in Seq(Pages) /\ Len(to) = n + 1
      /\ \A i \in 1 .. k : to[i] = chain[i]
      /\ to[k + 1] = new
      /\ \A i \in k + 2 .. n + 1 : to[i] = chain[i - 1]
  <2> DEFINE m == k + 1
  <2>1. m \in 1 .. Len(chain) + 1
    BY <1>1 DEF n
  <2>2. m - 1 = k /\ m + 1 = k + 2
    BY <1>1
  <2>3. to = InsertAt(chain, m, new)
    OBVIOUS
  <2> HIDE DEF m, to
  <2>4. /\ to \in Seq(Pages) /\ Len(to) = n + 1
        /\ \A i \in 1 .. m - 1 : to[i] = chain[i]
        /\ to[m] = new
        /\ \A i \in m + 1 .. n + 1 : to[i] = chain[i - 1]
    <3>1. chain \in Seq(Pages) /\ new \in Pages
      BY <1>2
    <3>2. /\ InsertAt(chain, m, new) \in Seq(Pages)
          /\ Len(InsertAt(chain, m, new)) = Len(chain) + 1
          /\ \A i \in 1 .. m - 1 : InsertAt(chain, m, new)[i] = chain[i]
          /\ InsertAt(chain, m, new)[m] = new
          /\ \A i \in m + 1 .. Len(chain) + 1 : InsertAt(chain, m, new)[i] = chain[i - 1]
      BY ONLY <2>1, <3>1, InsertAtElements
    <3> QED BY <2>3, <3>2 DEF n
  <2> QED BY <2>2, <2>4 DEF m
<1> HIDE DEF to
<1>6. /\ \A i \in 1 .. n + 1 : i \in 1 .. k \/ i = k + 1 \/ i \in k + 2 .. n + 1
      /\ \A i \in 1 .. k : i \in 1 .. n
      /\ \A i \in k + 2 .. n + 1 : i - 1 \in k + 1 .. n /\ i - 1 \in 1 .. n
      /\ k + 1 \in 1 .. n + 1
  BY <1>1
<1>7. \A i \in 1 .. n : chain[i] # new
  BY <1>1, <1>3
<1>8. Distinct(to)
  <2>1. ASSUME NEW i \in 1 .. n + 1, NEW j \in 1 .. n + 1, to[i] = to[j] PROVE i = j
    <3>1. CASE i \in 1 .. k
      <4>1. CASE j \in 1 .. k
        BY <1>1, <1>5, <1>6, <2>1, <3>1, <4>1
      <4>2. CASE j = k + 1
        BY <1>5, <1>6, <1>7, <2>1, <3>1, <4>2
      <4>3. CASE j \in k + 2 .. n + 1
        <5>1. chain[i] = chain[j - 1] /\ i \in 1 .. n /\ j - 1 \in 1 .. n
          BY <1>5, <1>6, <2>1, <3>1, <4>3
        <5>2. i = j - 1
          BY <1>1, <5>1
        <5> QED BY <1>1, <3>1, <4>3, <5>2
      <4> QED BY <1>6, <4>1, <4>2, <4>3
    <3>2. CASE i = k + 1
      <4>1. to[j] = new
        BY <1>5, <2>1, <3>2
      <4>2. ~(j \in 1 .. k)
        BY <1>5, <1>6, <1>7, <4>1
      <4>3. ~(j \in k + 2 .. n + 1)
        BY <1>5, <1>6, <1>7, <4>1
      <4> QED BY <1>6, <3>2, <4>2, <4>3
    <3>3. CASE i \in k + 2 .. n + 1
      <4>1. CASE j \in 1 .. k
        <5>1. chain[j] = chain[i - 1] /\ j \in 1 .. n /\ i - 1 \in 1 .. n
          BY <1>5, <1>6, <2>1, <3>3, <4>1
        <5>2. j = i - 1
          BY <1>1, <5>1
        <5> QED BY <1>1, <3>3, <4>1, <5>2
      <4>2. CASE j = k + 1
        BY <1>5, <1>6, <1>7, <2>1, <3>3, <4>2
      <4>3. CASE j \in k + 2 .. n + 1
        <5>1. i - 1 = j - 1
          BY <1>1, <1>5, <1>6, <2>1, <3>3, <4>3
        <5>2. i \in Int /\ j \in Int
          BY <1>1
        <5> QED BY <5>1, <5>2
      <4> QED BY <1>6, <4>1, <4>2, <4>3
    <3> QED BY <1>6, <3>1, <3>2, <3>3
  <2> QED BY <1>5, <2>1 DEF Distinct
<1>9. ASSUME NEW q \in Pages PROVE IsLeaf(b[q]) <=> Member(q, to)
  <2>1. Member(q, to) <=> \E i \in 1 .. n + 1 : to[i] = q
    BY <1>5 DEF Member
  <2>2. CASE q = new
    BY <1>3, <1>5, <1>6, <2>1, <2>2
  <2>3. CASE q # new
    <3>1. IsLeaf(b[q]) <=> IsLeaf(a[q])
      BY <1>3, <2>3
    <3>2. ASSUME NEW i \in 1 .. n, chain[i] = q PROVE \E j \in 1 .. n + 1 : to[j] = q
      <4>1. CASE i <= k
        <5>1. i \in 1 .. k /\ i \in 1 .. n + 1
          BY <1>1, <4>1
        <5> QED BY <1>5, <3>2, <5>1
      <4>2. CASE i > k
        <5>1. i + 1 \in k + 2 .. n + 1 /\ i + 1 \in 1 .. n + 1 /\ (i + 1) - 1 = i
          BY <1>1, <4>2
        <5>2. to[i + 1] = q
          BY <1>5, <3>2, <5>1
        <5> QED BY <5>1, <5>2
      <4> QED BY <1>1, <4>1, <4>2
    <3>3. ASSUME NEW j \in 1 .. n + 1, to[j] = q PROVE \E i \in 1 .. n : chain[i] = q
      BY <1>5, <1>6, <2>3, <3>3
    <3> QED BY <1>2, <2>1, <3>1, <3>2, <3>3
  <2> QED BY <2>2, <2>3
<1>10. \A i \in 1 .. n : i # k => b[chain[i]].next = a[chain[i]].next
  BY <1>1, <1>3, <1>4, <1>7
<1>11. ASSUME NEW i \in 1 .. n PROVE b[to[i]].next = to[i + 1]
  <2>1. CASE i < k
    <3>1. i \in 1 .. k /\ i + 1 \in 1 .. k /\ i \in 1 .. n - 1 /\ i # k
      BY <1>1, <2>1
    <3> QED BY <1>2, <1>5, <1>10, <3>1
  <2>2. CASE i = k
    <3>1. k \in 1 .. k
      BY <1>1
    <3> QED BY <1>3, <1>4, <1>5, <2>2, <3>1
  <2>3. CASE i = k + 1
    <3>1. k \in 1 .. n - 1 /\ k + 2 \in k + 2 .. n + 1 /\ (k + 2) - 1 = k + 1 /\ i + 1 = k + 2
      BY <1>1, <2>3
    <3>2. to[i] = new /\ to[i + 1] = chain[k + 1]
      BY <1>5, <2>3, <3>1
    <3> QED BY <1>2, <1>3, <1>4, <3>1, <3>2
  <2>4. CASE i > k + 1
    <3>1. /\ i \in k + 2 .. n + 1 /\ i + 1 \in k + 2 .. n + 1 /\ (i + 1) - 1 = i
          /\ i - 1 \in 1 .. n - 1 /\ i - 1 \in 1 .. n /\ i - 1 # k /\ (i - 1) + 1 = i
      BY <1>1, <2>4
    <3>2. to[i] = chain[i - 1] /\ to[i + 1] = chain[i]
      BY <1>5, <3>1
    <3> QED BY <1>2, <1>10, <3>1, <3>2
  <2> QED BY <1>1, <2>1, <2>2, <2>3, <2>4
<1>12. b[to[n + 1]].next = 0
  <2>1. CASE k = n
    BY <1>2, <1>3, <1>4, <1>5, <2>1
  <2>2. CASE k # n
    <3>1. n + 1 \in k + 2 .. n + 1 /\ (n + 1) - 1 = n /\ n \in 1 .. n
      BY <1>1, <2>2
    <3>2. to[n + 1] = chain[n]
      BY <1>5, <3>1
    <3> QED BY <1>2, <1>10, <2>2, <3>1, <3>2
  <2> QED BY <2>1, <2>2
<1>13. ASSUME NEW i \in 2 .. n + 1 PROVE to[i] # root_page_num
  <2>1. CASE i \in 1 .. k
    <3>1. i \in 2 .. n
      BY <1>1, <2>1
    <3> QED BY <1>2, <1>5, <2>1, <3>1
  <2>2. CASE i = k + 1
    BY <1>3, <1>5, <2>2
  <2>3. CASE i \in k + 2 .. n + 1
    <3>1. i - 1 \in 2 .. n
      BY <1>1, <2>3
    <3> QED BY <1>2, <1>5, <2>3, <3>1
  <2> QED BY <1>1, <2>1, <2>2, <2>3
<1>14. n + 1 >= 1 /\ (n + 1) - 1 = n
  BY <1>1
<1>15. Chained(b, to)
  BY <1>5, <1>8, <1>9, <1>11, <1>12, <1>13, <1>14 DEF Chained
<1> QED BY <1>15 DEF Chain

\* The root, once its contents have moved, is divided like any leaf.
LEMMA GrownAsDivided ==
  ASSUME NEW a \in [Pages -> Node], NEW b, IsLeaf(a[root_page_num]),
         NEW left \in Pages, NEW new \in Pages, NEW all, Grew(a, b, left, new, all)
  PROVE  LET m == Moved(a, left, b[root_page_num])
         IN /\ IsLeaf(m[left]) /\ m[left].cells = a[root_page_num].cells
            /\ Divided(m, b, left, new, all)
<1> DEFINE m == Moved(a, left, b[root_page_num])
<1>1. /\ left # root_page_num /\ new # left /\ new # root_page_num
      /\ ~IsLeaf(a[left]) /\ ~IsLeaf(a[new]) /\ ~IsLeaf(b[root_page_num])
      /\ OthersKept(a, b, {root_page_num, left, new})
      /\ LeafIs(b[left], FirstHalf(all), new)
      /\ LeafIs(b[new], SecondHalf(all), a[root_page_num].next)
  BY DEF Grew
<1>2. \A q \in Pages : m[q] = IF q = root_page_num THEN b[root_page_num]
                              ELSE IF q = left THEN a[root_page_num] ELSE a[q]
  BY <1>1, PageNumbers DEF Moved
<1> HIDE DEF m
<1>3. m[left] = a[root_page_num] /\ ~IsLeaf(m[new])
  BY <1>1, <1>2
<1>4. OthersKept(m, b, {left, new})
  <2>1. ASSUME NEW q \in Pages \ {left, new}
        PROVE  /\ IsLeaf(b[q]) <=> IsLeaf(m[q])
               /\ IsLeaf(m[q]) => b[q].cells = m[q].cells /\ b[q].next = m[q].next
    BY <1>1, <1>2 DEF OthersKept
  <2> QED BY <2>1 DEF OthersKept
<1>5. Divided(m, b, left, new, all)
  <2>1. new \in Pages \ {left, root_page_num}
    BY <1>1
  <2> QED BY <1>1, <1>3, <1>4, <2>1 DEF Divided
<1> QED BY <1>3, <1>5 DEF m

LEMMA ChainGrown ==
  ASSUME NEW a \in [Pages -> Node], NEW b, Chain(a), IsLeaf(a[root_page_num]),
         NEW left \in Pages, NEW new \in Pages, NEW all, Grew(a, b, left, new, all)
  PROVE  Chain(b)
<1> DEFINE m == Moved(a, left, b[root_page_num])
<1>1. PICK chain : Chained(a, chain)
  BY DEF Chain
<1>2. left \in Pages \ {root_page_num} /\ ~IsLeaf(a[left]) /\ ~IsLeaf(b[root_page_num])
  BY DEF Grew
<1>3. PICK moved : Chained(m, moved)
  <2>1. Chain(m)
    BY <1>1, <1>2, ChainMoved
  <2> QED BY <2>1 DEF Chain
<1>4. IsLeaf(m[left]) /\ Divided(m, b, left, new, all)
  BY GrownAsDivided
<1> HIDE DEF m
<1> QED BY <1>3, <1>4, ChainDivided

\* Whatever an insertion does, one chain of leaves becomes another.
LEMMA ChainInserted ==
  ASSUME NEW o, Good(o), Chain(o.pages), NEW p \in Pages, IsLeaf(o.pages[p]), NEW all,
         NEW r, Outcome(o, p, all, r), ~Halted(r)
  PROVE  Chain(r.pages)
<1> DEFINE a == o.pages
           b == r.pages
<1>1. a \in [Pages -> Node]
  BY OperationFields DEF Good
<1>2. \/ LeavesKept(a, b)
      \/ Took(a, b, p, all)
      \/ \E new \in Pages : Divided(a, b, p, new, all)
      \/ /\ p = root_page_num
         /\ \E left, new \in Pages : Grew(a, b, left, new, all)
  BY DEF Outcome
<1> HIDE DEF a, b
<1>3. Chain(a) /\ IsLeaf(a[p])
  BY DEF a
<1>4. PICK chain : Chained(a, chain)
  BY <1>3 DEF Chain
<1>5. CASE LeavesKept(a, b)
  <2>1. SameLinks(a, b)
    BY <1>5 DEF LeavesKept, SameLinks
  <2> QED BY <1>4, <2>1, ChainKept DEF Chain, b
<1>6. CASE Took(a, b, p, all)
  <2>1. SameLinks(a, b)
    BY <1>3, <1>6 DEF Took, OthersKept, LeafIs, SameLinks
  <2> QED BY <1>4, <2>1, ChainKept DEF Chain, b
<1>7. CASE \E new \in Pages : Divided(a, b, p, new, all)
  BY <1>3, <1>4, <1>7, ChainDivided DEF b
<1>8. CASE p = root_page_num /\ \E left, new \in Pages : Grew(a, b, left, new, all)
  BY <1>1, <1>3, <1>8, ChainGrown DEF b
<1> QED BY <1>2, <1>5, <1>6, <1>7, <1>8

\* Every leaf is so many links from the first of the chain.
LEMMA LinksFollowed ==
  ASSUME NEW chain, Chained(pages, chain), NEW n \in 0 .. Len(chain)
  PROVE  LeafAfter(chain[1], n) = IF n = Len(chain) THEN 0 ELSE chain[n + 1]
<1> DEFINE N == Len(chain)
           At(i) == IF i = N THEN 0 ELSE chain[i + 1]
           Turn(f, i) == IF i = 0 THEN chain[1]
                         ELSE IF IsLeaf(pages[f[i - 1]]) THEN pages[f[i - 1]].next ELSE 0
           leaf == CHOOSE f : f = [i \in 0 .. n |-> Turn(f, i)]
<1>1. /\ N \in Nat \ {0}
      /\ \A i \in 1 .. N : IsLeaf(pages[chain[i]])
      /\ \A i \in 1 .. N - 1 : pages[chain[i]].next = chain[i + 1]
      /\ pages[chain[N]].next = 0
  BY ChainElements DEF Chained
<1>2. n \in 0 .. N
  OBVIOUS
<1> HIDE DEF N
<1>3. At(0) = chain[1]
  BY <1>1
<1>4. ASSUME NEW i \in 1 .. n
      PROVE  At(i) = IF IsLeaf(pages[At(i - 1)]) THEN pages[At(i - 1)].next ELSE 0
  <2>1. i - 1 # N /\ (i - 1) + 1 = i /\ i \in 1 .. N
    BY <1>1, <1>2
  <2>2. At(i - 1) = chain[i] /\ IsLeaf(pages[chain[i]])
    BY <1>1, <2>1
  <2>3. pages[chain[i]].next = At(i)
    <3>1. CASE i = N
      BY <1>1, <3>1
    <3>2. CASE i # N
      <4>1. i \in 1 .. N - 1
        BY <1>1, <2>1, <3>2
      <4> QED BY <1>1, <3>2, <4>1
    <3> QED BY <3>1, <3>2
  <2> QED BY <2>2, <2>3
<1> HIDE DEF At
<1>5. \A i \in 0 .. n : i = 0 \/ (i \in 1 .. n /\ i - 1 \in 0 .. n /\ i # 0)
  BY <1>1, <1>2
<1>6. \E f : f = [i \in 0 .. n |-> Turn(f, i)]
  <2> DEFINE g == [i \in 0 .. n |-> At(i)]
  <2>1. \A i \in 0 .. n : g[i] = At(i)
    OBVIOUS
  <2>2. \A i \in 0 .. n : g[i] = Turn(g, i)
    <3> HIDE DEF g
    <3> QED BY <1>3, <1>4, <1>5, <2>1
  <2>3. g = [i \in 0 .. n |-> Turn(g, i)]
    <3>1. \A i \in 0 .. n : At(i) = Turn(g, i)
      <4> HIDE DEF g, Turn
      <4> QED BY <2>1, <2>2
    <3> HIDE DEF Turn
    <3> QED BY <3>1
  <2> QED BY <2>3
<1>7. leaf = [i \in 0 .. n |-> Turn(leaf, i)]
  <2> HIDE DEF Turn
  <2> QED BY <1>6
<1>8. \A i \in 0 .. n : leaf[i] = Turn(leaf, i)
  <2> HIDE DEF Turn, leaf
  <2> QED BY <1>7
<1>9. leaf[n] = At(n)
  <2> HIDE DEF leaf
  <2> DEFINE T == {i \in 0 .. n : leaf[i] = At(i)}
  <2>1. n \in Nat /\ 0 \in 0 .. n
    BY <1>1, <1>2
  <2>2. 0 \in T
    BY <1>3, <1>8, <2>1
  <2>3. ASSUME NEW i \in 0 .. n, i \in T, i + 1 <= n PROVE i + 1 \in T
    <3>1. i + 1 \in 1 .. n /\ i + 1 \in 0 .. n /\ (i + 1) - 1 = i /\ i + 1 # 0
      BY <1>1, <1>2, <2>3
    <3>2. leaf[i] = At(i)
      BY <2>3
    <3>3. leaf[i + 1] = IF IsLeaf(pages[leaf[i]]) THEN pages[leaf[i]].next ELSE 0
      BY <1>8, <3>1
    <3>4. At(i + 1) = IF IsLeaf(pages[At(i)]) THEN pages[At(i)].next ELSE 0
      BY <1>4, <3>1
    <3> QED BY <3>1, <3>2, <3>3, <3>4
  <2> HIDE DEF T
  <2>4. \A i \in 0 .. n : i \in T
    BY <2>1, <2>2, <2>3, InductionTo
  <2>5. n \in T
    BY <2>1, <2>4
  <2> QED BY <2>5 DEF T
<1>10. LeafAfter(chain[1], n) = leaf[n]
  BY DEF LeafAfter
<1> QED BY <1>9, <1>10 DEF At, N

\* Only a page that was handed out is a leaf.
LEMMA LeafPages ==
  ASSUME IInv
  PROVE  \A q : q \in Leaves <=> q \in Pages /\ IsLeaf(pages[q])
<1>1. /\ num_pages \in 1 .. FILE_PAGES_NUM
      /\ \A q \in Pages : q >= num_pages => ~IsLeaf(pages[q])
  BY DEF IInv, Shaped
<1>2. FILE_PAGES_NUM \in Nat
  BY PagePointersAssumption DEF PagePointersAssumption
<1>3. \A q : q \in Allocated <=> q \in Pages /\ ~(q >= num_pages)
  BY <1>1, <1>2 DEF Allocated, Pages
<1> QED BY <1>1, <1>3 DEF Leaves

\* So the chain is what LeavesChained says.
LEMMA LinkedAsChained ==
  ASSUME IInv, Chain(pages)
  PROVE  LeavesChained
<1>1. PICK chain : Chained(pages, chain)
  BY DEF Chain
<1> DEFINE N == Len(chain)
           head == chain[1]
<1>2. /\ N \in Nat \ {0}
      /\ \A i \in 1 .. N : chain[i] \in Pages /\ IsLeaf(pages[chain[i]])
      /\ \A i, j \in 1 .. N : chain[i] = chain[j] => i = j
  BY <1>1, ChainElements
<1>3. /\ \A i \in 1 .. N - 1 : pages[chain[i]].next = chain[i + 1]
      /\ pages[chain[N]].next = 0
      /\ \A q \in Pages : IsLeaf(pages[q]) <=> \E i \in 1 .. N : chain[i] = q
  BY <1>1 DEF Chained, Member
<1>4. \A q : q \in Leaves <=> q \in Pages /\ IsLeaf(pages[q])
  BY LeafPages
<1>5. \A n \in 0 .. N : LeafAfter(head, n) = IF n = N THEN 0 ELSE chain[n + 1]
  BY <1>1, LinksFollowed
<1> HIDE DEF N
<1>6. \A q : q \in Leaves <=> \E i \in 1 .. N : chain[i] = q
  BY <1>2, <1>3, <1>4
<1>7. Cardinality(Leaves) = N
  <2> DEFINE f == [i \in 1 .. N |-> chain[i]]
  <2>1. f \in [1 .. N -> Leaves]
    BY <1>6
  <2>2. \A i, j \in 1 .. N : f[i] = f[j] => i = j
    BY <1>2
  <2>3. \A q \in Leaves : \E i \in 1 .. N : f[i] = q
    BY <1>6
  <2>4. IsFiniteSet(1 .. N) /\ Cardinality(1 .. N) = N
    BY <1>2, FS_Interval
  <2> HIDE DEF f
  <2> QED BY <2>1, <2>2, <2>3, <2>4, OneToOne
<1>8. head \in Leaves
  <2>1. 1 \in 1 .. N
    BY <1>2
  <2> QED BY <1>6, <2>1
<1>9. head \notin Successors
  <2>1. SUFFICES ASSUME NEW p \in Leaves, pages[p].next = head, head # 0 PROVE FALSE
    BY DEF Successors
  <2>2. PICK i \in 1 .. N : chain[i] = p
    BY <1>6
  <2>3. i # N
    BY <1>3, <2>1, <2>2
  <2>4. i \in 1 .. N - 1 /\ i + 1 \in 1 .. N /\ 1 \in 1 .. N /\ i + 1 # 1
    BY <1>2, <2>3
  <2>5. chain[i + 1] = chain[1]
    BY <1>3, <2>1, <2>2, <2>4
  <2> QED BY <1>2, <2>4, <2>5
<1>10. \A n \in 0 .. N - 1 : n # N /\ n \in 0 .. N /\ n + 1 \in 1 .. N
  BY <1>2
<1>11. Leaves = {LeafAfter(head, n) : n \in 0 .. N - 1}
  <2>1. ASSUME NEW q \in Leaves PROVE \E n \in 0 .. N - 1 : q = LeafAfter(head, n)
    <3>1. PICK i \in 1 .. N : chain[i] = q
      BY <1>6
    <3>2. i - 1 \in 0 .. N - 1 /\ (i - 1) + 1 = i
      BY <1>2
    <3> QED BY <1>5, <1>10, <3>1, <3>2
  <2>2. ASSUME NEW n \in 0 .. N - 1 PROVE LeafAfter(head, n) \in Leaves
    BY <1>5, <1>6, <1>10
  <2> QED BY <2>1, <2>2
<1>12. LeafAfter(head, N) = 0
  <2>1. N \in 0 .. N
    BY <1>2
  <2> QED BY <1>5, <2>1
<1> QED BY <1>7, <1>8, <1>9, <1>11, <1>12 DEF LeavesChained

-----------------------------------------------------------------------------
(***************************************************************************)
(* An insertion after which the table can go on: it reached a leaf, and    *)
(* broke off only because the file was full.                               *)
(***************************************************************************)

LEMMA GoesOn ==
  ASSUME IInv, NEW key \in Keys, NEW text \in Texts, Insert(key, text), stopped' = "none"
  PROVE  \E row, r, p, c :
           LET o == Begin(pages, num_pages)
           IN /\ row \in Rows /\ AsInserted(row) = row
              /\ Good(o) /\ o.pages = pages /\ ~Halted(r)
              /\ Target(o, p, c, row) /\ Outcome(o, p, With(o, p, c, row), r)
              /\ stopped = "none" /\ Returned(r, row)
<1> DEFINE o == Begin(pages, num_pages)
<1>1. PICK row, r :
        /\ row \in Rows /\ AsInserted(row) = row
        /\ Good(o) /\ o.pages = pages
        /\ Good(r) /\ InShape(r.pages) /\ Inserted(o, row, r)
        /\ stopped = "none" /\ Returned(r, row)
  BY InsertStep
<1> HIDE DEF o
<1>2. stopped' = IF r.fault = "out_of_range" THEN "none" ELSE r.fault
  BY <1>1, Zenon DEF Returned
<1>3. ~Halted(r)
  BY <1>2, Zenon DEF Halted
<1>4. r # [o EXCEPT !.fault = "exit"]
  <2>1. SUFFICES ASSUME r = [o EXCEPT !.fault = "exit"] PROVE FALSE
    OBVIOUS
  <2>2. o \in Operations
    BY <1>1 DEF Good
  <2>3. r.fault = "exit"
    BY <2>1, <2>2 DEF Operations
  <2> QED BY <1>2, <2>3, Zenon
<1>5. PICK p, c : Target(o, p, c, row) /\ Outcome(o, p, With(o, p, c, row), r)
  BY <1>1, <1>4 DEF Inserted
<1> QED BY <1>1, <1>3, <1>5 DEF o

(***************************************************************************)
(* The inductive invariant of LeavesChained.                               *)
(***************************************************************************)
ChainInv == stopped = "none" => Chain(pages)

LEMMA InitChain == Init => ChainInv
<1> SUFFICES ASSUME Init PROVE Chain(pages)
  BY DEF ChainInv
<1> DEFINE leaf == [initialize_leaf_node(ZeroPage) EXCEPT !.is_root = TRUE]
<1>1. \A q \in Pages : pages[q] = IF q = root_page_num THEN leaf ELSE ZeroPage
  BY DEF Init
<1>2. IsLeaf(leaf) /\ leaf.next = 0
  <2> DEFINE empty == initialize_leaf_node(ZeroPage)
  <2>1. empty = [type |-> "LEAF", is_root |-> FALSE, parent |-> ZeroPage.parent, next |-> 0, cells |-> <<>>]
    BY DEF initialize_leaf_node
  <2> HIDE DEF empty
  <2>2. empty.type = "LEAF" /\ empty.next = 0
    BY <2>1
  <2>3. ASSUME NEW yes PROVE LET root == [empty EXCEPT !.is_root = yes]
                             IN root.type = "LEAF" /\ root.next = 0
    BY <2>1, <2>2
  <2>4. leaf.type = "LEAF" /\ leaf.next = 0
    BY <2>3 DEF empty
  <2> QED BY <2>4 DEF IsLeaf
<1>3. ~IsLeaf(ZeroPage)
  BY DEF ZeroPage, IsLeaf
<1> HIDE DEF leaf
<1> DEFINE chain == <<root_page_num>>
<1>4. chain \in Seq(Pages) /\ Len(chain) = 1 /\ chain[1] = root_page_num
  BY PageNumbers
<1> HIDE DEF chain
<1>5. \A i \in 1 .. 1 : i = 1
  OBVIOUS
<1>6. Distinct(chain)
  BY <1>4, <1>5 DEF Distinct
<1>7. \A q \in Pages : IsLeaf(pages[q]) <=> Member(q, chain)
  BY <1>1, <1>2, <1>3, <1>4, <1>5 DEF Member
<1>8. /\ \A i \in 1 .. 1 - 1 : FALSE
      /\ \A i \in 2 .. 1 : FALSE
  OBVIOUS
<1>9. pages[chain[1]].next = 0
  BY <1>1, <1>2, <1>4, PageNumbers
<1>10. Chained(pages, chain)
  BY <1>4, <1>6, <1>7, <1>8, <1>9 DEF Chained
<1> QED BY <1>10 DEF Chain

LEMMA NextChain == IInv /\ ChainInv /\ [Next]_vars => ChainInv'
<1> SUFFICES ASSUME IInv, ChainInv, [Next]_vars, stopped' = "none" PROVE Chain(pages')
  BY DEF ChainInv, Chain, Chained, IsLeaf
<1>1. CASE Next
  <2>1. PICK key \in Keys, text \in Texts : Insert(key, text)
    BY <1>1 DEF Next
  <2> DEFINE o == Begin(pages, num_pages)
  <2>2. PICK row, r, p, c :
          /\ row \in Rows /\ Good(o) /\ o.pages = pages /\ ~Halted(r)
          /\ Target(o, p, c, row) /\ Outcome(o, p, With(o, p, c, row), r)
          /\ stopped = "none" /\ Returned(r, row)
    BY <2>1, GoesOn
  <2> HIDE DEF o
  <2>3. Chain(o.pages)
    BY <2>2 DEF ChainInv
  <2>4. p \in Pages /\ IsLeaf(o.pages[p])
    BY <2>2 DEF Target
  <2>5. Chain(r.pages)
    BY <2>2, <2>3, <2>4, ChainInserted
  <2> QED BY <2>2, <2>5 DEF Returned
<1>2. CASE UNCHANGED vars
  BY <1>2 DEF vars, ChainInv
<1> QED BY <1>1, <1>2

(* The next_leaf links form one chain through every leaf, whatever is      *)
(* inserted and wherever an insertion breaks off because the file is full. *)
THEOREM ChainStaysWhole == Spec => []LeavesChained
<1>1. IInv /\ ChainInv => LeavesChained
  BY LinkedAsChained DEF ChainInv, LeavesChained
<1> QED BY InitIInv, NextIInv, InitChain, NextChain, <1>1, PTL DEF Spec

-----------------------------------------------------------------------------
(***************************************************************************)
(* The rows the leaves hold, counted.                                      *)
(***************************************************************************)

\* A row is in cell i of the leaf p of a tree.  (While a row is added to a
\* full leaf, it is thought of as one with a cell more.)
HasAt(tree, p, i, row) ==
  IsLeaf(tree[p]) /\ i <= Len(tree[p].cells) /\ AsInserted(tree[p].cells[i]) = row

Cells == Pages \X (1 .. LEAF_NODE_MAX_CELLS + 1)

PlacesIn(tree, row) == {place \in Cells : HasAt(tree, place[1], place[2], row)}

Count(tree, row) == Cardinality(PlacesIn(tree, row))

LEMMA PlacesFinite ==
  ASSUME NEW tree, NEW row
  PROVE  IsFiniteSet(PlacesIn(tree, row)) /\ Count(tree, row) \in Nat
<1>1. 0 \in Int /\ FILE_PAGES_NUM - 1 \in Int /\ 1 \in Int /\ LEAF_NODE_MAX_CELLS + 1 \in Int
  BY PagePointersAssumption, SplitCounts DEF PagePointersAssumption
<1>2. IsFiniteSet(Pages) /\ IsFiniteSet(1 .. LEAF_NODE_MAX_CELLS + 1)
  BY <1>1, FS_Interval DEF Pages
<1>3. IsFiniteSet(Cells)
  BY <1>2, FS_Product DEF Cells
<1>4. IsFiniteSet(PlacesIn(tree, row))
  BY <1>3, FS_Subset DEF PlacesIn
<1> QED BY <1>4, FS_CardinalityType DEF Count

\* The tree b holds a row where f puts the places at which a does.
LEMMA PlacesMoved ==
  ASSUME NEW a, NEW row, NEW T, NEW f \in [PlacesIn(a, row) -> T],
         \A x, y \in PlacesIn(a, row) : f[x] = f[y] => x = y,
         \A t \in T : \E x \in PlacesIn(a, row) : f[x] = t
  PROVE  IsFiniteSet(T) /\ Cardinality(T) = Count(a, row)
BY PlacesFinite, OneToOne DEF Count

LEMMA CountKept ==
  ASSUME NEW a, NEW b, NEW row,
         \A q \in Pages : IsLeaf(b[q]) <=> IsLeaf(a[q]),
         \A q \in Pages : IsLeaf(a[q]) => b[q].cells = a[q].cells
  PROVE  Count(b, row) = Count(a, row)
<1>1. ASSUME NEW place \in Cells
      PROVE  HasAt(b, place[1], place[2], row) <=> HasAt(a, place[1], place[2], row)
  <2>1. place[1] \in Pages
    BY DEF Cells
  <2> QED BY <2>1 DEF HasAt
<1>2. PlacesIn(b, row) = PlacesIn(a, row)
  BY <1>1 DEF PlacesIn
<1> QED BY <1>2 DEF Count

LEMMA CellOf ==
  ASSUME NEW place \in Cells
  PROVE  /\ place[1] \in Pages /\ place[2] \in 1 .. LEAF_NODE_MAX_CELLS + 1
         /\ place = <<place[1], place[2]>>
BY DEF Cells

\* The root's rows are in the page left instead.
LEMMA CountMoved ==
  ASSUME NEW a \in [Pages -> Node], IsLeaf(a[root_page_num]),
         NEW left \in Pages \ {root_page_num}, ~IsLeaf(a[left]), NEW inner, ~IsLeaf(inner),
         NEW row
  PROVE  Count(Moved(a, left, inner), row) = Count(a, row)
<1> DEFINE b == Moved(a, left, inner)
           S == PlacesIn(a, row)
           T == PlacesIn(b, row)
           f == [s \in S |-> IF s[1] = root_page_num THEN <<left, s[2]>> ELSE s]
<1>1. \A q \in Pages : b[q] = IF q = root_page_num THEN inner
                              ELSE IF q = left THEN a[root_page_num] ELSE a[q]
  BY PageNumbers DEF Moved
<1>2. root_page_num \in Pages
  BY PageNumbers
<1> HIDE DEF b
<1>3. \A q \in Pages, i \in 1 .. LEAF_NODE_MAX_CELLS + 1 :
        /\ <<q, i>> \in S <=> HasAt(a, q, i, row)
        /\ <<q, i>> \in T <=> HasAt(b, q, i, row)
  BY DEF PlacesIn, Cells
<1>4. \A q \in Pages, i \in 1 .. LEAF_NODE_MAX_CELLS + 1 :
        /\ ~HasAt(b, root_page_num, i, row) /\ ~HasAt(a, left, i, row)
        /\ HasAt(b, left, i, row) <=> HasAt(a, root_page_num, i, row)
        /\ q # root_page_num /\ q # left => (HasAt(b, q, i, row) <=> HasAt(a, q, i, row))
  BY <1>1, <1>2 DEF HasAt
<1>5. \A s \in S : /\ s[1] \in Pages /\ s[2] \in 1 .. LEAF_NODE_MAX_CELLS + 1
                   /\ s = <<s[1], s[2]>> /\ HasAt(a, s[1], s[2], row)
  BY DEF PlacesIn, Cells
<1>6. \A t \in T : /\ t[1] \in Pages /\ t[2] \in 1 .. LEAF_NODE_MAX_CELLS + 1
                   /\ t = <<t[1], t[2]>> /\ HasAt(b, t[1], t[2], row)
  BY DEF PlacesIn, Cells
<1> HIDE DEF S, T
<1>7. \A s \in S : f[s] \in T /\ s[1] # left
  BY <1>2, <1>3, <1>4, <1>5
<1>8. \A x, y \in S : f[x] = f[y] => x = y
  <2>1. ASSUME NEW x \in S, NEW y \in S, f[x] = f[y] PROVE x = y
    <3>1. /\ f[x][1] = (IF x[1] = root_page_num THEN left ELSE x[1]) /\ f[x][2] = x[2]
          /\ f[y][1] = (IF y[1] = root_page_num THEN left ELSE y[1]) /\ f[y][2] = y[2]
      BY <1>5
    <3> HIDE DEF f
    <3>2. x[1] = y[1] /\ x[2] = y[2]
      BY <1>7, <2>1, <3>1
    <3> QED BY <1>5, <3>2
  <2> QED BY <2>1
<1>9. ASSUME NEW t \in T PROVE \E s \in S : f[s] = t
  <2>1. CASE t[1] = left
    <3> DEFINE s == <<root_page_num, t[2]>>
    <3>1. s \in S
      BY <1>2, <1>3, <1>4, <1>6, <2>1
    <3>2. f[s] = t
      BY <1>6, <2>1, <3>1
    <3> QED BY <3>1, <3>2
  <2>2. CASE t[1] # left
    <3>1. t \in S /\ t[1] # root_page_num
      BY <1>3, <1>4, <1>6, <2>2
    <3> QED BY <3>1
  <2> QED BY <2>1, <2>2
<1>10. f \in [S -> T]
  BY <1>7
<1> HIDE DEF f
<1>11. Cardinality(T) = Count(a, row)
  BY <1>8, <1>9, <1>10, PlacesMoved DEF S
<1> QED BY <1>11 DEF T, b, Count

\* A row to be put into cell c of the leaf p, and the cells with it.
Taking(a, p, c, new, all) ==
  /\ p \in Pages /\ a[p] \in Node /\ IsLeaf(a[p]) /\ Fits(a[p].cells)
  /\ c \in 0 .. Len(a[p].cells) /\ new \in Rows /\ AsInserted(new) = new
  /\ all = InsertAt(a[p].cells, c + 1, new)

\* A leaf has taken a row.
LEMMA CountTaken ==
  ASSUME NEW a, NEW b, NEW p, NEW c, NEW new, NEW all,
         Taking(a, p, c, new, all), Took(a, b, p, all), NEW row
  PROVE  Count(b, row) = Count(a, row) + (IF row = new THEN 1 ELSE 0)
<1> USE DEF Taking
<1> DEFINE cells == a[p].cells
           n == Len(cells)
           M == LEAF_NODE_MAX_CELLS
           S == PlacesIn(a, row)
           T == PlacesIn(b, row)
           k == c + 1
           here == <<p, k>>
           f == [s \in S |-> IF s[1] = p /\ s[2] > c THEN <<p, s[2] + 1>> ELSE s]
<1>1. cells \in Seq(Rows) /\ n \in Nat /\ n <= M /\ M \in Nat
  BY SplitCounts DEF Fits
<1>2. c \in 0 .. n /\ k \in 1 .. n + 1 /\ k \in 1 .. M + 1
  BY <1>1
<1>3. /\ Len(all) = n + 1 /\ all[k] = new
      /\ \A i \in 1 .. k - 1 : all[i] = cells[i]
      /\ \A i \in k + 1 .. n + 1 : all[i] = cells[i - 1]
  <2>1. cells \in Seq(Rows) /\ new \in Rows /\ k \in 1 .. Len(cells) + 1
    BY <1>1, <1>2
  <2> HIDE DEF cells, k, n, M
  <2>2. /\ InsertAt(cells, k, new) \in Seq(Rows)
        /\ Len(InsertAt(cells, k, new)) = Len(cells) + 1
        /\ InsertAt(cells, k, new)[k] = new
        /\ \A i \in 1 .. k - 1 : InsertAt(cells, k, new)[i] = cells[i]
        /\ \A i \in k + 1 .. Len(cells) + 1 : InsertAt(cells, k, new)[i] = cells[i - 1]
    BY ONLY <2>1, InsertAtElements
  <2>3. all = InsertAt(cells, k, new)
    BY DEF cells, k
  <2> QED BY <2>2, <2>3 DEF n
<1>4. /\ IsLeaf(b[p]) /\ Len(b[p].cells) = n + 1
      /\ \A i \in 1 .. n + 1 : AsInserted(b[p].cells[i]) = AsInserted(all[i])
      /\ \A q \in Pages \ {p} : /\ IsLeaf(b[q]) <=> IsLeaf(a[q])
                                /\ IsLeaf(a[q]) => b[q].cells = a[q].cells
  BY <1>3 DEF Took, LeafIs, SameRows, OthersKept
<1>5. \A i \in 1 .. M + 1 :
        /\ HasAt(a, p, i, row) <=> i <= n /\ AsInserted(cells[i]) = row
        /\ HasAt(b, p, i, row) <=> i <= n + 1 /\ AsInserted(all[i]) = row
  <2>1. ASSUME NEW i \in 1 .. M + 1
        PROVE  HasAt(b, p, i, row) <=> i <= n + 1 /\ AsInserted(all[i]) = row
    <3>1. i <= n + 1 => i \in 1 .. n + 1
      BY <1>1
    <3> HIDE DEF n, cells, M
    <3> QED BY <1>4, <3>1 DEF HasAt
  <2> QED BY <2>1 DEF HasAt
<1>6. \A q \in Pages \ {p} : \A i \in 1 .. M + 1 : HasAt(b, q, i, row) <=> HasAt(a, q, i, row)
  BY <1>4 DEF HasAt
<1> HIDE DEF cells, n, M, k
<1>7. /\ \A i \in 1 .. M + 1 : i <= c => (HasAt(b, p, i, row) <=> HasAt(a, p, i, row))
      /\ \A i \in 1 .. M + 1 : i > c /\ HasAt(a, p, i, row) => i + 1 \in 1 .. M + 1 /\ HasAt(b, p, i + 1, row)
      /\ \A i \in 1 .. M + 1 : i > k /\ HasAt(b, p, i, row) => i - 1 \in 1 .. M + 1 /\ HasAt(a, p, i - 1, row)
      /\ HasAt(b, p, k, row) <=> row = new
  <2>1. k = c + 1
    BY DEF k
  <2>2. ASSUME NEW i \in 1 .. M + 1, i <= c PROVE HasAt(b, p, i, row) <=> HasAt(a, p, i, row)
    <3>1. i \in 1 .. k - 1 /\ i <= n /\ i <= n + 1
      BY <1>1, <1>2, <2>1, <2>2
    <3> QED BY <1>3, <1>5, <3>1
  <2>3. ASSUME NEW i \in 1 .. M + 1, i > c, HasAt(a, p, i, row)
        PROVE  i + 1 \in 1 .. M + 1 /\ HasAt(b, p, i + 1, row)
    <3>1. i <= n /\ AsInserted(cells[i]) = row
      BY <1>5, <2>3
    <3>2. i + 1 \in 1 .. M + 1 /\ i + 1 \in k + 1 .. n + 1 /\ (i + 1) - 1 = i /\ i + 1 <= n + 1
      BY <1>1, <1>2, <2>1, <2>3, <3>1
    <3>3. all[i + 1] = cells[i]
      BY <1>3, <3>2
    <3> QED BY <1>5, <3>1, <3>2, <3>3
  <2>4. ASSUME NEW i \in 1 .. M + 1, i > k, HasAt(b, p, i, row)
        PROVE  i - 1 \in 1 .. M + 1 /\ HasAt(a, p, i - 1, row)
    <3>1. i <= n + 1 /\ AsInserted(all[i]) = row
      BY <1>5, <2>4
    <3>2. i - 1 \in 1 .. M + 1 /\ i \in k + 1 .. n + 1 /\ i - 1 <= n
      BY <1>1, <1>2, <2>1, <2>4, <3>1
    <3>3. all[i] = cells[i - 1]
      BY <1>3, <3>2
    <3> QED BY <1>5, <3>1, <3>2, <3>3
  <2>5. HasAt(b, p, k, row) <=> row = new
    <3>1. k <= n + 1
      BY <1>1, <1>2
    <3> QED BY <1>2, <1>3, <1>5, <3>1
  <2> QED BY <2>2, <2>3, <2>4, <2>5
<1>8. \A q \in Pages, i \in 1 .. M + 1 :
        /\ <<q, i>> \in S <=> HasAt(a, q, i, row)
        /\ <<q, i>> \in T <=> HasAt(b, q, i, row)
  BY DEF PlacesIn, Cells, M
<1>9. \A s \in S : /\ s[1] \in Pages /\ s[2] \in 1 .. M + 1
                   /\ s = <<s[1], s[2]>> /\ HasAt(a, s[1], s[2], row)
  BY DEF PlacesIn, Cells, M
<1>10. \A t \in T : /\ t[1] \in Pages /\ t[2] \in 1 .. M + 1
                    /\ t = <<t[1], t[2]>> /\ HasAt(b, t[1], t[2], row)
  BY DEF PlacesIn, Cells, M
<1> HIDE DEF S, T
<1>11. c \in Nat /\ k = c + 1
  BY <1>1, <1>2 DEF k
<1>12. ASSUME NEW s \in S PROVE f[s] \in T \ {here}
  <2>1. CASE s[1] = p /\ s[2] > c
    <3>1. s[2] + 1 \in 1 .. M + 1 /\ HasAt(b, p, s[2] + 1, row)
      BY <1>7, <1>9, <2>1
    <3>2. <<p, s[2] + 1>> \in T
      BY <1>8, <3>1
    <3>3. s[2] + 1 # k
      BY <1>9, <1>11, <2>1
    <3> QED BY <2>1, <3>2, <3>3
  <2>2. CASE s[1] = p /\ ~(s[2] > c)
    <3>1. s[2] <= c /\ s[2] # k
      BY <1>9, <1>11, <2>2
    <3>2. s \in T
      BY <1>7, <1>8, <1>9, <2>2, <3>1
    <3>3. s # here
      BY <3>1
    <3> QED BY <2>2, <3>2, <3>3
  <2>3. CASE s[1] # p
    <3>1. s \in T
      BY <1>6, <1>8, <1>9, <2>3
    <3>2. s # here
      BY <2>3
    <3> QED BY <2>3, <3>1, <3>2
  <2> QED BY <2>1, <2>2, <2>3
<1>13. ASSUME NEW x \in S, NEW y \in S, f[x] = f[y] PROVE x = y
  <2>1. /\ f[x][1] = x[1] /\ f[x][2] = (IF x[1] = p /\ x[2] > c THEN x[2] + 1 ELSE x[2])
        /\ f[y][1] = y[1] /\ f[y][2] = (IF y[1] = p /\ y[2] > c THEN y[2] + 1 ELSE y[2])
    BY <1>9
  <2> HIDE DEF f
  <2>2. x[1] = y[1]
    BY <1>13, <2>1
  <2>3. x[2] \in Int /\ y[2] \in Int
    BY <1>1, <1>9
  <2>4. x[2] = y[2]
    BY <1>11, <1>13, <2>1, <2>2, <2>3
  <2> QED BY <1>9, <2>2, <2>4
<1>14. ASSUME NEW t \in T \ {here} PROVE \E s \in S : f[s] = t
  <2>1. CASE t[1] = p /\ t[2] > c
    <3> DEFINE s == <<p, t[2] - 1>>
    <3>1. t[2] # k
      BY <1>10, <2>1
    <3>2. t[2] > k /\ t[2] \in Int
      BY <1>1, <1>10, <1>11, <2>1, <3>1
    <3>3. t[2] - 1 \in 1 .. M + 1 /\ HasAt(a, p, t[2] - 1, row)
      BY <1>7, <1>10, <2>1, <3>2
    <3>4. s \in S
      BY <1>8, <3>3
    <3>5. t[2] - 1 > c /\ (t[2] - 1) + 1 = t[2]
      BY <1>11, <3>2
    <3>6. f[s] = t
      BY <1>10, <2>1, <3>4, <3>5
    <3> QED BY <3>4, <3>6
  <2>2. CASE t[1] = p /\ ~(t[2] > c)
    <3>1. t[2] <= c
      BY <1>1, <1>10, <1>11, <2>2
    <3>2. t \in S
      BY <1>7, <1>8, <1>10, <2>2, <3>1
    <3> QED BY <2>2, <3>2
  <2>3. CASE t[1] # p
    <3>1. t \in S
      BY <1>6, <1>8, <1>10, <2>3
    <3> QED BY <2>3, <3>1
  <2> QED BY <2>1, <2>2, <2>3
<1>15. f \in [S -> T \ {here}]
  BY <1>12
<1> HIDE DEF f
<1>16. Cardinality(T \ {here}) = Count(a, row)
  BY <1>13, <1>14, <1>15, PlacesMoved DEF S
<1>17. here \in T <=> row = new
  <2>1. k \in 1 .. M + 1
    BY <1>2 DEF M
  <2> QED BY <1>7, <1>8, <2>1
<1>18. /\ IsFiniteSet(T) /\ Cardinality(T) \in Nat /\ Count(a, row) \in Nat
       /\ Cardinality(T) = Count(b, row)
  BY PlacesFinite DEF T, Count
<1>19. Cardinality(T \ {here}) = IF here \in T THEN Cardinality(T) - 1 ELSE Cardinality(T)
  BY <1>18, FS_RemoveElement
<1> HIDE DEF here
<1> QED BY <1>16, <1>17, <1>18, <1>19

\* The cells of a leaf are divided between it and the page new.
Halved(a, b, p, new) ==
  /\ p \in Pages /\ new \in Pages /\ new # p
  /\ IsLeaf(a[p]) /\ ~IsLeaf(a[new]) /\ Overfull(a[p].cells)
  /\ OthersKept(a, b, {p, new})
  /\ IsLeaf(b[p]) /\ SameRows(b[p].cells, FirstHalf(a[p].cells))
  /\ IsLeaf(b[new]) /\ SameRows(b[new].cells, SecondHalf(a[p].cells))

LEMMA CountDivided ==
  ASSUME NEW a, NEW b, NEW p, NEW new, Halved(a, b, p, new), NEW row
  PROVE  Count(b, row) = Count(a, row)
<1> USE DEF Halved
<1> DEFINE all == a[p].cells
           L == LEFT_SPLIT_COUNT
           N == LEAF_NODE_MAX_CELLS + 1
           S == PlacesIn(a, row)
           T == PlacesIn(b, row)
           f == [s \in S |-> IF s[1] = p /\ s[2] > L THEN <<new, s[2] - L>> ELSE s]
<1>1. L \in Nat /\ N \in Nat /\ L \in 1 .. N - 1
  BY SplitCounts
<1>2. /\ Len(all) = N /\ Len(FirstHalf(all)) = L /\ Len(SecondHalf(all)) = N - L
      /\ \A i \in 1 .. L : FirstHalf(all)[i] = all[i]
      /\ \A i \in 1 .. N - L : SecondHalf(all)[i] = all[L + i]
  <2>1. all \in Seq(Rows) /\ InOrder(all) /\ Len(all) = LEAF_NODE_MAX_CELLS + 1
    BY DEF Overfull
  <2> HIDE DEF all
  <2>2. /\ Len(FirstHalf(all)) = LEFT_SPLIT_COUNT
        /\ Len(SecondHalf(all)) = LEAF_NODE_MAX_CELLS + 1 - LEFT_SPLIT_COUNT
        /\ \A i \in 1 .. Len(FirstHalf(all)) : FirstHalf(all)[i] = all[i]
        /\ \A i \in 1 .. Len(SecondHalf(all)) : SecondHalf(all)[i] = all[LEFT_SPLIT_COUNT + i]
    BY ONLY <2>1, HalvesFit
  <2> DEFINE first == FirstHalf(all)
             second == SecondHalf(all)
  <2>3. Len(first) = L /\ Len(second) = N - L
    <3>1. Len(first) = L
      BY <2>2
    <3>2. Len(second) = N - L
      BY <2>2, SplitCounts
    <3> QED BY <3>1, <3>2
  <2>4. /\ \A i \in 1 .. Len(first) : first[i] = all[i]
        /\ \A i \in 1 .. Len(second) : second[i] = all[L + i]
    BY <2>2
  <2> HIDE DEF first, second, L, N
  <2>5. /\ \A i \in 1 .. L : first[i] = all[i]
        /\ \A i \in 1 .. N - L : second[i] = all[L + i]
    BY <2>3, <2>4
  <2> QED BY <2>1, <2>3, <2>5 DEF first, second, N
<1>3. /\ Len(b[p].cells) = L /\ Len(b[new].cells) = N - L
      /\ \A i \in 1 .. L : AsInserted(b[p].cells[i]) = AsInserted(all[i])
      /\ \A i \in 1 .. N - L : AsInserted(b[new].cells[i]) = AsInserted(all[L + i])
  <2> HIDE DEF all, L, N
  <2> QED BY <1>2 DEF SameRows, all
<1>4. \A i \in 1 .. N :
        /\ HasAt(a, p, i, row) <=> AsInserted(all[i]) = row
        /\ HasAt(b, p, i, row) <=> i <= L /\ AsInserted(all[i]) = row
        /\ HasAt(b, new, i, row) <=> i <= N - L /\ AsInserted(all[L + i]) = row
        /\ ~HasAt(a, new, i, row)
  <2> SUFFICES ASSUME NEW i \in 1 .. N
               PROVE  /\ HasAt(a, p, i, row) <=> AsInserted(all[i]) = row
                      /\ HasAt(b, p, i, row) <=> i <= L /\ AsInserted(all[i]) = row
                      /\ HasAt(b, new, i, row) <=> i <= N - L /\ AsInserted(all[L + i]) = row
                      /\ ~HasAt(a, new, i, row)
    OBVIOUS
  <2>1. i <= N /\ (i <= L => i \in 1 .. L) /\ (i <= N - L => i \in 1 .. N - L)
    BY <1>1
  <2> HIDE DEF L, N
  <2>2. HasAt(a, p, i, row) <=> AsInserted(all[i]) = row
    BY <1>2, <2>1 DEF HasAt
  <2> HIDE DEF all
  <2>3. HasAt(b, p, i, row) <=> i <= L /\ AsInserted(all[i]) = row
    BY <1>3, <2>1 DEF HasAt
  <2>4. HasAt(b, new, i, row) <=> i <= N - L /\ AsInserted(all[L + i]) = row
    BY <1>3, <2>1 DEF HasAt
  <2>5. ~HasAt(a, new, i, row)
    BY DEF HasAt
  <2> QED BY <2>2, <2>3, <2>4, <2>5
<1>5. \A q \in Pages \ {p, new} : \A i \in 1 .. N : HasAt(b, q, i, row) <=> HasAt(a, q, i, row)
  BY DEF HasAt, OthersKept
<1> HIDE DEF all, L, N
<1>6. /\ \A i \in 1 .. N : i <= L => (HasAt(b, p, i, row) <=> HasAt(a, p, i, row))
      /\ \A i \in 1 .. N : i > L => ~HasAt(b, p, i, row)
      /\ \A i \in 1 .. N : i > L /\ HasAt(a, p, i, row) => i - L \in 1 .. N /\ HasAt(b, new, i - L, row)
      /\ \A i \in 1 .. N : HasAt(b, new, i, row) => i + L \in 1 .. N /\ i + L > L /\ HasAt(a, p, i + L, row)
  <2>1. \A i \in 1 .. N : i > L => ~(i <= L)
    BY <1>1
  <2>2. ASSUME NEW i \in 1 .. N, i > L, HasAt(a, p, i, row)
        PROVE  i - L \in 1 .. N /\ HasAt(b, new, i - L, row)
    <3>1. i - L \in 1 .. N /\ i - L <= N - L /\ L + (i - L) = i
      BY <1>1, <2>2
    <3> QED BY <1>4, <2>2, <3>1
  <2>3. ASSUME NEW i \in 1 .. N, HasAt(b, new, i, row)
        PROVE  i + L \in 1 .. N /\ i + L > L /\ HasAt(a, p, i + L, row)
    <3>1. i <= N - L /\ AsInserted(all[L + i]) = row
      BY <1>4, <2>3
    <3>2. i + L \in 1 .. N /\ i + L > L /\ L + i = i + L
      BY <1>1, <3>1
    <3> QED BY <1>4, <3>1, <3>2
  <2> QED BY <1>4, <2>1, <2>2, <2>3
<1>7. \A q \in Pages, i \in 1 .. N :
        /\ <<q, i>> \in S <=> HasAt(a, q, i, row)
        /\ <<q, i>> \in T <=> HasAt(b, q, i, row)
  BY DEF PlacesIn, Cells, N
<1>8. \A s \in S : /\ s[1] \in Pages /\ s[2] \in 1 .. N
                   /\ s = <<s[1], s[2]>> /\ HasAt(a, s[1], s[2], row)
  BY DEF PlacesIn, Cells, N
<1>9. \A t \in T : /\ t[1] \in Pages /\ t[2] \in 1 .. N
                   /\ t = <<t[1], t[2]>> /\ HasAt(b, t[1], t[2], row)
  BY DEF PlacesIn, Cells, N
<1> HIDE DEF S, T
<1>10. \A s \in S : s[1] # new
  BY <1>4, <1>8
<1>11. ASSUME NEW s \in S PROVE f[s] \in T
  <2>1. CASE s[1] = p /\ s[2] > L
    <3>1. s[2] - L \in 1 .. N /\ HasAt(b, new, s[2] - L, row)
      BY <1>6, <1>8, <2>1
    <3> QED BY <1>7, <2>1, <3>1
  <2>2. CASE s[1] = p /\ ~(s[2] > L)
    <3>1. s[2] <= L
      BY <1>1, <1>8, <2>2
    <3>2. s \in T
      BY <1>6, <1>7, <1>8, <2>2, <3>1
    <3> QED BY <2>2, <3>2
  <2>3. CASE s[1] # p
    <3>1. s \in T
      BY <1>5, <1>7, <1>8, <1>10, <2>3
    <3> QED BY <2>3, <3>1
  <2> QED BY <2>1, <2>2, <2>3
<1>12. ASSUME NEW x \in S, NEW y \in S, f[x] = f[y] PROVE x = y
  <2>1. /\ f[x][1] = (IF x[1] = p /\ x[2] > L THEN new ELSE x[1])
        /\ f[x][2] = (IF x[1] = p /\ x[2] > L THEN x[2] - L ELSE x[2])
        /\ f[y][1] = (IF y[1] = p /\ y[2] > L THEN new ELSE y[1])
        /\ f[y][2] = (IF y[1] = p /\ y[2] > L THEN y[2] - L ELSE y[2])
    BY <1>8
  <2> HIDE DEF f
  <2>2. x[1] = y[1] /\ (x[1] = p => (x[2] > L <=> y[2] > L))
    BY <1>10, <1>12, <2>1
  <2>3. x[2] \in Int /\ y[2] \in Int
    BY <1>1, <1>8
  <2>4. x[2] = y[2]
    BY <1>1, <1>12, <2>1, <2>2, <2>3
  <2> QED BY <1>8, <2>2, <2>4
<1>13. ASSUME NEW t \in T PROVE \E s \in S : f[s] = t
  <2>1. CASE t[1] = new
    <3> DEFINE s == <<p, t[2] + L>>
    <3>1. t[2] + L \in 1 .. N /\ t[2] + L > L /\ HasAt(a, p, t[2] + L, row)
      BY <1>6, <1>9, <2>1
    <3>2. s \in S
      BY <1>7, <3>1
    <3>3. (t[2] + L) - L = t[2]
      BY <1>1, <1>9
    <3>4. f[s] = t
      BY <1>9, <2>1, <3>1, <3>2, <3>3
    <3> QED BY <3>2, <3>4
  <2>2. CASE t[1] = p
    <3>1. ~(t[2] > L)
      BY <1>6, <1>9, <2>2
    <3>2. t[2] <= L
      BY <1>1, <1>9, <3>1
    <3>3. t \in S
      BY <1>6, <1>7, <1>9, <2>2, <3>2
    <3> QED BY <3>1, <3>3
  <2>3. CASE t[1] # new /\ t[1] # p
    <3>1. t[1] \in Pages \ {p, new} /\ t[2] \in 1 .. N /\ HasAt(b, t[1], t[2], row)
      BY <1>9, <2>3
    <3>2. HasAt(a, t[1], t[2], row)
      BY <1>5, <3>1
    <3>3. t \in S
      BY <1>7, <1>9, <3>1, <3>2
    <3> QED BY <2>3, <3>3
  <2> QED BY <2>1, <2>2, <2>3
<1>14. f \in [S -> T]
  BY <1>11
<1> HIDE DEF f
<1>15. Cardinality(T) = Count(a, row)
  <2>1. /\ f \in [PlacesIn(a, row) -> T]
        /\ \A x, y \in PlacesIn(a, row) : f[x] = f[y] => x = y
        /\ \A t \in T : \E x \in PlacesIn(a, row) : f[x] = t
    BY ONLY <1>12, <1>13, <1>14 DEF S
  <2> QED BY ONLY <2>1, PlacesMoved
<1> QED BY <1>15 DEF T, Count

\* A leaf is a leaf whatever its cells.
LEMMA CellsReplaced ==
  ASSUME NEW node \in Node, IsLeaf(node), NEW cells
  PROVE  LET full == [node EXCEPT !.cells = cells]
         IN IsLeaf(full) /\ full.next = node.next /\ full.cells = cells
<1>1. node \in LeafNode
  BY NodeFields
<1> QED BY <1>1 DEF LeafNode, IsLeaf

\* A full leaf has taken a row and been divided.
LEMMA CountSplit ==
  ASSUME NEW a, NEW b, NEW p, NEW c, NEW new, NEW all, Taking(a, p, c, new, all), Overfull(all),
         NEW to \in Pages, Divided(a, b, p, to, all), NEW row
  PROVE  Count(b, row) = Count(a, row) + (IF row = new THEN 1 ELSE 0)
<1> DEFINE full == [a[p] EXCEPT !.cells = all]
           m == [q \in Pages |-> IF q = p THEN full ELSE a[q]]
<1>0. p \in Pages
  BY DEF Taking
<1>1. IsLeaf(full) /\ full.next = a[p].next /\ full.cells = all
  BY CellsReplaced DEF Taking
<1> HIDE DEF full
<1>2. m[p] = full /\ \A q \in Pages \ {p} : m[q] = a[q]
  BY <1>0
<1> HIDE DEF m
<1>3. Took(a, m, p, all)
  <2>1. SameRows(full.cells, all)
    BY <1>1 DEF SameRows
  <2> QED BY <1>1, <1>2, <2>1 DEF Took, OthersKept, LeafIs
<1>4. Count(m, row) = Count(a, row) + (IF row = new THEN 1 ELSE 0)
  BY <1>3, CountTaken
<1>5. /\ to # p /\ ~IsLeaf(a[to]) /\ OthersKept(a, b, {p, to})
      /\ IsLeaf(b[p]) /\ SameRows(b[p].cells, FirstHalf(all))
      /\ IsLeaf(b[to]) /\ SameRows(b[to].cells, SecondHalf(all))
  BY DEF Divided, LeafIs
<1>6. IsLeaf(m[p]) /\ m[p].cells = all /\ ~IsLeaf(m[to])
  BY <1>1, <1>2, <1>5
<1>7. OthersKept(m, b, {p, to})
  BY <1>2, <1>5 DEF OthersKept
<1>8. Halved(m, b, p, to)
  BY <1>0, <1>5, <1>6, <1>7 DEF Halved
<1>9. Count(b, row) = Count(m, row)
  BY <1>8, CountDivided
<1> QED BY <1>4, <1>9

\* An insertion adds its row to those the leaves hold, or, if it breaks off,
\* may leave them as they were.
LEMMA CountInserted ==
  ASSUME NEW o, NEW p, NEW c, NEW new, Target(o, p, c, new), AsInserted(new) = new,
         NEW r, Outcome(o, p, With(o, p, c, new), r), ~Halted(r), NEW row
  PROVE  \/ Count(r.pages, row) = Count(o.pages, row) + (IF row = new THEN 1 ELSE 0)
         \/ Failed(r) /\ Count(r.pages, row) = Count(o.pages, row)
<1> DEFINE a == o.pages
           b == r.pages
           all == With(o, p, c, new)
           Grown1 == Count(b, row) = Count(a, row) + (IF row = new THEN 1 ELSE 0)
<1>1. a \in [Pages -> Node] /\ p \in Pages /\ IsLeaf(a[p])
  BY OperationFields DEF Target, Good
<1>2. Taking(a, p, c, new, all)
  BY <1>1 DEF Target, InShape, Taking, With
<1>3. \/ Failed(r) /\ LeavesKept(a, b)
      \/ Took(a, b, p, all)
      \/ Overfull(all) /\ \E to \in Pages : Divided(a, b, p, to, all)
      \/ p = root_page_num /\ Overfull(all) /\ \E left, to \in Pages : Grew(a, b, left, to, all)
  BY DEF Outcome
<1> HIDE DEF a, b, all
<1>4. CASE Failed(r) /\ LeavesKept(a, b)
  <2>1. Count(b, row) = Count(a, row)
    BY <1>4, CountKept DEF LeavesKept
  <2> QED BY <1>4, <2>1 DEF a, b
<1>5. CASE Took(a, b, p, all)
  <2>1. Grown1
    BY <1>2, <1>5, CountTaken
  <2> QED BY <2>1 DEF a, b
<1>6. CASE Overfull(all) /\ \E to \in Pages : Divided(a, b, p, to, all)
  <2>1. PICK to \in Pages : Divided(a, b, p, to, all)
    BY <1>6
  <2>2. Grown1
    BY <1>2, <1>6, <2>1, CountSplit
  <2> QED BY <2>2 DEF a, b
<1>7. CASE p = root_page_num /\ Overfull(all) /\ \E left, to \in Pages : Grew(a, b, left, to, all)
  <2>1. PICK left \in Pages, to \in Pages : Grew(a, b, left, to, all)
    BY <1>7
  <2> DEFINE m == Moved(a, left, b[root_page_num])
  <2>2. Divided(m, b, left, to, all)
    BY <1>1, <1>7, <2>1, GrownAsDivided
  <2>3. left \in Pages \ {root_page_num} /\ ~IsLeaf(a[left]) /\ ~IsLeaf(b[root_page_num])
    BY <2>1 DEF Grew
  <2>4. Count(m, row) = Count(a, row)
    BY <1>1, <1>7, <2>3, CountMoved
  <2>5. m[left] = a[p]
    BY <1>1, <1>7, <2>3 DEF Moved
  <2> HIDE DEF m
  <2>6. Taking(m, left, c, new, all)
    BY <1>2, <2>3, <2>5 DEF Taking
  <2>7. Count(b, row) = Count(m, row) + (IF row = new THEN 1 ELSE 0)
    BY <1>7, <2>2, <2>6, CountSplit
  <2> QED BY <2>4, <2>7 DEF a, b
<1> QED BY <1>3, <1>4, <1>5, <1>6, <1>7

-----------------------------------------------------------------------------
\* Rows of two bags.
LEMMA BagsAdded ==
  ASSUME NEW a, NEW b, IsABag(a), IsABag(b), NEW row
  PROVE  /\ Copies(row, a) \in Nat /\ Copies(row, b) \in Nat
         /\ Copies(row, a (+) b) = Copies(row, a) + Copies(row, b)
         /\ row \in BagToSet(a (+) b) <=> Copies(row, a) + Copies(row, b) > 0
         /\ row \in BagToSet(a (+) b) <=> row \in BagToSet(a) \/ row \in BagToSet(b)
<1> DEFINE new == a (+) b
<1>1. new = [e \in (DOMAIN a) \cup (DOMAIN b) |->
               (IF e \in DOMAIN a THEN a[e] ELSE 0) + (IF e \in DOMAIN b THEN b[e] ELSE 0)]
  BY DEF (+)
<1>2. /\ \A e \in DOMAIN a : a[e] \in Nat /\ a[e] > 0
      /\ \A e \in DOMAIN b : b[e] \in Nat /\ b[e] > 0
  BY DEF IsABag
<1> HIDE DEF new
<1>3. /\ Copies(row, a) = IF row \in DOMAIN a THEN a[row] ELSE 0
      /\ Copies(row, b) = IF row \in DOMAIN b THEN b[row] ELSE 0
      /\ Copies(row, new) = IF row \in DOMAIN new THEN new[row] ELSE 0
  BY DEF Copies, BagIn, BagToSet
<1>4. Copies(row, a) \in Nat /\ Copies(row, b) \in Nat
  BY <1>2, <1>3
<1>5. DOMAIN new = (DOMAIN a) \cup (DOMAIN b)
  BY <1>1
<1>6. Copies(row, new) = Copies(row, a) + Copies(row, b)
  BY <1>1, <1>2, <1>3, <1>5
<1>7. /\ row \in DOMAIN a <=> Copies(row, a) > 0
      /\ row \in DOMAIN b <=> Copies(row, b) > 0
  BY <1>2, <1>3
<1>8. row \in DOMAIN new <=> Copies(row, a) + Copies(row, b) > 0
  BY <1>4, <1>5, <1>7
<1> QED BY <1>4, <1>5, <1>6, <1>8 DEF new, BagToSet

(***************************************************************************)
(* The inductive invariant of RowsKept: of every row the leaves hold at    *)
(* least the copies whose insertion returned, and at most those and the    *)
(* copies whose insertion threw.                                           *)
(***************************************************************************)
Between(n, row, kept, thrown) ==
  n \in Copies(row, kept) .. Copies(row, kept) + Copies(row, thrown)

RowsInv == stopped = "none" => \A row \in Rows : Between(Count(pages, row), row, rows, refused)

LEMMA InitRows == Init => RowsInv
<1> SUFFICES ASSUME Init, NEW row \in Rows PROVE Between(Count(pages, row), row, rows, refused)
  BY DEF RowsInv
<1> DEFINE leaf == [initialize_leaf_node(ZeroPage) EXCEPT !.is_root = TRUE]
<1>1. /\ \A q \in Pages : pages[q] = IF q = root_page_num THEN leaf ELSE ZeroPage
      /\ rows = EmptyBag /\ refused = EmptyBag
  BY DEF Init
<1>2. leaf.cells = <<>>
  <2> DEFINE empty == initialize_leaf_node(ZeroPage)
  <2>1. empty = [type |-> "LEAF", is_root |-> FALSE, parent |-> ZeroPage.parent, next |-> 0, cells |-> <<>>]
    BY DEF initialize_leaf_node
  <2> HIDE DEF empty
  <2>2. ASSUME NEW yes PROVE [empty EXCEPT !.is_root = yes].cells = <<>>
    BY <2>1
  <2> QED BY <2>2 DEF empty
<1>3. ~IsLeaf(ZeroPage)
  BY DEF ZeroPage, IsLeaf
<1> HIDE DEF leaf
<1>4. ASSUME NEW place \in Cells, HasAt(pages, place[1], place[2], row) PROVE FALSE
  <2>1. place[1] \in Pages /\ place[2] >= 1
    BY SplitCounts DEF Cells
  <2>2. pages[place[1]].cells = <<>>
    BY <1>1, <1>2, <1>3, <1>4, <2>1 DEF HasAt
  <2>3. place[2] <= Len(<<>>)
    BY <1>4, <2>2 DEF HasAt
  <2>4. place[2] \in Int
    BY SplitCounts DEF Cells
  <2> QED BY <2>1, <2>3, <2>4
<1>5. PlacesIn(pages, row) = {}
  BY <1>4 DEF PlacesIn
<1>6. Count(pages, row) = 0
  BY <1>5, FS_EmptySet DEF Count
<1>7. Copies(row, EmptyBag) = 0
  <2>1. BagToSet(EmptyBag) = {}
    BY DEF EmptyBag, SetToBag, BagToSet
  <2> QED BY <2>1 DEF Copies, BagIn
<1> QED BY <1>1, <1>6, <1>7 DEF Between

LEMMA InsertRows ==
  ASSUME IInv, RowsInv, NEW key \in Keys, NEW text \in Texts, Insert(key, text),
         stopped' = "none", NEW row \in Rows
  PROVE  Between(Count(pages', row), row, rows', refused')
<1> DEFINE o == Begin(pages, num_pages)
<1>1. PICK new, r, p, c :
        /\ new \in Rows /\ AsInserted(new) = new
        /\ Good(o) /\ o.pages = pages /\ ~Halted(r)
        /\ Target(o, p, c, new) /\ Outcome(o, p, With(o, p, c, new), r)
        /\ stopped = "none" /\ Returned(r, new)
  BY GoesOn
<1> HIDE DEF o
<1>2. /\ pages' = r.pages
      /\ rows' = IF Failed(r) THEN rows ELSE rows (+) SetToBag({new})
      /\ refused' = IF Failed(r) THEN refused (+) SetToBag({new}) ELSE refused
  BY <1>1 DEF Returned
<1>3. \/ Count(pages', row) = Count(pages, row) + (IF row = new THEN 1 ELSE 0)
      \/ Failed(r) /\ Count(pages', row) = Count(pages, row)
  BY <1>1, <1>2, CountInserted
<1>4. Between(Count(pages, row), row, rows, refused)
  BY <1>1 DEF RowsInv
<1>5. IsABag(rows) /\ IsABag(refused)
  BY DEF IInv, TypeOK
<1>6. Copies(row, rows) \in Nat /\ Copies(row, refused) \in Nat /\ Count(pages, row) \in Nat
  BY <1>5, BagsAdded, PlacesFinite
<1>7. CASE Failed(r)
  <2>1. Copies(row, refused') = IF row = new THEN Copies(row, refused) + 1 ELSE Copies(row, refused)
    BY <1>2, <1>5, <1>7, BagGrown
  <2>2. rows' = rows
    BY <1>2, <1>7
  <2> QED BY <1>3, <1>4, <1>6, <2>1, <2>2 DEF Between
<1>8. CASE ~Failed(r)
  <2>1. Copies(row, rows') = IF row = new THEN Copies(row, rows) + 1 ELSE Copies(row, rows)
    BY <1>2, <1>5, <1>8, BagGrown
  <2>2. refused' = refused
    BY <1>2, <1>8
  <2>3. Count(pages', row) = Count(pages, row) + (IF row = new THEN 1 ELSE 0)
    BY <1>3, <1>8
  <2> QED BY <1>4, <1>6, <2>1, <2>2, <2>3 DEF Between
<1> QED BY <1>7, <1>8

LEMMA NextRows == IInv /\ RowsInv /\ [Next]_vars => RowsInv'
<1> SUFFICES ASSUME IInv, RowsInv, [Next]_vars, stopped' = "none", NEW row \in Rows
             PROVE  Between(Count(pages', row), row, rows', refused')
  BY DEF RowsInv, Between, Count, PlacesIn, HasAt, IsLeaf, AsInserted, Copies, BagIn, BagToSet, Cells
<1>1. CASE Next
  BY <1>1, InsertRows DEF Next
<1>2. CASE UNCHANGED vars
  BY <1>2 DEF vars, RowsInv
<1> QED BY <1>1, <1>2

\* The places of RowsKept are those that are counted.
LEMMA PlacesCountedAsCells ==
  ASSUME IInv, NEW row
  PROVE  Places(row) = PlacesIn(pages, row)
<1>1. \A q : q \in Leaves <=> q \in Pages /\ IsLeaf(pages[q])
  BY LeafPages
<1>2. \A q \in Leaves : /\ Len(pages[q].cells) \in Nat
                        /\ Len(pages[q].cells) <= LEAF_NODE_MAX_CELLS
  <2>1. \A q \in Leaves : Fits(pages[q].cells)
    BY <1>1 DEF IInv, InShape
  <2> QED BY <2>1 DEF Fits
<1>3. LEAF_NODE_MAX_CELLS \in Nat
  BY SplitCounts
<1>4. ASSUME NEW place \in Places(row) PROVE place \in PlacesIn(pages, row)
  <2>1. /\ place \in Leaves \X (1 .. LEAF_NODE_MAX_CELLS)
        /\ HoldsAt(place[1], place[2], row)
    BY <1>4 DEF Places
  <2>2. place[1] \in Leaves /\ place \in Cells
    BY <1>1, <1>3, <2>1 DEF Cells
  <2> QED BY <1>1, <2>1, <2>2 DEF PlacesIn, HasAt, HoldsAt
<1>5. ASSUME NEW place \in PlacesIn(pages, row) PROVE place \in Places(row)
  <2>1. place \in Cells /\ HasAt(pages, place[1], place[2], row)
    BY DEF PlacesIn
  <2>2. place[1] \in Leaves
    BY <1>1, <2>1 DEF HasAt, Cells
  <2>3. place[2] \in 1 .. LEAF_NODE_MAX_CELLS
    BY <1>2, <1>3, <2>1, <2>2 DEF HasAt, Cells
  <2>4. place \in Leaves \X (1 .. LEAF_NODE_MAX_CELLS)
    BY <2>1, <2>2, <2>3 DEF Cells
  <2> QED BY <2>1, <2>4 DEF Places, HasAt, HoldsAt
<1> QED BY <1>4, <1>5

LEMMA CountedAsKept == IInv /\ RowsInv => RowsKept
<1> SUFFICES ASSUME IInv, RowsInv, stopped = "none" PROVE RowsKept
  BY DEF RowsKept
<1> DEFINE all == BagToSet(rows (+) refused)
<1>1. \A row \in Rows : Between(Count(pages, row), row, rows, refused)
  BY DEF RowsInv
<1>2. /\ IsABag(rows) /\ BagToSet(rows) \subseteq Rows
      /\ IsABag(refused) /\ BagToSet(refused) \subseteq Rows
  BY DEF IInv, TypeOK
<1>3. ASSUME NEW row
      PROVE  /\ Copies(row, rows) \in Nat /\ Copies(row, refused) \in Nat
             /\ Copies(row, rows (+) refused) = Copies(row, rows) + Copies(row, refused)
             /\ row \in all <=> Copies(row, rows) + Copies(row, refused) > 0
             /\ row \in all => row \in Rows
  BY <1>2, BagsAdded
<1> HIDE DEF all
<1>4. ASSUME NEW p \in Leaves
      PROVE  /\ Len(pages[p].cells) <= LEAF_NODE_MAX_CELLS
             /\ \A i \in DOMAIN pages[p].cells : AsInserted(pages[p].cells[i]) \in all
  <2>1. p \in Pages /\ IsLeaf(pages[p]) /\ Fits(pages[p].cells)
    BY LeafPages DEF IInv, InShape
  <2>2. pages[p].cells \in Seq(Rows) /\ Len(pages[p].cells) <= LEAF_NODE_MAX_CELLS
    BY <2>1 DEF Fits
  <2>3. ASSUME NEW i \in DOMAIN pages[p].cells PROVE AsInserted(pages[p].cells[i]) \in all
    <3> DEFINE row == AsInserted(pages[p].cells[i])
    <3>1. i \in 1 .. Len(pages[p].cells) /\ pages[p].cells[i] \in Rows
      BY <2>2
    <3>2. row \in Rows
      BY <3>1 DEF AsInserted, Rows
    <3>3. HasAt(pages, p, i, row)
      BY <2>1, <3>1 DEF HasAt
    <3> HIDE DEF row
    <3>4. i \in 1 .. LEAF_NODE_MAX_CELLS + 1
      BY <2>2, <3>1, SplitCounts
    <3>5. <<p, i>> \in PlacesIn(pages, row)
      BY <2>1, <3>3, <3>4 DEF PlacesIn, Cells
    <3>6. Count(pages, row) # 0 /\ Count(pages, row) \in Nat
      BY <3>5, PlacesFinite, FS_EmptySet DEF Count
    <3>7. Copies(row, rows) + Copies(row, refused) > 0
      BY <1>1, <1>3, <3>2, <3>6 DEF Between
    <3> QED BY <1>3, <3>7 DEF row
  <2> QED BY <2>2, <2>3
<1>5. ASSUME NEW row \in all
      PROVE  Cardinality(Places(row)) \in Copies(row, rows) .. Copies(row, rows (+) refused)
  <2>1. Cardinality(Places(row)) = Count(pages, row)
    BY PlacesCountedAsCells DEF Count
  <2>2. row \in Rows /\ Copies(row, rows (+) refused) = Copies(row, rows) + Copies(row, refused)
    BY <1>3
  <2> QED BY <1>1, <2>1, <2>2 DEF Between
<1> QED BY <1>4, <1>5 DEF RowsKept, all

(* No row is lost or doubled by the splits, in whatever order the keys     *)
(* come, not even by an insertion that throws part way because the file is *)
(* full.                                                                   *)
THEOREM NoRowLost == Spec => []RowsKept
BY InitIInv, NextIInv, InitRows, NextRows, CountedAsKept, PTL DEF Spec
=============================================================================
