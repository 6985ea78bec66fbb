---------------------------- MODULE PagePointers ----------------------------
(***************************************************************************)
(* The pager as one operation of a Table sees it.  While it runs, an       *)
(* operation keeps CacheEntry pointers in local variables and goes on      *)
(* using them after further calls of Pager::get_page(), each of which may  *)
(* evict, and delete, the entry a pointer names.                           *)
(*                                                                         *)
(* An operation in progress is a record that get_page() and the stores     *)
(* thread from one call to the next.  What page contents are read, module  *)
(* PageStore says; which entries are still in the cache, Pager's invariant *)
(* HoldsMostRecent says: the cache_size pages requested last.  So whether  *)
(* a pointer an operation obtained is still good depends on the pages it   *)
(* requested since, never on what the cache held when it began.            *)
(***************************************************************************)
EXTENDS Integers, SequencesExt

CONSTANTS
  FILE_PAGES_NUM,   \* pages in the file
  cache_size        \* entries in the cache

ASSUME PagePointersAssumption ==
  /\ FILE_PAGES_NUM \in Nat \ {0}
  /\ cache_size \in Nat \ {0}

Pages == 0 .. FILE_PAGES_NUM - 1

INVALID_PAGE_NUM == FILE_PAGES_NUM    \* UINT32_MAX: like it, past the file

(* How an operation can go wrong: get_page() throws std::out_of_range, a   *)
(* helper calls exit(), for a child that is none or, about to write one,   *)
(* for what the bytes were before; or a pointer is used after its entry    *)
(* was deleted (undefined behaviour: the model follows the operation no    *)
(* further).                                                               *)
Faults == {"none", "out_of_range", "exit", "exit on old bytes", "stale pointer"}

Begin(contents, unused) ==
  [pages     |-> contents,
   num_pages |-> unused,
   recent    |-> <<>>,                     \* pages of this operation in the cache
   loads     |-> [p \in Pages |-> 0],      \* entries created for each of them
   fault     |-> "none"]

Failed(o) == o.fault # "none"

Cached(o, p) == Contains(o.recent, p)

Position(list, p) == CHOOSE i \in 1 .. Len(list) : list[i] = p

\* The pages in the cache once p is requested, were there no limit to them.
Ordered(o, p) ==
  <<p>> \o (IF Cached(o, p) THEN RemoveAt(o.recent, Position(o.recent, p)) ELSE o.recent)

\* Mutant: the cache evicts when it is one short of full.
WithinCacheEarly(order) == IF Len(order) >= cache_size THEN Front(order) ELSE order

WithinCache(order) == IF Len(order) > cache_size THEN Front(order) ELSE order

\* Pager::get_page().  A page is counted when it is loaded, and a page that
\* was never handed out cannot be in the cache.
get_page(o, p) ==
  IF Failed(o) THEN o
  ELSE IF p \notin Pages THEN [o EXCEPT !.fault = "out_of_range"]
  ELSE [o EXCEPT !.num_pages = IF p = @ THEN @ + 1 ELSE @,
                 !.recent = WithinCache(Ordered(o, p)),
                 !.loads[p] = IF Cached(o, p) THEN @ ELSE @ + 1]

\* The pointer the get_page(p) that led to o returned.
Pointer(o, p) == [page |-> p, load |-> o.loads[p]]

Dangling(o, ptr) == ~Cached(o, ptr.page) \/ o.loads[ptr.page] # ptr.load

\* Dereference pointers.
Use(o, ptrs) ==
  IF ~Failed(o) /\ \E ptr \in ptrs : Dangling(o, ptr)
  THEN [o EXCEPT !.fault = "stale pointer"]
  ELSE o

\* Store a node through a pointer.
StoreNode(o, ptr, node) ==
  IF Failed(o) THEN o
  ELSE IF Dangling(o, ptr) THEN [o EXCEPT !.fault = "stale pointer"]
  ELSE [o EXCEPT !.pages[ptr.page] = node]

SetParent(o, ptr, parent) ==
  IF Failed(o) THEN o
  ELSE StoreNode(o, ptr, [o.pages[ptr.page] EXCEPT !.parent = parent])
=============================================================================
