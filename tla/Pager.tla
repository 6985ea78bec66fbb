-------------------------------- MODULE Pager --------------------------------
(***************************************************************************)
(* The pager of toySQL (class Pager, src/src/storage/page.cpp and ds.h): a *)
(* file of FILE_PAGES_NUM pages behind a write-back cache of max_pages     *)
(* entries with least-recently-used eviction (class PageCache).            *)
(*                                                                         *)
(* The caller is a Table: it asks for the root page, for pages it has been *)
(* given before, and for the page get_unused_page() names; it stores into  *)
(* a page through the CacheEntry pointer of a page still in the cache.     *)
(* That a Table may keep a pointer longer than that is the subject of      *)
(* module Table.                                                           *)
(***************************************************************************)
EXTENDS Integers, SequencesExt

CONSTANTS
  FILE_PAGES_NUM,   \* pages in the file
  max_pages,        \* the cache_size given to the constructor
  Data,             \* contents of a page
  Zero              \* contents of a page of a new file

ASSUME PagerAssumption ==
  /\ FILE_PAGES_NUM \in Nat \ {0}
  /\ max_pages \in Nat
  /\ Zero \in Data

Pages == 0 .. FILE_PAGES_NUM - 1

VARIABLES
  file,        \* page number -> contents in the file
  page_map,    \* cached page number -> CacheEntry
  lru_list,    \* cached page numbers, most recently requested first
  num_pages,   \* the counter behind get_unused_page()
  recent,      \* history: pages requested this session, latest first
  used,        \* history: pages ever given to a Table of this file
  flushed,     \* history: flush_all() has run this session
  reopened,    \* history: this session is not the one that made the file
  op           \* history: the last step was a store, an opening, or neither

vars == <<file, page_map, lru_list, num_pages, recent, used, flushed, reopened, op>>

CacheEntry == [data : Data, dirty : BOOLEAN]

TypeOK ==
  /\ file \in [Pages -> Data]
  /\ DOMAIN page_map \subseteq Pages
  /\ page_map \in [DOMAIN page_map -> CacheEntry]
  /\ lru_list \in Seq(Pages)
  /\ num_pages \in 0 .. FILE_PAGES_NUM
  /\ recent \in Seq(Pages)
  /\ used \in SUBSET Pages
  /\ flushed \in BOOLEAN /\ reopened \in BOOLEAN
  /\ op \in {"open", "store", "none"}

-----------------------------------------------------------------------------
(***************************************************************************)
(* Operations of PageCache on lru_list.  page_map.size() is Len(lru_list). *)
(***************************************************************************)

Position(list, p) == CHOOSE i \in 1 .. Len(list) : list[i] = p

Without(list, p) == RemoveAt(list, Position(list, p))

\* Mutant: a hit leaves the list as it is.
KeepOrder(list, p) == list

\* get_page() of a page that is in the cache: remove it, push it to the front.
MoveToFront(list, p) == <<p>> \o Without(list, p)

\* What evict() takes from a full cache: nothing from an empty list.
Evicted(list) ==
  IF Len(list) >= max_pages /\ list # <<>> THEN {list[Len(list)]} ELSE {}

\* Mutant: the evicted page stays in the list.
AddWithoutEvicting(list, p) == <<p>> \o list

\* add_page(): evict first, then push the new page to the front.
AddPage(list, p) ==
  <<p>> \o (IF Evicted(list) = {} THEN list ELSE Front(list))

NoEntries == [p \in {} |-> Zero]

Capacity == IF max_pages = 0 THEN 1 ELSE max_pages

-----------------------------------------------------------------------------
Init ==
  /\ file = [p \in Pages |-> Zero]
  /\ page_map = NoEntries
  /\ lru_list = <<>>
  /\ num_pages = 0
  /\ recent = <<>>
  /\ used = {}
  /\ flushed = FALSE
  /\ reopened = FALSE
  /\ op = "open"

CacheHit(p) ==
  /\ p \in DOMAIN page_map
  /\ lru_list' = MoveToFront(lru_list, p)
  /\ UNCHANGED <<file, page_map, num_pages>>

\* Mutant: the evicted page is not written back.
ReplaceUnwritten(p, dirty) ==
  /\ page_map' = [q \in (DOMAIN page_map \ Evicted(lru_list)) \cup {p} |->
                    IF q = p THEN [data |-> file[p], dirty |-> dirty] ELSE page_map[q]]
  /\ UNCHANGED file

\* Once the entry of page p is read from the file, what add_page() evicted
\* is written back, dirty or not, and deleted.
Replace(p, dirty) ==
  LET evicted == Evicted(lru_list)
      loaded  == [data |-> file[p], dirty |-> dirty]
  IN /\ page_map' = [q \in (DOMAIN page_map \ evicted) \cup {p} |->
                       IF q = p THEN loaded ELSE page_map[q]]
     /\ file' = [q \in Pages |-> IF q \in evicted THEN page_map[q].data ELSE file[q]]

\* Mutant: every page loaded is counted.
MissCountsAll(p) ==
  /\ p \notin DOMAIN page_map
  /\ Replace(p, TRUE)
  /\ lru_list' = AddPage(lru_list, p)
  /\ num_pages' = num_pages + 1

\* Mutant: the page after the one loaded is the next unused one.
MissCountsOn(p) ==
  /\ p \notin DOMAIN page_map
  /\ Replace(p, TRUE)
  /\ lru_list' = AddPage(lru_list, p)
  /\ num_pages' = p + 1

\* Mutant: a loaded page starts clean.
MissLoadsClean(p) ==
  /\ p \notin DOMAIN page_map
  /\ Replace(p, FALSE)
  /\ lru_list' = AddPage(lru_list, p)
  /\ num_pages' = IF p = num_pages THEN num_pages + 1 ELSE num_pages

\* A page that is not in the cache; its entry is marked dirty as it is
\* loaded, and the page counts as handed out when it is the next unused one.
CacheMiss(p) ==
  /\ p \notin DOMAIN page_map
  /\ Replace(p, TRUE)
  /\ lru_list' = AddPage(lru_list, p)
  /\ num_pages' = IF p = num_pages THEN num_pages + 1 ELSE num_pages

get_page(p) ==
  /\ CacheHit(p) \/ CacheMiss(p)
  /\ recent' = IF \E i \in 1 .. Len(recent) : recent[i] = p
               THEN MoveToFront(recent, p) ELSE <<p>> \o recent
  /\ used' = used \cup {p}
  /\ op' = "none"
  /\ UNCHANGED <<flushed, reopened>>

\* The root, or a page given out before.
ReadPage == \E p \in used \cup {0} : get_page(p)

\* get_page(get_unused_page()), always after the root has been read; the
\* call throws, and changes nothing, when the file is full.
get_unused_page == num_pages

NewPage ==
  /\ num_pages > 0
  /\ get_unused_page < FILE_PAGES_NUM
  /\ get_page(get_unused_page)

\* A store through the CacheEntry pointer of a cached page; it leaves the
\* dirty flag alone: mark_dirty() has no caller.
StoreInPage(p, d) ==
  /\ p \in DOMAIN page_map
  /\ page_map' = [page_map EXCEPT ![p].data = d]
  /\ op' = "store"
  /\ UNCHANGED <<file, lru_list, num_pages, recent, used, flushed, reopened>>

\* The file once flush_all() has been through the first n entries of its list.
FlushedUpTo(n) ==
  [p \in Pages |-> IF \E i \in 1 .. n : lru_list[i] = p /\ page_map[p].dirty
                   THEN page_map[p].data ELSE file[p]]

flush_all ==
  /\ file' = FlushedUpTo(Len(lru_list))
  /\ page_map' = [p \in DOMAIN page_map |-> [page_map[p] EXCEPT !.dirty = FALSE]]
  /\ flushed' = TRUE
  /\ op' = "none"
  /\ UNCHANGED <<lru_list, num_pages, recent, used, reopened>>

\* The Table is destroyed, or the process dies (within flush_all() when
\* n > 0), and the file is opened again: ~PageCache deletes the entries,
\* nothing more is written.
Reopen(n) ==
  /\ file' = FlushedUpTo(n)
  /\ page_map' = NoEntries
  /\ lru_list' = <<>>
  /\ num_pages' = 0
  /\ recent' = <<>>
  /\ flushed' = FALSE
  /\ reopened' = TRUE
  /\ op' = "open"
  /\ UNCHANGED used

Next ==
  \/ ReadPage
  \/ NewPage
  \/ \E p \in Pages, d \in Data : StoreInPage(p, d)
  \/ flush_all
  \/ \E n \in 0 .. Len(lru_list) : Reopen(n)

\* A file opened any number of times.
Spec == Init /\ [][Next]_vars

-----------------------------------------------------------------------------
(* The cache's two indexes agree: page_map and lru_list hold the same      *)
(* pages, lru_list each of them once, and no more than the cache's         *)
(* capacity (add_page evicts before it inserts; a cache_size of 0 still    *)
(* holds one page, since there is nothing to evict from an empty list).    *)
IndexesAgree ==
  /\ \A p \in Pages : p \in DOMAIN page_map <=> \E i \in 1 .. Len(lru_list) : lru_list[i] = p
  /\ \A i, j \in 1 .. Len(lru_list) : lru_list[i] = lru_list[j] => i = j
  /\ Len(lru_list) <= Capacity

(* Eviction is by least recent use: the cache always holds exactly the     *)
(* most recently requested pages, in that order, as many as fit.  A Table  *)
(* that has requested fewer than Capacity other pages since get_page(p)    *)
(* can therefore still use the pointer that call returned.                 *)
HoldsMostRecent ==
  lru_list = SubSeq(recent, 1, IF Len(recent) < Capacity THEN Len(recent) ELSE Capacity)

(* What a read of page p returns, wherever its latest contents are.        *)
Contents == [p \in Pages |-> IF p \in DOMAIN page_map THEN page_map[p].data ELSE file[p]]

Store == INSTANCE PageStore WITH contents <- Contents, durable <- file

(* The pager implements the page store: across hits, misses, evictions,    *)
(* flushes and reopenings a page reads as what was last stored in it, and  *)
(* the file only ever receives current contents.                           *)
ImplementsPageStore == Store!Spec

(* In the session that makes the file, get_unused_page() names a page no   *)
(* Table has been given, whatever was evicted and loaded again meanwhile.  *)
(* (In a later session it names pages in use: ds.h:66 starts from 0.)      *)
NewPagesAreUnused == [][NewPage /\ ~reopened => get_unused_page \notin used]_vars

(* The first flush_all() of a session leaves nothing behind: every page    *)
(* stored in so far reads the same from the file.                          *)
FirstFlushIsDurable == [][flush_all /\ ~flushed => file' = Contents]_vars

(* Every flush_all() does.                                                 *)
FlushIsDurable == [][flush_all => file' = Contents]_vars
=============================================================================
