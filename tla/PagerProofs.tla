----------------------------- MODULE PagerProofs -----------------------------
(***************************************************************************)
(* Proofs about the pager (module Pager), for every size of file and of    *)
(* cache and every set of page contents.                                   *)
(***************************************************************************)
EXTENDS Pager, Lists

-----------------------------------------------------------------------------
(***************************************************************************)
(* The operations on lists of pages.                                       *)
(***************************************************************************)

LEMMA PositionFound ==
  ASSUME NEW list, NEW p, Member(p, list)
  PROVE  /\ Position(list, p) \in 1 .. Len(list)
         /\ list[Position(list, p)] = p
BY DEF Position, Member

LEMMA MoveToFrontAt ==
  ASSUME NEW S, NEW list \in Seq(S), NEW p \in S, Member(p, list)
  PROVE  /\ MoveToFront(list, p) \in Seq(S)
         /\ Len(MoveToFront(list, p)) = Len(list)
         /\ MoveToFront(list, p)[1] = p
         /\ \A i \in 2 .. Len(list) :
              MoveToFront(list, p)[i] = IF i - 1 < Position(list, p) THEN list[i - 1] ELSE list[i]
<1> DEFINE n == Position(list, p)
           rest == RemoveAt(list, n)
           new == MoveToFront(list, p)
<1>1. n \in 1 .. Len(list) /\ list[n] = p
  BY PositionFound
<1>2. /\ rest \in Seq(S)
      /\ Len(rest) = Len(list) - 1
      /\ \A i \in 1 .. Len(list) - 1 : rest[i] = IF i < n THEN list[i] ELSE list[i + 1]
  BY <1>1, RemoveAtElements
<1>3. new = <<p>> \o rest
  BY DEF MoveToFront, Without
<1>4. /\ new \in Seq(S) /\ Len(new) = Len(list)
      /\ new[1] = p
      /\ \A i \in 2 .. Len(list) : new[i] = IF i - 1 < n THEN list[i - 1] ELSE list[i]
  <2> HIDE DEF rest, new
  <2> QED BY <1>1, <1>2, <1>3
<1> QED BY <1>4

LEMMA MoveToFrontElements ==
  ASSUME NEW S, NEW list \in Seq(S), NEW p \in S, Member(p, list), Distinct(list)
  PROVE  /\ MoveToFront(list, p) \in Seq(S)
         /\ Len(MoveToFront(list, p)) = Len(list)
         /\ Distinct(MoveToFront(list, p))
         /\ \A q : Member(q, MoveToFront(list, p)) <=> Member(q, list)
<1> DEFINE n == Position(list, p)
           new == MoveToFront(list, p)
<1>1. n \in 1 .. Len(list) /\ list[n] = p
  BY PositionFound
<1>2. /\ new \in Seq(S) /\ Len(new) = Len(list)
      /\ new[1] = p
      /\ \A i \in 2 .. Len(list) : new[i] = IF i - 1 < n THEN list[i - 1] ELSE list[i]
  BY MoveToFrontAt
<1> QED
  <2> HIDE DEF n, new
  <2>1. ASSUME NEW i \in 1 .. Len(list), NEW j \in 1 .. Len(list), new[i] = new[j]
        PROVE  i = j
    <3> DEFINE old(k) == IF k = 1 THEN n ELSE IF k - 1 < n THEN k - 1 ELSE k
    <3>1. ASSUME NEW k \in 1 .. Len(list)
          PROVE  old(k) \in 1 .. Len(list) /\ new[k] = list[old(k)]
      BY <1>1, <1>2
    <3>2. old(i) = old(j)
      BY <2>1, <3>1 DEF Distinct
    <3> QED BY <1>1, <3>2
  <2>2. ASSUME NEW q PROVE Member(q, new) <=> Member(q, list)
    <3>1. ASSUME Member(q, new) PROVE Member(q, list)
      BY <1>1, <1>2, <3>1 DEF Member
    <3>2. ASSUME NEW i \in 1 .. Len(list), list[i] = q PROVE Member(q, new)
      <4>1. CASE i = n
        BY <1>1, <1>2, <3>2, <4>1 DEF Member
      <4>2. CASE i < n
        <5>1. i + 1 \in 2 .. Len(list) /\ new[i + 1] = list[i]
          BY <1>1, <1>2, <4>2
        <5> QED BY <1>2, <3>2, <5>1 DEF Member
      <4>3. CASE i > n
        BY <1>1, <1>2, <3>2, <4>3 DEF Member
      <4> QED BY <1>1, <4>1, <4>2, <4>3
    <3> QED BY <3>1, <3>2 DEF Member
  <2>3. Distinct(new)
    BY <1>2, <2>1 DEF Distinct
  <2> QED BY <1>2, <2>2, <2>3 DEF new

LEMMA CapacityPositive == Capacity \in Nat \ {0} /\ max_pages \in Nat
BY PagerAssumption DEF PagerAssumption, Capacity

\* What evict() leaves of the list comes after the new page.
KeptLength(list) == Len(list) - IF Evicted(list) = {} THEN 0 ELSE 1

LEMMA AddPageAt ==
  ASSUME NEW S, NEW list \in Seq(S), Len(list) <= Capacity, NEW p \in S
  PROVE  /\ KeptLength(list) \in 0 .. Len(list)
         /\ KeptLength(list) = IF Len(list) < Capacity THEN Len(list) ELSE Capacity - 1
         /\ AddPage(list, p) \in Seq(S)
         /\ Len(AddPage(list, p)) = KeptLength(list) + 1
         /\ AddPage(list, p)[1] = p
         /\ \A i \in 1 .. KeptLength(list) : AddPage(list, p)[i + 1] = list[i]
<1> DEFINE new == AddPage(list, p)
           kept == KeptLength(list)
<1>1. Len(list) \in Nat /\ Capacity \in Nat \ {0} /\ max_pages \in Nat
  BY CapacityPositive
<1>2. kept \in 0 .. Len(list) /\ kept < Capacity
  <2>1. CASE Evicted(list) = {}
    <3>1. Len(list) < max_pages \/ Len(list) = 0
      BY <1>1, <2>1 DEF Evicted
    <3> QED BY <1>1, <2>1, <3>1 DEF Capacity, KeptLength
  <2>2. CASE Evicted(list) # {}
    <3>1. Len(list) > 0
      BY <1>1, <2>2 DEF Evicted
    <3> QED BY <1>1, <2>2, <3>1 DEF KeptLength
  <2> QED BY <2>1, <2>2
<1>4. /\ new \in Seq(S)
      /\ Len(new) = kept + 1
      /\ new[1] = p
      /\ \A i \in 1 .. kept : new[i + 1] = list[i]
  <2> DEFINE rest == IF Evicted(list) = {} THEN list ELSE Front(list)
  <2>1. rest \in Seq(S) /\ Len(rest) = kept /\ \A i \in 1 .. kept : rest[i] = list[i]
    <3>1. CASE Evicted(list) = {}
      BY <1>1, <3>1 DEF KeptLength
    <3>2. CASE Evicted(list) # {}
      <4>1. /\ Front(list) \in Seq(S) /\ Len(Front(list)) = kept
            /\ \A i \in 1 .. kept : Front(list)[i] = list[i]
        <5>1. kept = Len(list) - 1 /\ \A i \in 1 .. Len(list) : list[i] \in S
          BY <1>1, <3>2 DEF KeptLength
        <5>2. \A i \in 1 .. Len(list) - 1 : list[i] \in S
          BY <1>1, <5>1
        <5>3. Len(list) - 1 \in Nat
          BY <1>1, <1>2, <5>1
        <5> HIDE DEF kept
        <5> QED BY <1>1, <5>1, <5>2, <5>3, SubSeqProperties DEF Front
      <4> QED BY <3>2, <4>1
    <3> QED BY <3>1, <3>2
  <2>2. new = <<p>> \o rest
    BY DEF AddPage
  <2> HIDE DEF rest, new, kept
  <2> QED BY <1>1, <1>2, <2>1, <2>2
<1>5. kept = IF Len(list) < Capacity THEN Len(list) ELSE Capacity - 1
  <2>1. CASE Evicted(list) = {}
    BY <1>1, <1>2, <2>1 DEF KeptLength
  <2>2. CASE Evicted(list) # {}
    <3>1. Len(list) >= max_pages /\ Len(list) > 0
      BY <1>1, <2>2 DEF Evicted
    <3>2. Len(list) = Capacity
      <4>1. Capacity = max_pages \/ (max_pages = 0 /\ Capacity = 1)
        BY DEF Capacity
      <4> HIDE DEF new, kept
      <4> QED BY <1>1, <3>1, <4>1
    <3> QED BY <1>1, <2>2, <3>2 DEF KeptLength
  <2> QED BY <2>1, <2>2
<1> QED BY <1>2, <1>4, <1>5

LEMMA AddPageElements ==
  ASSUME NEW S, NEW list \in Seq(S), Distinct(list), Len(list) <= Capacity,
         NEW p \in S, ~Member(p, list)
  PROVE  /\ AddPage(list, p) \in Seq(S)
         /\ Distinct(AddPage(list, p))
         /\ Len(AddPage(list, p)) <= Capacity
         /\ \A q : Member(q, AddPage(list, p)) <=> q = p \/ (Member(q, list) /\ q \notin Evicted(list))
<1> DEFINE new == AddPage(list, p)
           kept == KeptLength(list)
<1>1. Len(list) \in Nat /\ Capacity \in Nat \ {0} /\ max_pages \in Nat
  BY CapacityPositive
<1>2. /\ kept \in 0 .. Len(list) /\ kept < Capacity
      /\ kept = Len(list) - IF Evicted(list) = {} THEN 0 ELSE 1
  <2>1. /\ kept \in 0 .. Len(list)
        /\ kept = IF Len(list) < Capacity THEN Len(list) ELSE Capacity - 1
    BY AddPageAt
  <2>2. kept = Len(list) - IF Evicted(list) = {} THEN 0 ELSE 1
    BY DEF KeptLength
  <2>3. kept < Capacity
    <3> HIDE DEF kept
    <3>1. CASE Len(list) < Capacity
      BY <1>1, <2>1, <3>1
    <3>2. CASE ~(Len(list) < Capacity)
      BY <1>1, <2>1, <3>2
    <3> QED BY <3>1, <3>2
  <2> HIDE DEF kept
  <2> QED BY <2>1, <2>2, <2>3
<1>3. \A q : q \in Evicted(list) <=> kept < Len(list) /\ q = list[Len(list)]
  <2>1. CASE Evicted(list) = {}
    BY <1>1, <1>2, <2>1
  <2>2. CASE Evicted(list) # {}
    BY <1>1, <1>2, <2>2 DEF Evicted
  <2> QED BY <2>1, <2>2
<1>4. /\ new \in Seq(S) /\ Len(new) = kept + 1
      /\ new[1] = p /\ \A i \in 1 .. kept : new[i + 1] = list[i]
  BY AddPageAt
<1> HIDE DEF new, kept
<1>5. ASSUME NEW i \in 1 .. Len(new), NEW j \in 1 .. Len(new), new[i] = new[j]
      PROVE  i = j
  <2>1. ASSUME NEW k \in 2 .. Len(new)
        PROVE  k - 1 \in 1 .. Len(list) /\ new[k] = list[k - 1] /\ new[k] # p
    <3>1. k - 1 \in 1 .. kept /\ k - 1 \in 1 .. Len(list) /\ (k - 1) + 1 = k
      BY <1>1, <1>2, <1>4
    <3> QED BY <1>4, <3>1 DEF Member
  <2>2. CASE i = 1 \/ j = 1
    BY <1>2, <1>4, <1>5, <2>1, <2>2
  <2>3. CASE i # 1 /\ j # 1
    <3>1. i \in 2 .. Len(new) /\ j \in 2 .. Len(new)
      BY <1>2, <1>4, <2>3
    <3>2. i - 1 = j - 1
      BY <1>5, <2>1, <3>1 DEF Distinct
    <3> QED BY <1>2, <1>4, <3>1, <3>2
  <2> QED BY <2>2, <2>3
<1>6. ASSUME NEW q
      PROVE  Member(q, new) <=> q = p \/ (Member(q, list) /\ q \notin Evicted(list))
  <2>1. ASSUME NEW i \in 1 .. Len(new), new[i] = q, q # p
        PROVE  Member(q, list) /\ q \notin Evicted(list)
    <3>1. i - 1 \in 1 .. kept /\ i - 1 \in 1 .. Len(list) /\ (i - 1) + 1 = i
      BY <1>1, <1>2, <1>4, <2>1
    <3>2. list[i - 1] = q
      BY <1>4, <2>1, <3>1
    <3>3. q \notin Evicted(list)
      <4>1. SUFFICES ASSUME q \in Evicted(list) PROVE FALSE
        OBVIOUS
      <4>2. kept < Len(list) /\ list[i - 1] = list[Len(list)] /\ Len(list) \in 1 .. Len(list)
        BY <1>1, <1>2, <1>3, <3>2, <4>1
      <4>3. i - 1 = Len(list)
        BY <3>1, <4>2 DEF Distinct
      <4> QED BY <1>1, <1>2, <3>1, <4>2, <4>3
    <3> QED BY <3>1, <3>2, <3>3 DEF Member
  <2>2. ASSUME NEW i \in 1 .. Len(list), list[i] = q, q \notin Evicted(list)
        PROVE  Member(q, new)
    <3>1. i \in 1 .. kept
      <4>1. kept = Len(list) \/ i # Len(list)
        BY <1>1, <1>2, <1>3, <2>2
      <4>2. kept = Len(list) \/ kept = Len(list) - 1
        BY <1>1, <1>2
      <4> QED BY <1>1, <1>2, <4>1, <4>2
    <3>2. i + 1 \in 1 .. Len(new) /\ new[i + 1] = q
      BY <1>2, <1>4, <2>2, <3>1
    <3> QED BY <3>2 DEF Member
  <2>3. Member(p, new)
    <3>1. 1 \in 1 .. Len(new)
      BY <1>2, <1>4
    <3> QED BY <1>4, <3>1 DEF Member
  <2> QED BY <2>1, <2>2, <2>3 DEF Member
<1> QED
  <2>1. Len(new) <= Capacity
    BY <1>1, <1>2, <1>4
  <2>2. Distinct(new)
    BY <1>5 DEF Distinct
  <2> QED BY <1>4, <1>6, <2>1, <2>2 DEF new

LEMMA EvictedIsMember ==
  ASSUME NEW S, NEW list \in Seq(S), NEW q \in Evicted(list)
  PROVE  Member(q, list)
<1>1. Len(list) \in 1 .. Len(list) /\ q = list[Len(list)]
  BY DEF Evicted
<1> QED BY <1>1 DEF Member

-----------------------------------------------------------------------------
(***************************************************************************)
(* The inductive invariant: the types, the agreement of the two indexes,   *)
(* and, for the history, that no page is listed twice in recent.           *)
(***************************************************************************)

IInv == TypeOK /\ IndexesAgree /\ Distinct(recent)

LEMMA IndexesAgreeMember ==
  IndexesAgree <=> /\ \A p \in Pages : p \in DOMAIN page_map <=> Member(p, lru_list)
                   /\ Distinct(lru_list)
                   /\ Len(lru_list) <= Capacity
BY DEF IndexesAgree, Member, Distinct

LEMMA InitIInv == Init => IInv
<1> SUFFICES ASSUME Init PROVE IInv
  OBVIOUS
<1>1. Capacity \in Nat \ {0} /\ FILE_PAGES_NUM \in Nat /\ Zero \in Data
  BY CapacityPositive, PagerAssumption DEF PagerAssumption
<1>2. TypeOK
  <2>1. /\ file \in [Pages -> Data] /\ flushed \in BOOLEAN /\ reopened \in BOOLEAN
        /\ op \in {"open", "store", "none"}
    BY <1>1, Zenon DEF Init
  <2>4. num_pages \in 0 .. FILE_PAGES_NUM
    BY <1>1 DEF Init
  <2>2. lru_list \in Seq(Pages) /\ recent \in Seq(Pages) /\ used \in SUBSET Pages
    BY DEF Init
  <2>3. DOMAIN page_map = {} /\ page_map \in [DOMAIN page_map -> CacheEntry]
    BY DEF Init, NoEntries
  <2> QED BY <2>1, <2>2, <2>3, <2>4 DEF TypeOK
<1>3. IndexesAgree
  BY <1>1 DEF Init, IndexesAgree, NoEntries
<1>4. Distinct(recent)
  BY DEF Init, Distinct
<1> QED BY <1>2, <1>3, <1>4 DEF IInv

\* The part of a request that is the same whether or not the page is cached.
LEMMA RecentListed ==
  ASSUME IInv, NEW p \in Pages, get_page(p)
  PROVE  recent' \in Seq(Pages) /\ Distinct(recent')
<1>1. recent \in Seq(Pages) /\ Distinct(recent)
  BY DEF IInv, TypeOK
<1>2. CASE Member(p, recent)
  <2>1. recent' = MoveToFront(recent, p)
    BY <1>2 DEF get_page, Member
  <2> QED BY <1>1, <1>2, <2>1, MoveToFrontElements
<1>3. CASE ~Member(p, recent)
  <2>1. recent' = <<p>> \o recent
    BY <1>3 DEF get_page, Member
  <2>2. /\ recent' \in Seq(Pages) /\ Len(recent') = Len(recent) + 1
        /\ recent'[1] = p /\ \A i \in 2 .. Len(recent) + 1 : recent'[i] = recent[i - 1]
    BY <1>1, <2>1
  <2>3. ASSUME NEW i \in 1 .. Len(recent'), NEW j \in 1 .. Len(recent'), recent'[i] = recent'[j]
        PROVE  i = j
    <3>1. ASSUME NEW k \in 2 .. Len(recent')
          PROVE  k - 1 \in 1 .. Len(recent) /\ recent'[k] = recent[k - 1] /\ recent'[k] # p
      BY <1>1, <1>3, <2>2 DEF Member
    <3>2. CASE i = 1 \/ j = 1
      BY <2>2, <2>3, <3>1, <3>2
    <3>3. CASE i # 1 /\ j # 1
      BY <1>1, <2>2, <2>3, <3>1, <3>3 DEF Distinct
    <3> QED BY <3>2, <3>3
  <2> QED BY <2>2, <2>3 DEF Distinct
<1> QED BY <1>2, <1>3

LEMMA RequestIInv ==
  ASSUME IInv, NEW p \in Pages, get_page(p)
  PROVE  IInv'
<1>1. /\ file \in [Pages -> Data] /\ DOMAIN page_map \subseteq Pages
      /\ page_map \in [DOMAIN page_map -> CacheEntry]
      /\ lru_list \in Seq(Pages) /\ num_pages \in 0 .. FILE_PAGES_NUM
      /\ used \in SUBSET Pages /\ flushed \in BOOLEAN /\ reopened \in BOOLEAN
  BY DEF IInv, TypeOK
<1>2. /\ \A q \in Pages : q \in DOMAIN page_map <=> Member(q, lru_list)
      /\ Distinct(lru_list) /\ Len(lru_list) <= Capacity
  BY IndexesAgreeMember DEF IInv
<1>3. /\ used' = used \cup {p} /\ flushed' = flushed /\ reopened' = reopened /\ op' = "none"
      /\ recent' \in Seq(Pages) /\ Distinct(recent')
  BY RecentListed DEF get_page
<1>4. CASE CacheHit(p)
  <2>1. /\ p \in DOMAIN page_map /\ lru_list' = MoveToFront(lru_list, p)
        /\ UNCHANGED <<file, page_map, num_pages>>
    BY <1>4 DEF CacheHit
  <2>2. /\ lru_list' \in Seq(Pages) /\ Len(lru_list') = Len(lru_list)
        /\ Distinct(lru_list') /\ \A q : Member(q, lru_list') <=> Member(q, lru_list)
    <3>1. Member(p, lru_list)
      BY <1>2, <2>1
    <3> QED BY <1>1, <1>2, <2>1, <3>1, MoveToFrontElements
  <2>3. TypeOK'
    BY <1>1, <1>3, <2>1, <2>2 DEF TypeOK
  <2>4. IndexesAgree'
    BY <1>2, <2>1, <2>2 DEF IndexesAgree, Member, Distinct, Capacity
  <2> QED BY <1>3, <2>3, <2>4 DEF IInv, Distinct
<1>5. CASE CacheMiss(p)
  <2> DEFINE evicted == Evicted(lru_list)
  <2>1. /\ p \notin DOMAIN page_map
        /\ page_map' = [q \in (DOMAIN page_map \ evicted) \cup {p} |->
                          IF q = p THEN [data |-> file[p], dirty |-> TRUE] ELSE page_map[q]]
        /\ file' = [q \in Pages |-> IF q \in evicted THEN page_map[q].data ELSE file[q]]
        /\ lru_list' = AddPage(lru_list, p)
        /\ num_pages' = IF p = num_pages THEN num_pages + 1 ELSE num_pages
    BY <1>5 DEF CacheMiss, Replace
  <2>2. ~Member(p, lru_list)
    BY <1>2, <2>1
  <2>3. /\ lru_list' \in Seq(Pages) /\ Distinct(lru_list') /\ Len(lru_list') <= Capacity
        /\ \A q : Member(q, lru_list') <=> q = p \/ (Member(q, lru_list) /\ q \notin evicted)
    BY <1>1, <1>2, <2>1, <2>2, AddPageElements
  <2>4. evicted \subseteq DOMAIN page_map
    <3>1. ASSUME NEW q \in evicted PROVE q \in DOMAIN page_map
      <4>1. Member(q, lru_list)
        BY <1>1, EvictedIsMember
      <4>2. q \in Pages
        BY <1>1, <4>1 DEF Member
      <4> QED BY <1>2, <4>1, <4>2
    <3> QED BY <3>1
  <2> HIDE DEF evicted
  <2>5. DOMAIN page_map' = (DOMAIN page_map \ evicted) \cup {p}
    BY <2>1
  <2>6. page_map' \in [DOMAIN page_map' -> CacheEntry]
    BY <1>1, <2>1, <2>5 DEF CacheEntry
  <2>7. file' \in [Pages -> Data]
    BY <1>1, <2>1, <2>4 DEF CacheEntry
  <2>8. num_pages' \in 0 .. FILE_PAGES_NUM
    BY <1>1, <2>1, PagerAssumption DEF PagerAssumption, Pages
  <2>9. TypeOK'
    BY <1>1, <1>3, <2>3, <2>5, <2>6, <2>7, <2>8 DEF TypeOK
  <2>10. IndexesAgree'
    BY <1>2, <2>3, <2>5 DEF IndexesAgree, Member, Distinct, Capacity
  <2> QED BY <1>3, <2>9, <2>10 DEF IInv, Distinct
<1> QED BY <1>4, <1>5 DEF get_page
LEMMA FlushedType ==
  ASSUME IInv, NEW n \in 0 .. Len(lru_list)
  PROVE  FlushedUpTo(n) \in [Pages -> Data]
<1>1. /\ file \in [Pages -> Data] /\ page_map \in [DOMAIN page_map -> CacheEntry]
      /\ lru_list \in Seq(Pages)
  BY DEF IInv, TypeOK
<1>2. ASSUME NEW p \in Pages, \E i \in 1 .. n : lru_list[i] = p /\ page_map[p].dirty
      PROVE  page_map[p].data \in Data
  <2>1. PICK i \in 1 .. n : lru_list[i] = p
    BY <1>2
  <2>2. i \in 1 .. Len(lru_list)
    BY <1>1
  <2>3. p \in DOMAIN page_map
    BY <2>1, <2>2 DEF IInv, IndexesAgree
  <2> QED BY <1>1, <2>3 DEF CacheEntry
<1> QED BY <1>1, <1>2 DEF FlushedUpTo

LEMMA NextIInv == IInv /\ [Next]_vars => IInv'
<1> SUFFICES ASSUME IInv, [Next]_vars PROVE IInv'
  OBVIOUS
<1>1. /\ file \in [Pages -> Data] /\ DOMAIN page_map \subseteq Pages
      /\ page_map \in [DOMAIN page_map -> CacheEntry]
      /\ lru_list \in Seq(Pages) /\ num_pages \in 0 .. FILE_PAGES_NUM
      /\ recent \in Seq(Pages) /\ used \in SUBSET Pages /\ flushed \in BOOLEAN /\ reopened \in BOOLEAN
  BY DEF IInv, TypeOK
<1>2. FILE_PAGES_NUM \in Nat \ {0} /\ 0 \in Pages
  BY PagerAssumption DEF PagerAssumption, Pages
<1>3. CASE ReadPage
  <2>1. PICK p \in used \cup {0} : get_page(p)
    BY <1>3 DEF ReadPage
  <2> QED BY <1>1, <1>2, <2>1, RequestIInv
<1>4. CASE NewPage
  <2>1. num_pages \in Pages /\ get_page(num_pages)
    BY <1>1, <1>2, <1>4 DEF NewPage, get_unused_page, Pages
  <2> QED BY <2>1, RequestIInv
<1>5. ASSUME NEW p \in Pages, NEW d \in Data, StoreInPage(p, d) PROVE IInv'
  <2>1. /\ p \in DOMAIN page_map /\ page_map' = [page_map EXCEPT ![p].data = d]
        /\ op' = "store"
        /\ UNCHANGED <<file, lru_list, num_pages, recent, used, flushed, reopened>>
    BY <1>5 DEF StoreInPage
  <2>2. DOMAIN page_map' = DOMAIN page_map /\ page_map' \in [DOMAIN page_map' -> CacheEntry]
    BY <1>1, <2>1 DEF CacheEntry
  <2>3. TypeOK'
    BY <1>1, <2>1, <2>2 DEF TypeOK
  <2>4. IndexesAgree'
    BY <2>1, <2>2 DEF IInv, IndexesAgree, Capacity
  <2> QED BY <2>1, <2>3, <2>4 DEF IInv, Distinct
<1>6. CASE flush_all
  <2>1. /\ file' = FlushedUpTo(Len(lru_list)) /\ flushed' = TRUE /\ op' = "none"
        /\ page_map' = [p \in DOMAIN page_map |-> [page_map[p] EXCEPT !.dirty = FALSE]]
        /\ UNCHANGED <<lru_list, num_pages, recent, used, reopened>>
    BY <1>6 DEF flush_all
  <2>2. DOMAIN page_map' = DOMAIN page_map /\ page_map' \in [DOMAIN page_map' -> CacheEntry]
    BY <1>1, <2>1 DEF CacheEntry
  <2>3. file' \in [Pages -> Data]
    BY <1>1, <2>1, FlushedType
  <2>4. TypeOK'
    BY <1>1, <2>1, <2>2, <2>3 DEF TypeOK
  <2>5. IndexesAgree'
    BY <2>1, <2>2 DEF IInv, IndexesAgree, Capacity
  <2> QED BY <2>1, <2>4, <2>5 DEF IInv, Distinct
<1>7. ASSUME NEW n \in 0 .. Len(lru_list), Reopen(n) PROVE IInv'
  <2>1. /\ file' = FlushedUpTo(n) /\ page_map' = NoEntries /\ lru_list' = <<>>
        /\ num_pages' = 0 /\ recent' = <<>> /\ flushed' = FALSE /\ op' = "open"
        /\ used' = used /\ reopened' = TRUE
    BY <1>7 DEF Reopen
  <2>2. file' \in [Pages -> Data]
    BY <2>1, FlushedType
  <2>3. TypeOK'
    <3>1. DOMAIN page_map' = {} /\ page_map' \in [DOMAIN page_map' -> CacheEntry]
      BY <2>1 DEF NoEntries
    <3>2. lru_list' \in Seq(Pages) /\ recent' \in Seq(Pages) /\ num_pages' \in 0 .. FILE_PAGES_NUM
      BY <1>2, <2>1
    <3> QED BY <1>1, <2>1, <2>2, <3>1, <3>2 DEF TypeOK
  <2>4. IndexesAgree'
    BY <2>1, CapacityPositive DEF IndexesAgree, Capacity, NoEntries
  <2> QED BY <2>1, <2>3, <2>4 DEF IInv, Distinct
<1>8. CASE UNCHANGED vars
  <2>1. TypeOK' /\ IndexesAgree'
    BY <1>8 DEF IInv, TypeOK, IndexesAgree, Capacity, vars
  <2> QED BY <1>8, <2>1 DEF IInv, Distinct, vars
<1> QED BY <1>3, <1>4, <1>5, <1>6, <1>7, <1>8 DEF Next

LEMMA Invariance == Spec => []IInv
<1> QED BY InitIInv, NextIInv, PTL DEF Spec

(* Whatever the sizes of the file and the cache, every state of the pager  *)
(* is of its type: in particular num_pages stays within the file and the   *)
(* cache only ever holds pages of the file.                                *)
THEOREM TypeCorrect == Spec => []TypeOK
<1>1. IInv => TypeOK
  BY DEF IInv
<1> QED BY <1>1, Invariance, PTL

(* page_map and lru_list always hold the same pages, each once, and never  *)
(* more than the cache's capacity.                                         *)
THEOREM IndexesCorrect == Spec => []IndexesAgree
<1>1. IInv => IndexesAgree
  BY DEF IInv
<1> QED BY <1>1, Invariance, PTL

-----------------------------------------------------------------------------
(***************************************************************************)
(* Eviction is by least recent use.  A hit finds the page at the same      *)
(* place in both lists, since neither holds it twice; a miss finds it, if  *)
(* at all, behind a full cache in recent.                                  *)
(***************************************************************************)

\* How many of the pages requested fit in the cache.
Fitting(list) == IF Len(list) < Capacity THEN Len(list) ELSE Capacity

\* The two lists place by place.
Agrees(cached, requested) ==
  /\ Len(cached) = Fitting(requested)
  /\ \A i \in 1 .. Len(cached) : cached[i] = requested[i]

LEMMA MostRecentAgrees ==
  ASSUME NEW S, NEW cached \in Seq(S), NEW requested \in Seq(S)
  PROVE  cached = SubSeq(requested, 1, Fitting(requested)) <=> Agrees(cached, requested)
<1> DEFINE first == SubSeq(requested, 1, Fitting(requested))
<1>1. Len(requested) \in Nat /\ Capacity \in Nat \ {0} /\ Len(cached) \in Nat
  BY CapacityPositive
<1>2. Fitting(requested) \in 0 .. Len(requested)
  BY <1>1 DEF Fitting
<1>3. \A i \in 1 .. Fitting(requested) : requested[i] \in S
  BY <1>1, <1>2
<1>4. /\ first \in Seq(S) /\ Len(first) = Fitting(requested)
      /\ \A i \in 1 .. Fitting(requested) : first[i] = requested[i]
  BY <1>1, <1>2, <1>3, SubSeqProperties
<1> HIDE DEF first
<1>5. ASSUME Agrees(cached, requested) PROVE cached = first
  <2>1. Len(cached) = Len(first) /\ \A i \in 1 .. Len(cached) : cached[i] = first[i]
    BY <1>4, <1>5 DEF Agrees
  <2> QED BY <1>4, <2>1, SeqEqual
<1>6. ASSUME cached = first PROVE Agrees(cached, requested)
  BY <1>4, <1>6 DEF Agrees
<1> QED BY <1>5, <1>6 DEF first

LEMMA RequestMostRecent ==
  ASSUME IInv, Agrees(lru_list, recent), NEW p \in Pages, get_page(p)
  PROVE  Agrees(lru_list', recent')
<1> DEFINE n == Len(lru_list)
           m == Len(recent)
<1>1. /\ lru_list \in Seq(Pages) /\ recent \in Seq(Pages) /\ Distinct(recent)
      /\ n \in Nat /\ m \in Nat /\ Capacity \in Nat \ {0}
  BY CapacityPositive DEF IInv, TypeOK
<1>2. /\ \A q \in Pages : q \in DOMAIN page_map <=> Member(q, lru_list)
      /\ Distinct(lru_list) /\ n <= Capacity
  BY IndexesAgreeMember DEF IInv
<1>3. /\ n = Fitting(recent)
      /\ \A i \in 1 .. n : lru_list[i] = recent[i]
  BY DEF Agrees
<1>4. n <= m /\ (n = m \/ n = Capacity)
  BY <1>1, <1>3 DEF Fitting
<1>5. recent' = IF Member(p, recent) THEN MoveToFront(recent, p) ELSE <<p>> \o recent
  BY DEF get_page, Member
<1>6. ASSUME Member(p, recent)
      PROVE  /\ recent' \in Seq(Pages) /\ Len(recent') = m /\ recent'[1] = p
             /\ \A i \in 2 .. m : recent'[i] = IF i - 1 < Position(recent, p) THEN recent[i - 1] ELSE recent[i]
  BY <1>1, <1>5, <1>6, MoveToFrontAt
<1>7. CASE CacheHit(p)
  <2> DEFINE k == Position(lru_list, p)
  <2>1. Member(p, lru_list) /\ lru_list' = MoveToFront(lru_list, p)
    BY <1>2, <1>7 DEF CacheHit
  <2>2. k \in 1 .. n /\ lru_list[k] = p
    BY <2>1, PositionFound
  <2>3. k \in 1 .. m /\ recent[k] = p
    BY <1>1, <1>3, <1>4, <2>2
  <2>4. Member(p, recent)
    BY <2>3 DEF Member
  <2>5. Position(recent, p) = k
    <3>1. Position(recent, p) \in 1 .. m /\ recent[Position(recent, p)] = p
      BY <2>4, PositionFound
    <3> QED BY <1>1, <2>3, <3>1 DEF Distinct
  <2>6. /\ Len(lru_list') = n /\ lru_list'[1] = p
        /\ \A i \in 2 .. n : lru_list'[i] = IF i - 1 < k THEN lru_list[i - 1] ELSE lru_list[i]
    BY <1>1, <2>1, MoveToFrontAt
  <2> HIDE DEF k
  <2>7. ASSUME NEW i \in 2 .. n PROVE lru_list'[i] = recent'[i]
    <3>1. i \in 2 .. m /\ i - 1 \in 1 .. n /\ i \in 1 .. n
      BY <1>1, <1>4
    <3> QED BY <1>3, <1>6, <2>4, <2>5, <2>6, <3>1
  <2>8. Fitting(recent') = n
    BY <1>3, <1>6, <2>4 DEF Fitting
  <2>9. \A i \in 1 .. n : i = 1 \/ i \in 2 .. n
    BY <1>1
  <2> QED BY <1>6, <2>4, <2>6, <2>7, <2>8, <2>9 DEF Agrees
<1>8. CASE CacheMiss(p)
  <2> DEFINE kept == KeptLength(lru_list)
  <2>1. ~Member(p, lru_list) /\ lru_list' = AddPage(lru_list, p)
    BY <1>2, <1>8 DEF CacheMiss
  <2>2. /\ kept \in 0 .. n
        /\ kept = IF n < Capacity THEN n ELSE Capacity - 1
        /\ Len(lru_list') = kept + 1 /\ lru_list'[1] = p
        /\ \A i \in 1 .. kept : lru_list'[i + 1] = lru_list[i]
    <3>1. lru_list \in Seq(Pages) /\ Len(lru_list) <= Capacity /\ p \in Pages
      BY <1>1, <1>2
    <3>2. /\ KeptLength(lru_list) \in 0 .. Len(lru_list)
          /\ KeptLength(lru_list) = IF Len(lru_list) < Capacity THEN Len(lru_list) ELSE Capacity - 1
          /\ Len(AddPage(lru_list, p)) = KeptLength(lru_list) + 1
          /\ AddPage(lru_list, p)[1] = p
          /\ \A i \in 1 .. KeptLength(lru_list) : AddPage(lru_list, p)[i + 1] = lru_list[i]
      BY <3>1, AddPageAt
    <3> QED BY <2>1, <3>2, Zenon
  <2> HIDE DEF kept
  <2>3. SUFFICES /\ Fitting(recent') = kept + 1 /\ recent'[1] = p
                 /\ \A i \in 1 .. kept : recent'[i + 1] = recent[i]
    <3>1. ASSUME NEW i \in 2 .. kept + 1 PROVE lru_list'[i] = recent'[i]
      <4>1. i - 1 \in 1 .. kept /\ i - 1 \in 1 .. n /\ (i - 1) + 1 = i
        BY <1>1, <2>2
      <4> QED BY <1>3, <2>2, <2>3, <4>1
    <3>2. \A i \in 1 .. kept + 1 : i = 1 \/ i \in 2 .. kept + 1
      BY <1>1, <2>2
    <3> QED BY <2>2, <2>3, <3>1, <3>2 DEF Agrees
  <2>4. CASE Member(p, recent)
    <3>1. Position(recent, p) \in 1 .. m /\ recent[Position(recent, p)] = p
      BY <2>4, PositionFound
    <3>2. Position(recent, p) > n
      <4>1. SUFFICES ASSUME Position(recent, p) \in 1 .. n PROVE FALSE
        BY <1>1, <3>1
      <4> QED BY <1>3, <2>1, <3>1, <4>1 DEF Member
    <3>3. n = Capacity /\ kept = Capacity - 1 /\ m >= Capacity
      BY <1>1, <1>4, <2>2, <3>1, <3>2
    <3>4. Fitting(recent') = kept + 1
      BY <1>1, <1>6, <2>4, <3>3 DEF Fitting
    <3>5. ASSUME NEW i \in 1 .. kept PROVE recent'[i + 1] = recent[i]
      <4>1. i + 1 \in 2 .. m /\ (i + 1) - 1 = i /\ i < Position(recent, p)
        BY <1>1, <3>1, <3>2, <3>3
      <4> QED BY <1>6, <2>4, <4>1
    <3> QED BY <1>6, <2>4, <3>4, <3>5
  <2>5. CASE ~Member(p, recent)
    <3>1. /\ Len(recent') = m + 1 /\ recent'[1] = p
          /\ \A i \in 1 .. m : recent'[i + 1] = recent[i]
      BY <1>1, <1>5, <2>5
    <3>2. Fitting(recent') = kept + 1
      BY <1>1, <1>3, <1>4, <2>2, <3>1 DEF Fitting
    <3>3. \A i \in 1 .. kept : i \in 1 .. m
      BY <1>1, <1>4, <2>2
    <3> QED BY <3>1, <3>2, <3>3
  <2> QED BY <2>4, <2>5
<1> QED BY <1>7, <1>8 DEF get_page

LEMMA NextMostRecent == IInv /\ IInv' /\ HoldsMostRecent /\ [Next]_vars => HoldsMostRecent'
<1> SUFFICES ASSUME IInv, IInv', HoldsMostRecent, [Next]_vars PROVE HoldsMostRecent'
  OBVIOUS
<1>1. /\ lru_list \in Seq(Pages) /\ recent \in Seq(Pages)
      /\ lru_list' \in Seq(Pages) /\ recent' \in Seq(Pages)
      /\ num_pages \in 0 .. FILE_PAGES_NUM /\ used \in SUBSET Pages
  BY DEF IInv, TypeOK
<1>2. Agrees(lru_list, recent)
  BY <1>1, MostRecentAgrees DEF HoldsMostRecent, Fitting
<1>3. FILE_PAGES_NUM \in Nat \ {0} /\ 0 \in Pages
  BY PagerAssumption DEF PagerAssumption, Pages
<1>4. SUFFICES Agrees(lru_list', recent')
  <2>1. lru_list' = SubSeq(recent', 1, Fitting(recent'))
    BY <1>1, <1>4, MostRecentAgrees
  <2> QED BY <2>1 DEF HoldsMostRecent, Fitting, Capacity
<1>5. CASE ReadPage
  <2>1. PICK p \in used \cup {0} : get_page(p)
    BY <1>5 DEF ReadPage
  <2> QED BY <1>1, <1>2, <1>3, <2>1, RequestMostRecent
<1>6. CASE NewPage
  <2>1. num_pages \in Pages /\ get_page(num_pages)
    BY <1>1, <1>3, <1>6 DEF NewPage, get_unused_page, Pages
  <2> QED BY <1>2, <2>1, RequestMostRecent
<1>7. CASE lru_list' = lru_list /\ recent' = recent
  BY <1>2, <1>7
<1>8. CASE lru_list' = <<>> /\ recent' = <<>>
  BY <1>8, CapacityPositive DEF Agrees, Fitting
<1>9. CASE \E p \in Pages, d \in Data : StoreInPage(p, d)
  BY <1>7, <1>9 DEF StoreInPage
<1>10. CASE flush_all
  BY <1>7, <1>10 DEF flush_all
<1>11. CASE \E n \in 0 .. Len(lru_list) : Reopen(n)
  BY <1>8, <1>11 DEF Reopen
<1>12. CASE UNCHANGED vars
  BY <1>7, <1>12 DEF vars
<1> QED BY <1>5, <1>6, <1>9, <1>10, <1>11, <1>12 DEF Next

(* Whatever its size, the cache holds exactly the pages requested last, in *)
(* that order, as many as fit: a pointer get_page() returned is good until *)
(* Capacity other pages have been requested.                               *)
THEOREM MostRecentKept == Spec => []HoldsMostRecent
<1>1. Init => HoldsMostRecent
  <2> SUFFICES ASSUME Init PROVE HoldsMostRecent
    OBVIOUS
  <2>1. <<>> \in Seq(Pages) /\ Agrees(<<>>, <<>>)
    BY CapacityPositive DEF Agrees, Fitting
  <2>2. <<>> = SubSeq(<<>>, 1, Fitting(<<>>))
    BY <2>1, MostRecentAgrees
  <2> QED BY <2>2 DEF Init, HoldsMostRecent, Fitting
<1> QED BY <1>1, NextMostRecent, Invariance, PTL DEF Spec

-----------------------------------------------------------------------------
(***************************************************************************)
(* Two facts about a session that hold until something ends them: before   *)
(* the first flush every entry is dirty, and before the first reopening    *)
(* the pages handed out are those below num_pages.                         *)
(***************************************************************************)

DirtyUntilFlushed ==
  ~flushed => \A p \in DOMAIN page_map : page_map[p].dirty

UsedBelowNumPages ==
  ~reopened => used = {p \in Pages : p < num_pages} /\ DOMAIN page_map \subseteq used

LEMMA InitSession == Init => DirtyUntilFlushed /\ UsedBelowNumPages
<1> SUFFICES ASSUME Init PROVE DirtyUntilFlushed /\ UsedBelowNumPages
  OBVIOUS
<1>1. DOMAIN page_map = {} /\ used = {} /\ num_pages = 0
  BY DEF Init, NoEntries
<1>2. \A p \in Pages : ~(p < 0)
  BY PagerAssumption DEF PagerAssumption, Pages
<1> QED BY <1>1, <1>2 DEF DirtyUntilFlushed, UsedBelowNumPages

LEMMA RequestDirty ==
  ASSUME IInv, DirtyUntilFlushed, NEW p \in Pages, get_page(p)
  PROVE  DirtyUntilFlushed'
<1>1. flushed' = flushed
  BY DEF get_page
<1>2. CASE CacheHit(p)
  BY <1>1, <1>2 DEF CacheHit, DirtyUntilFlushed
<1>3. CASE CacheMiss(p)
  <2>1. page_map' = [q \in (DOMAIN page_map \ Evicted(lru_list)) \cup {p} |->
                       IF q = p THEN [data |-> file[p], dirty |-> TRUE] ELSE page_map[q]]
    BY <1>3 DEF CacheMiss, Replace
  <2> QED BY <1>1, <2>1 DEF DirtyUntilFlushed
<1> QED BY <1>2, <1>3 DEF get_page

\* A page asked for is one handed out before, or the next unused one.
LEMMA RequestUsed ==
  ASSUME IInv, UsedBelowNumPages, NEW p \in Pages, get_page(p), p \in used \cup {0, num_pages}
  PROVE  UsedBelowNumPages'
<1> SUFFICES ASSUME ~reopened'
             PROVE  used' = {q \in Pages : q < num_pages'} /\ DOMAIN page_map' \subseteq used'
  BY DEF UsedBelowNumPages
<1>1. ~reopened /\ used' = used \cup {p}
  BY DEF get_page
<1>2. used = {q \in Pages : q < num_pages} /\ DOMAIN page_map \subseteq used
  BY <1>1 DEF UsedBelowNumPages
<1>3. num_pages \in Nat /\ \A q \in Pages : q \in Nat
  BY PagerAssumption DEF IInv, TypeOK, PagerAssumption, Pages
<1>4. p < num_pages \/ p = num_pages
  BY <1>2, <1>3
<1>5. CASE CacheHit(p)
  <2>1. page_map' = page_map /\ num_pages' = num_pages /\ p \in used
    BY <1>2, <1>5 DEF CacheHit
  <2> QED BY <1>1, <1>2, <2>1
<1>6. CASE CacheMiss(p)
  <2>1. DOMAIN page_map' = (DOMAIN page_map \ Evicted(lru_list)) \cup {p}
    BY <1>6 DEF CacheMiss, Replace
  <2>2. num_pages' = IF p = num_pages THEN num_pages + 1 ELSE num_pages
    BY <1>6 DEF CacheMiss
  <2>3. ASSUME NEW q \in Pages
        PROVE  q < num_pages' <=> q < num_pages \/ q = p
    BY <1>3, <1>4, <2>2
  <2> QED BY <1>1, <1>2, <2>1, <2>3
<1> QED BY <1>5, <1>6 DEF get_page

LEMMA NextSession ==
  IInv /\ DirtyUntilFlushed /\ UsedBelowNumPages /\ [Next]_vars
    => DirtyUntilFlushed' /\ UsedBelowNumPages'
<1> SUFFICES ASSUME IInv, DirtyUntilFlushed, UsedBelowNumPages, [Next]_vars
             PROVE  DirtyUntilFlushed' /\ UsedBelowNumPages'
  OBVIOUS
<1>1. page_map \in [DOMAIN page_map -> CacheEntry] /\ used \in SUBSET Pages
  BY DEF IInv, TypeOK
<1>2. 0 \in Pages
  BY PagerAssumption DEF PagerAssumption, Pages
<1>3. CASE ReadPage
  <2>1. PICK p \in used \cup {0} : get_page(p)
    BY <1>3 DEF ReadPage
  <2> QED BY <1>1, <1>2, <2>1, RequestDirty, RequestUsed
<1>4. CASE NewPage
  <2>1. num_pages \in Pages /\ get_page(num_pages)
    BY <1>4, PagerAssumption DEF NewPage, get_unused_page, IInv, TypeOK, PagerAssumption, Pages
  <2> QED BY <2>1, RequestDirty, RequestUsed
<1>5. ASSUME NEW p \in Pages, NEW d \in Data, StoreInPage(p, d)
      PROVE  DirtyUntilFlushed' /\ UsedBelowNumPages'
  <2>1. /\ page_map' = [page_map EXCEPT ![p].data = d]
        /\ UNCHANGED <<num_pages, used, flushed, reopened>>
    BY <1>5 DEF StoreInPage
  <2>2. /\ DOMAIN page_map' = DOMAIN page_map
        /\ \A q \in DOMAIN page_map : page_map'[q].dirty = page_map[q].dirty
    BY <1>1, <2>1 DEF CacheEntry
  <2> QED BY <2>1, <2>2 DEF DirtyUntilFlushed, UsedBelowNumPages
<1>6. CASE flush_all
  <2>1. flushed' /\ DOMAIN page_map' = DOMAIN page_map /\ UNCHANGED <<num_pages, used, reopened>>
    BY <1>6 DEF flush_all
  <2> QED BY <2>1 DEF DirtyUntilFlushed, UsedBelowNumPages
<1>7. ASSUME NEW n \in 0 .. Len(lru_list), Reopen(n)
      PROVE  DirtyUntilFlushed' /\ UsedBelowNumPages'
  <2>1. DOMAIN page_map' = {} /\ reopened'
    BY <1>7 DEF Reopen, NoEntries
  <2> QED BY <2>1 DEF DirtyUntilFlushed, UsedBelowNumPages
<1>8. CASE UNCHANGED vars
  BY <1>8 DEF DirtyUntilFlushed, UsedBelowNumPages, vars
<1> QED BY <1>3, <1>4, <1>5, <1>6, <1>7, <1>8 DEF Next

LEMMA SessionInvariance == Spec => [](DirtyUntilFlushed /\ UsedBelowNumPages)
<1> QED BY InitSession, NextSession, Invariance, PTL DEF Spec

(* The first flush_all() of a session makes the file equal to what a read  *)
(* returns, page by page, whatever was cached, evicted or stored before.   *)
THEOREM FirstFlushCorrect == Spec => FirstFlushIsDurable
<1>1. IInv /\ DirtyUntilFlushed /\ [Next]_vars => [flush_all /\ ~flushed => file' = Contents]_vars
  <2> SUFFICES ASSUME IInv, DirtyUntilFlushed, flush_all, ~flushed PROVE file' = Contents
    OBVIOUS
  <2>1. file' = FlushedUpTo(Len(lru_list))
    BY DEF flush_all
  <2>2. ASSUME NEW p \in Pages
        PROVE  p \in DOMAIN page_map
                 <=> \E i \in 1 .. Len(lru_list) : lru_list[i] = p /\ page_map[p].dirty
    BY DEF IInv, IndexesAgree, DirtyUntilFlushed
  <2> QED BY <2>1, <2>2 DEF FlushedUpTo, Contents
<1> QED BY <1>1, Invariance, SessionInvariance, PTL DEF Spec, FirstFlushIsDurable

(* Until the file is opened a second time get_unused_page() names a page   *)
(* that was never handed out, whatever was evicted and loaded since.       *)
THEOREM NewPagesCorrect == Spec => NewPagesAreUnused
<1>1. IInv /\ UsedBelowNumPages /\ [Next]_vars
        => [NewPage /\ ~reopened => get_unused_page \notin used]_vars
  <2> SUFFICES ASSUME IInv, UsedBelowNumPages, ~reopened PROVE get_unused_page \notin used
    OBVIOUS
  <2>1. num_pages \in Nat /\ used = {p \in Pages : p < num_pages}
    BY PagerAssumption DEF IInv, TypeOK, UsedBelowNumPages, PagerAssumption
  <2> QED BY <2>1 DEF get_unused_page
<1> QED BY <1>1, Invariance, SessionInvariance, PTL DEF Spec, NewPagesAreUnused
-----------------------------------------------------------------------------
(***************************************************************************)
(* The pager implements the page store: a request changes no contents and  *)
(* persists what it evicts, a store is a write, flush_all() persists what  *)
(* it writes, and reopening restarts from what reached the file.           *)
(***************************************************************************)

LEMMA RequestPersists ==
  ASSUME IInv, NEW p \in Pages, get_page(p)
  PROVE  [Store!Next]_Store!vars
<1>1. /\ file \in [Pages -> Data] /\ DOMAIN page_map \subseteq Pages
      /\ lru_list \in Seq(Pages)
  BY DEF IInv, TypeOK
<1>2. op' = "none"
  BY DEF get_page
<1>3. CASE CacheHit(p)
  <2>1. Contents' = Contents /\ file' = [q \in Pages |-> file[q]]
    BY <1>1, <1>3 DEF CacheHit, Contents
  <2>2. Store!Persist({})
    BY <1>2, <2>1 DEF Store!Persist
  <2> QED BY <2>2 DEF Store!Next
<1>4. CASE CacheMiss(p)
  <2> DEFINE evicted == Evicted(lru_list)
  <2>1. /\ p \notin DOMAIN page_map
        /\ page_map' = [q \in (DOMAIN page_map \ evicted) \cup {p} |->
                          IF q = p THEN [data |-> file[p], dirty |-> TRUE] ELSE page_map[q]]
        /\ file' = [q \in Pages |-> IF q \in evicted THEN page_map[q].data ELSE file[q]]
    BY <1>4 DEF CacheMiss, Replace
  <2>2. evicted \subseteq DOMAIN page_map
    <3>1. ASSUME NEW q \in evicted PROVE q \in DOMAIN page_map
      <4>1. Member(q, lru_list)
        BY <1>1, EvictedIsMember
      <4> QED BY <1>1, <4>1 DEF Member, IInv, IndexesAgree
    <3> QED BY <3>1
  <2> HIDE DEF evicted
  <2>3. Contents' = Contents
    <3>1. ASSUME NEW q \in Pages PROVE Contents'[q] = Contents[q]
      <4>1. CASE q = p
        BY <1>1, <2>1, <4>1 DEF Contents
      <4>2. CASE q \in evicted
        BY <2>1, <2>2, <4>2 DEF Contents
      <4>3. CASE q # p /\ q \notin evicted
        BY <2>1, <4>3 DEF Contents
      <4> QED BY <4>1, <4>2, <4>3
    <3> QED BY <3>1 DEF Contents
  <2>4. file' = [q \in Pages |-> IF q \in evicted THEN Contents[q] ELSE file[q]]
    BY <2>1, <2>2 DEF Contents
  <2>5. Store!Persist(evicted)
    BY <1>2, <2>3, <2>4 DEF Store!Persist
  <2>6. evicted \in SUBSET Pages
    BY <1>1, <2>2
  <2> QED BY <2>5, <2>6 DEF Store!Next
<1> QED BY <1>3, <1>4 DEF get_page

\* What the first n entries of a flush put in the file.
LEMMA FlushPersists ==
  ASSUME IInv, NEW n \in 0 .. Len(lru_list)
  PROVE  \E S \in SUBSET Pages :
           FlushedUpTo(n) = [p \in Pages |-> IF p \in S THEN Contents[p] ELSE file[p]]
<1> DEFINE S == {p \in Pages : \E i \in 1 .. n : lru_list[i] = p /\ page_map[p].dirty}
<1>1. lru_list \in Seq(Pages)
  BY DEF IInv, TypeOK
<1>2. \A p \in S : p \in DOMAIN page_map
  <2>1. n \in Nat /\ \A i \in 1 .. n : i \in 1 .. Len(lru_list)
    BY <1>1
  <2> QED BY <2>1 DEF IInv, IndexesAgree
<1>3. FlushedUpTo(n) = [p \in Pages |-> IF p \in S THEN Contents[p] ELSE file[p]]
  BY <1>2 DEF FlushedUpTo, Contents
<1>4. S \in SUBSET Pages
  OBVIOUS
<1> HIDE DEF S
<1> QED BY <1>3, <1>4

LEMMA StoreInit == Init => Store!Init
BY DEF Init, Store!Init, Contents, NoEntries

LEMMA StoreStep == IInv /\ [Next]_vars => [Store!Next]_Store!vars
<1> SUFFICES ASSUME IInv, [Next]_vars PROVE [Store!Next]_Store!vars
  OBVIOUS
<1>1. /\ file \in [Pages -> Data] /\ DOMAIN page_map \subseteq Pages
      /\ page_map \in [DOMAIN page_map -> CacheEntry]
      /\ lru_list \in Seq(Pages) /\ Len(lru_list) \in 0 .. Len(lru_list)
      /\ num_pages \in 0 .. FILE_PAGES_NUM /\ used \in SUBSET Pages
  BY DEF IInv, TypeOK
<1>2. FILE_PAGES_NUM \in Nat \ {0} /\ 0 \in Pages
  BY PagerAssumption DEF PagerAssumption, Pages
<1>3. CASE ReadPage
  <2>1. PICK p \in used \cup {0} : get_page(p)
    BY <1>3 DEF ReadPage
  <2> QED BY <1>1, <1>2, <2>1, RequestPersists
<1>4. CASE NewPage
  <2>1. num_pages \in Pages /\ get_page(num_pages)
    BY <1>1, <1>2, <1>4 DEF NewPage, get_unused_page, Pages
  <2> QED BY <2>1, RequestPersists
<1>5. ASSUME NEW p \in Pages, NEW d \in Data, StoreInPage(p, d)
      PROVE  [Store!Next]_Store!vars
  <2>1. /\ p \in DOMAIN page_map /\ page_map' = [page_map EXCEPT ![p].data = d]
        /\ file' = file /\ op' = "store"
    BY <1>5 DEF StoreInPage
  <2>2. Contents' = [Contents EXCEPT ![p] = d]
    BY <1>1, <2>1 DEF Contents, CacheEntry
  <2>3. Store!Write(p, d)
    BY <2>1, <2>2 DEF Store!Write
  <2> QED BY <2>3 DEF Store!Next
<1>6. CASE flush_all
  <2>1. /\ file' = FlushedUpTo(Len(lru_list)) /\ op' = "none"
        /\ page_map' = [p \in DOMAIN page_map |-> [page_map[p] EXCEPT !.dirty = FALSE]]
    BY <1>6 DEF flush_all
  <2>2. PICK S \in SUBSET Pages :
          file' = [p \in Pages |-> IF p \in S THEN Contents[p] ELSE file[p]]
    BY <1>1, <2>1, FlushPersists
  <2>3. Contents' = Contents
    <3>1. ASSUME NEW p \in Pages PROVE Contents'[p] = Contents[p]
      <4>1. CASE p \in DOMAIN page_map
        BY <1>1, <2>1, <4>1 DEF Contents, CacheEntry
      <4>2. CASE p \notin DOMAIN page_map
        <5>1. ~\E i \in 1 .. Len(lru_list) : lru_list[i] = p
          BY <4>2 DEF IInv, IndexesAgree
        <5> QED BY <2>1, <4>2, <5>1 DEF Contents, FlushedUpTo
      <4> QED BY <4>1, <4>2
    <3> QED BY <3>1 DEF Contents
  <2>4. Store!Persist(S)
    BY <2>1, <2>2, <2>3 DEF Store!Persist
  <2> QED BY <2>4 DEF Store!Next
<1>7. ASSUME NEW n \in 0 .. Len(lru_list), Reopen(n)
      PROVE  [Store!Next]_Store!vars
  <2>1. file' = FlushedUpTo(n) /\ page_map' = NoEntries /\ op' = "open"
    BY <1>7 DEF Reopen
  <2>2. PICK S \in SUBSET Pages :
          file' = [p \in Pages |-> IF p \in S THEN Contents[p] ELSE file[p]]
    BY <2>1, FlushPersists
  <2>3. Contents' = file'
    BY <2>1, <2>2 DEF Contents, NoEntries
  <2>4. Store!Restart(S)
    BY <2>1, <2>2, <2>3 DEF Store!Restart
  <2> QED BY <2>4 DEF Store!Next
<1>8. CASE UNCHANGED vars
  BY <1>8 DEF vars, Store!vars, Contents
<1> QED BY <1>3, <1>4, <1>5, <1>6, <1>7, <1>8 DEF Next

(* The pager implements the page store: whatever the size of the cache and *)
(* the order of hits, misses, evictions, flushes and reopenings, a page    *)
(* reads as what was last stored in it, and the file only ever receives    *)
(* current contents.                                                       *)
THEOREM PagerImplementsPageStore == Spec => ImplementsPageStore
<1> QED BY StoreInit, StoreStep, Invariance, PTL DEF Spec, ImplementsPageStore, Store!Spec
=============================================================================
