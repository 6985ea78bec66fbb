--------------------------- MODULE WorkQueueProofs ---------------------------
(***************************************************************************)
(* Proofs about the work queue (module WorkQueue), for any number of       *)
(* producers, consumers and items.                                         *)
(***************************************************************************)
EXTENDS WorkQueue, FiniteSetTheorems, TLAPS

-----------------------------------------------------------------------------
(***************************************************************************)
(* The inductive invariant.                                                *)
(***************************************************************************)

\* Inside add() and remove() a thread holds the mutex, except in the wait.
MutexHeld == \A t \in Threads : at[t] \notin {"outside", "waiting", "woken"} <=> m_mutex = t

\* The item a thread is adding, has seen at the head, or is about to return.
ItemsHeld ==
  /\ \A p \in Producers : at[p] = "push_back" => item[p] \in Items
  /\ \A c \in Consumers : at[c] = "pop_front" => m_queue # <<>> /\ item[c] = Head(m_queue)
  /\ \A c \in Consumers : at[c] = "unlock" => item[c] \in Items

IInv == TypeOK /\ MutexHeld /\ ItemsHeld /\ NeverPopsEmpty /\ NoLostWakeup

LEMMA InitIInv == Init => IInv
<1> SUFFICES ASSUME Init PROVE IInv
  OBVIOUS
<1>1. TypeOK
  BY DEF Init, TypeOK, Threads, AddLabels, RemoveLabels
<1>2. MutexHeld /\ ItemsHeld /\ NeverPopsEmpty
  BY WorkQueueAssumption DEF WorkQueueAssumption, Init, MutexHeld, ItemsHeld, NeverPopsEmpty, Threads
<1>3. Waiting = {}
  BY DEF Init, Waiting, Threads
<1> QED BY <1>1, <1>2, <1>3 DEF IInv, NoLostWakeup

-----------------------------------------------------------------------------
(***************************************************************************)
(* Type and mutual exclusion: each action moves one thread, that holds the *)
(* mutex or takes it free, except that Signal also moves the thread it     *)
(* wakes, from one label without the mutex to another.                     *)
(***************************************************************************)

SafeInv == TypeOK /\ MutexHeld /\ ItemsHeld /\ NeverPopsEmpty

LEMMA AddKeeps ==
  ASSUME IInv, NEW p \in Producers, Add(p)
  PROVE  SafeInv'
<1> USE WorkQueueAssumption DEF WorkQueueAssumption, Threads, Goto, AddLabels, RemoveLabels
<1>1. CASE AddLock(p)
  BY <1>1 DEF IInv, SafeInv, TypeOK, MutexHeld, ItemsHeld, NeverPopsEmpty, AddLock
<1>2. CASE PushBack(p)
  BY <1>2 DEF IInv, SafeInv, TypeOK, MutexHeld, ItemsHeld, NeverPopsEmpty, PushBack
<1>3. CASE Signal(p)
  <2> USE DEF IInv, SafeInv, TypeOK, MutexHeld, ItemsHeld, NeverPopsEmpty
  <2>1. at[p] = "signal" /\ UNCHANGED <<m_queue, m_mutex, item, added, returned>>
    BY <1>3 DEF Signal
  <2>2. CASE Waiting = {}
    <3>1. at' = [at EXCEPT ![p] = "unlock"]
      BY <1>3, <2>2 DEF Signal
    <3> QED BY <2>1, <3>1
  <2>3. CASE Waiting # {}
    <3>1. PICK c \in Waiting : at' = [at EXCEPT ![p] = "unlock", ![c] = "woken"]
      BY <1>3, <2>3 DEF Signal
    <3>2. c \in Consumers /\ c # p /\ at[c] = "waiting"
      BY <2>1 DEF Waiting
    <3> QED BY <2>1, <3>1, <3>2
  <2> QED BY <2>2, <2>3
<1>4. CASE AddUnlock(p)
  BY <1>4 DEF IInv, SafeInv, TypeOK, MutexHeld, ItemsHeld, NeverPopsEmpty, AddUnlock
<1> QED BY <1>1, <1>2, <1>3, <1>4 DEF Add

LEMMA RemoveKeeps ==
  ASSUME IInv, NEW c \in Consumers, Remove(c) \/ SpuriousWakeup(c)
  PROVE  SafeInv'
<1> USE WorkQueueAssumption DEF WorkQueueAssumption, Threads, Goto, AddLabels, RemoveLabels
<1>1. CASE RemoveLock(c)
  BY <1>1 DEF IInv, SafeInv, TypeOK, MutexHeld, ItemsHeld, NeverPopsEmpty, RemoveLock
<1>2. CASE TestEmpty(c)
  BY <1>2 DEF IInv, SafeInv, TypeOK, MutexHeld, ItemsHeld, NeverPopsEmpty, TestEmpty
<1>3. CASE SpuriousWakeup(c)
  BY <1>3 DEF IInv, SafeInv, TypeOK, MutexHeld, ItemsHeld, NeverPopsEmpty, SpuriousWakeup
<1>4. CASE WaitReturns(c)
  BY <1>4 DEF IInv, SafeInv, TypeOK, MutexHeld, ItemsHeld, NeverPopsEmpty, WaitReturns
<1>5. CASE Front(c)
  BY <1>5 DEF IInv, SafeInv, TypeOK, MutexHeld, ItemsHeld, NeverPopsEmpty, Front
<1>6. CASE PopFront(c)
  BY <1>6 DEF IInv, SafeInv, TypeOK, MutexHeld, ItemsHeld, NeverPopsEmpty, PopFront
<1>7. CASE RemoveUnlock(c)
  BY <1>7 DEF IInv, SafeInv, TypeOK, MutexHeld, ItemsHeld, NeverPopsEmpty, RemoveUnlock
<1> QED BY <1>1, <1>2, <1>3, <1>4, <1>5, <1>6, <1>7 DEF Remove

-----------------------------------------------------------------------------
(***************************************************************************)
(* No wakeup is lost.  The number of items grows only at a push_back(),    *)
(* which makes a producer owe a signal; a signal passes the debt to the    *)
(* consumer it wakes; an awake consumer goes out of account only with an   *)
(* item, or to sleep before an empty queue.                                *)
(***************************************************************************)

LEMMA Counts ==
  /\ IsFiniteSet(Awake) /\ Cardinality(Awake) \in Nat
  /\ IsFiniteSet(Announcing) /\ Cardinality(Announcing) \in Nat
<1>1. IsFiniteSet(Awake) /\ IsFiniteSet(Announcing)
  BY WorkQueueAssumption, FS_Subset DEF WorkQueueAssumption, Awake, Announcing
<1> QED BY <1>1, FS_CardinalityType

LEMMA AddLosesNoWakeup ==
  ASSUME IInv, NEW p \in Producers, Add(p)
  PROVE  NoLostWakeup'
<1> USE WorkQueueAssumption DEF WorkQueueAssumption, Threads, Goto
<1>1. /\ m_queue \in Seq(Items) /\ at \in [Threads -> AddLabels \cup RemoveLabels]
      /\ Len(m_queue) \in Nat
      /\ Waiting # {} => Len(m_queue) <= Cardinality(Awake) + Cardinality(Announcing)
  BY DEF IInv, TypeOK, NoLostWakeup
<1>2. CASE AddLock(p)
  <2>1. Waiting' = Waiting /\ Awake' = Awake /\ Announcing' = Announcing /\ m_queue' = m_queue
    BY <1>1, <1>2 DEF AddLock, Waiting, Awake, Announcing
  <2> QED BY <1>1, <2>1 DEF NoLostWakeup
<1>3. CASE PushBack(p)
  <2>1. /\ Waiting' = Waiting /\ Awake' = Awake
        /\ Announcing' = Announcing \cup {p} /\ p \notin Announcing
    BY <1>1, <1>3 DEF PushBack, Waiting, Awake, Announcing
  <2>2. Len(m_queue') = Len(m_queue) + 1
    BY <1>1, <1>3 DEF PushBack
  <2>3. Cardinality(Announcing') = Cardinality(Announcing) + 1
    BY <2>1, Counts, FS_AddElement
  <2> QED BY <1>1, <2>1, <2>2, <2>3, Counts DEF NoLostWakeup
<1>4. CASE Signal(p)
  <2>1. CASE Waiting = {}
    <3>1. Waiting' = {}
      BY <1>1, <1>4, <2>1 DEF Signal, Waiting
    <3> QED BY <3>1 DEF NoLostWakeup
  <2>2. CASE Waiting # {}
    <3>1. PICK c \in Waiting : at' = [at EXCEPT ![p] = "unlock", ![c] = "woken"]
      BY <1>4, <2>2 DEF Signal
    <3>2. /\ Awake' = Awake \cup {c} /\ c \notin Awake
          /\ Announcing' = Announcing \ {p} /\ p \in Announcing
          /\ m_queue' = m_queue
      BY <1>1, <1>4, <3>1 DEF Signal, Waiting, Awake, Announcing
    <3>3. /\ Cardinality(Awake') = Cardinality(Awake) + 1
          /\ Cardinality(Announcing') = Cardinality(Announcing) - 1
      BY <3>2, Counts, FS_AddElement, FS_RemoveElement
    <3> QED BY <1>1, <2>2, <3>2, <3>3, Counts DEF NoLostWakeup
  <2> QED BY <2>1, <2>2
<1>5. CASE AddUnlock(p)
  <2>1. Waiting' = Waiting /\ Awake' = Awake /\ Announcing' = Announcing /\ m_queue' = m_queue
    BY <1>1, <1>5 DEF AddUnlock, Waiting, Awake, Announcing
  <2> QED BY <1>1, <2>1 DEF NoLostWakeup
<1> QED BY <1>2, <1>3, <1>4, <1>5 DEF Add

LEMMA RemoveLosesNoWakeup ==
  ASSUME IInv, NEW c \in Consumers, Remove(c) \/ SpuriousWakeup(c)
  PROVE  NoLostWakeup'
<1> USE WorkQueueAssumption DEF WorkQueueAssumption, Threads, Goto
<1>1. /\ m_queue \in Seq(Items) /\ at \in [Threads -> AddLabels \cup RemoveLabels]
      /\ Len(m_queue) \in Nat
      /\ Waiting # {} => Len(m_queue) <= Cardinality(Awake) + Cardinality(Announcing)
  BY DEF IInv, TypeOK, NoLostWakeup
<1>2. CASE RemoveLock(c) \/ SpuriousWakeup(c)
  <2>1. /\ Waiting' \subseteq Waiting /\ Announcing' = Announcing
        /\ Awake' = Awake \cup {c} /\ c \notin Awake
        /\ m_queue' = m_queue
    BY <1>1, <1>2 DEF RemoveLock, SpuriousWakeup, Waiting, Awake, Announcing
  <2>2. Cardinality(Awake') = Cardinality(Awake) + 1
    BY <2>1, Counts, FS_AddElement
  <2> QED BY <1>1, <2>1, <2>2, Counts DEF NoLostWakeup
<1>3. CASE TestEmpty(c)
  <2>1. CASE m_queue = <<>>
    <3>1. Len(m_queue') = 0
      BY <1>3, <2>1 DEF TestEmpty
    <3>2. Awake' = Awake \ {c} /\ Announcing' = Announcing
      BY <1>1, <1>3, <2>1 DEF TestEmpty, Awake, Announcing
    <3>3. IsFiniteSet(Awake') /\ Cardinality(Awake') \in Nat
      BY <3>2, Counts, FS_RemoveElement, FS_CardinalityType
    <3> QED BY <3>1, <3>2, <3>3, Counts DEF NoLostWakeup
  <2>2. CASE m_queue # <<>>
    <3>1. Waiting' = Waiting /\ Awake' = Awake /\ Announcing' = Announcing /\ m_queue' = m_queue
      BY <1>1, <1>3, <2>2 DEF TestEmpty, Waiting, Awake, Announcing
    <3> QED BY <1>1, <3>1 DEF NoLostWakeup
  <2> QED BY <2>1, <2>2
<1>4. CASE WaitReturns(c) \/ Front(c) \/ RemoveUnlock(c)
  <2>1. Waiting' = Waiting /\ Awake' = Awake /\ Announcing' = Announcing /\ m_queue' = m_queue
    BY <1>1, <1>4 DEF WaitReturns, Front, RemoveUnlock, Waiting, Awake, Announcing
  <2> QED BY <1>1, <2>1 DEF NoLostWakeup
<1>5. CASE PopFront(c)
  <2>1. /\ Waiting' = Waiting /\ Announcing' = Announcing
        /\ Awake' = Awake \ {c} /\ c \in Awake
    BY <1>1, <1>5 DEF PopFront, Waiting, Awake, Announcing
  <2>2. Len(m_queue') = Len(m_queue) - 1
    BY <1>1, <1>5 DEF PopFront, IInv, NeverPopsEmpty
  <2>3. Cardinality(Awake') = Cardinality(Awake) - 1
    BY <2>1, Counts, FS_RemoveElement
  <2> QED BY <1>1, <2>1, <2>2, <2>3, Counts DEF NoLostWakeup
<1> QED BY <1>2, <1>3, <1>4, <1>5 DEF Remove

-----------------------------------------------------------------------------
LEMMA NextIInv == IInv /\ [Next]_vars => IInv'
<1> SUFFICES ASSUME IInv, [Next]_vars PROVE IInv'
  OBVIOUS
<1>1. ASSUME NEW p \in Producers, Add(p) PROVE IInv'
  BY <1>1, AddKeeps, AddLosesNoWakeup DEF IInv, SafeInv
<1>2. ASSUME NEW c \in Consumers, Remove(c) \/ SpuriousWakeup(c) PROVE IInv'
  BY <1>2, RemoveKeeps, RemoveLosesNoWakeup DEF IInv, SafeInv
<1>3. CASE UNCHANGED vars
  BY <1>3 DEF vars, IInv, TypeOK, MutexHeld, ItemsHeld, NeverPopsEmpty, NoLostWakeup, Waiting, Awake, Announcing
<1> QED BY <1>1, <1>2, <1>3 DEF Next

LEMMA Invariance == Spec => []IInv
<1> QED BY InitIInv, NextIInv, PTL DEF Spec

(* Every state is of its type, whoever calls add() and remove() when.      *)
THEOREM TypeCorrect == Spec => []TypeOK
<1>1. IInv => TypeOK
  BY DEF IInv
<1> QED BY <1>1, Invariance, PTL

(* No thread calls front() or pop_front() on an empty list, for any number *)
(* of threads and whatever wakeups come without a signal.                  *)
THEOREM NothingPoppedFromEmpty == Spec => []NeverPopsEmpty
<1>1. IInv => NeverPopsEmpty
  BY DEF IInv
<1> QED BY <1>1, Invariance, PTL

(* One signal for each item is enough: while a consumer sleeps, there are  *)
(* no more items than consumers awake to take them and signals to come.    *)
THEOREM NoWakeupLost == Spec => []NoLostWakeup
<1>1. IInv => NoLostWakeup
  BY DEF IInv
<1> QED BY <1>1, Invariance, PTL

-----------------------------------------------------------------------------
(***************************************************************************)
(* The queue implements Fifo.                                              *)
(***************************************************************************)

\* At most one thread is between pop_front() and its return: it holds the mutex.
LEMMA InOneHand ==
  ASSUME IInv, NEW t \in Threads, m_mutex = t
  PROVE  InHand \subseteq {t}
BY DEF IInv, MutexHeld, Threads, InHand

LEMMA FifoInit == Init => Queue!Init
<1> SUFFICES ASSUME Init PROVE Queue!Init
  OBVIOUS
<1>1. InHand = {}
  BY DEF Init, InHand, Threads
<1> QED BY <1>1 DEF Init, Queue!Init, Queued

\* A step that leaves the list, the items and who is about to return alone.
LEMMA SameQueue ==
  ASSUME InHand' = InHand, UNCHANGED m_queue, \A c \in InHand : item'[c] = item[c]
  PROVE  Queued' = Queued
<1>1. InHand # {} => (CHOOSE c \in InHand : TRUE) \in InHand
  OBVIOUS
<1>2. (CHOOSE c \in InHand : TRUE)' = (CHOOSE c \in InHand : TRUE)
  OBVIOUS
<1> QED BY <1>1, <1>2 DEF Queued

LEMMA AddSteps ==
  ASSUME IInv, NEW p \in Producers, Add(p)
  PROVE  Queue!Add \/ UNCHANGED <<Queued, returned>>
<1> USE WorkQueueAssumption DEF WorkQueueAssumption, Threads, Goto
<1>1. /\ m_queue \in Seq(Items) /\ at \in [Threads -> AddLabels \cup RemoveLabels]
      /\ item \in [Threads -> Items \cup {None}]
  BY DEF IInv, TypeOK
<1>2. CASE AddLock(p)
  <2>1. InHand' = InHand /\ \A c \in InHand : item'[c] = item[c]
    BY <1>1, <1>2 DEF AddLock, InHand
  <2> QED BY <1>2, <2>1, SameQueue DEF AddLock
<1>3. CASE PushBack(p)
  <2>1. m_mutex = p /\ InHand = {} /\ InHand' = {}
    <3>1. m_mutex = p
      BY <1>3 DEF PushBack, IInv, MutexHeld
    <3>2. InHand = {}
      BY <3>1, InOneHand DEF InHand
    <3> QED BY <1>1, <1>3, <3>1, <3>2 DEF PushBack, InHand
  <2>2. Queued = m_queue /\ Queued' = m_queue'
    BY <2>1 DEF Queued
  <2>3. item[p] \in Items
    BY <1>3 DEF PushBack, IInv, ItemsHeld
  <2> QED BY <1>3, <2>2, <2>3 DEF PushBack, Queue!Add
<1>4. CASE Signal(p)
  <2>1. InHand' = InHand
    BY <1>1, <1>4 DEF Signal, InHand, Waiting
  <2> QED BY <1>4, <2>1, SameQueue DEF Signal
<1>5. CASE AddUnlock(p)
  <2>1. InHand' = InHand
    BY <1>1, <1>5 DEF AddUnlock, InHand
  <2> QED BY <1>5, <2>1, SameQueue DEF AddUnlock
<1> QED BY <1>2, <1>3, <1>4, <1>5 DEF Add

LEMMA RemoveSteps ==
  ASSUME IInv, NEW c \in Consumers, Remove(c) \/ SpuriousWakeup(c)
  PROVE  Queue!Take \/ UNCHANGED <<Queued, returned>>
<1> USE WorkQueueAssumption DEF WorkQueueAssumption, Threads, Goto
<1>1. /\ m_queue \in Seq(Items) /\ at \in [Threads -> AddLabels \cup RemoveLabels]
      /\ item \in [Threads -> Items \cup {None}]
  BY DEF IInv, TypeOK
<1>2. CASE RemoveLock(c) \/ TestEmpty(c) \/ SpuriousWakeup(c) \/ WaitReturns(c)
  <2>1. InHand' = InHand /\ UNCHANGED <<m_queue, item, returned>>
    BY <1>1, <1>2 DEF RemoveLock, TestEmpty, SpuriousWakeup, WaitReturns, InHand
  <2> QED BY <2>1, SameQueue
<1>3. CASE Front(c)
  <2>1. InHand' = InHand /\ c \notin InHand
    BY <1>1, <1>3 DEF Front, InHand
  <2>2. \A d \in InHand : item'[d] = item[d]
    BY <1>1, <1>3, <2>1 DEF Front, InHand
  <2> QED BY <1>3, <2>1, <2>2, SameQueue DEF Front
<1>4. CASE PopFront(c)
  <2>1. m_mutex = c /\ c \notin InHand
    BY <1>4 DEF PopFront, IInv, MutexHeld, InHand
  <2>2. InHand = {} /\ InHand' = {c}
    <3>1. InHand = {}
      BY <2>1, InOneHand
    <3> QED BY <1>1, <1>4, <3>1 DEF PopFront, InHand
  <2>3. Queued = m_queue /\ Queued' = <<item[c]>> \o Tail(m_queue)
    BY <1>4, <2>2 DEF PopFront, Queued
  <2>4. m_queue # <<>> /\ item[c] = Head(m_queue)
    BY <1>4 DEF PopFront, IInv, ItemsHeld
  <2>5. <<Head(m_queue)>> \o Tail(m_queue) = m_queue
    BY <1>1, <2>4
  <2> QED BY <1>4, <2>3, <2>4, <2>5 DEF PopFront
<1>5. CASE RemoveUnlock(c)
  <2>1. m_mutex = c /\ c \in InHand
    BY <1>5 DEF RemoveUnlock, IInv, MutexHeld, InHand
  <2>2. InHand = {c} /\ InHand' = {}
    <3>1. InHand = {c}
      BY <2>1, InOneHand
    <3> QED BY <1>1, <1>5, <3>1 DEF RemoveUnlock, InHand
  <2>3. Queued = <<item[c]>> \o m_queue /\ Queued' = m_queue
    BY <1>5, <2>2 DEF RemoveUnlock, Queued
  <2>4. item[c] \in Items
    BY <1>5 DEF RemoveUnlock, IInv, ItemsHeld
  <2>5. /\ <<item[c]>> \o m_queue # <<>>
        /\ Head(<<item[c]>> \o m_queue) = item[c]
        /\ Tail(<<item[c]>> \o m_queue) = m_queue
    BY <1>1, <2>4
  <2> QED BY <1>5, <2>3, <2>5 DEF RemoveUnlock, Queue!Take
<1> QED BY <1>2, <1>3, <1>4, <1>5 DEF Remove

(* What add() and remove() do under the mutex, step by step, is a          *)
(* first-in first-out queue: each item is returned once, in the order in   *)
(* which they were added, whatever the threads and their interleaving.     *)
THEOREM WorkQueueImplementsFifo == Spec => ImplementsFifo
<1>1. IInv /\ [Next]_vars => [Queue!Next]_<<Queued, returned>>
  <2> SUFFICES ASSUME IInv, [Next]_vars PROVE [Queue!Next]_<<Queued, returned>>
    OBVIOUS
  <2>1. ASSUME NEW p \in Producers, Add(p) PROVE [Queue!Next]_<<Queued, returned>>
    BY <2>1, AddSteps DEF Queue!Next
  <2>2. ASSUME NEW c \in Consumers, Remove(c) \/ SpuriousWakeup(c)
        PROVE  [Queue!Next]_<<Queued, returned>>
    BY <2>2, RemoveSteps DEF Queue!Next
  <2>3. CASE UNCHANGED vars
    BY <2>3 DEF vars, Queued, InHand
  <2> QED BY <2>1, <2>2, <2>3 DEF Next
<1> QED BY <1>1, FifoInit, Invariance, PTL DEF Spec, ImplementsFifo, Queue!Spec
=============================================================================
