------------------------------ MODULE WorkQueue ------------------------------
(***************************************************************************)
(* The queue between the server's main thread and its connection handlers  *)
(* (class wqueue, src/src/connection/wqueue.h): a list under a mutex, with *)
(* a condition variable for the handlers that find it empty.               *)
(*                                                                         *)
(* Each step of a thread is one call or statement of add() or remove();    *)
(* the label of a thread names the one it is at.  pthread_mutex_lock() is  *)
(* a step that waits until the mutex is free, pthread_cond_wait() gives    *)
(* the mutex up and starts waiting in one step and may return without a    *)
(* signal, pthread_cond_signal() wakes one waiting thread, any of them.    *)
(***************************************************************************)
EXTENDS Integers, Sequences, FiniteSets

CONSTANTS
  Producers,    \* threads that call add(): the main thread
  Consumers,    \* threads that call remove(): the connection handlers
  Items,        \* items, each added once
  None          \* no thread, no item

ASSUME WorkQueueAssumption ==
  /\ IsFiniteSet(Producers) /\ IsFiniteSet(Consumers)
  /\ Producers \cap Consumers = {}
  /\ None \notin Producers \cup Consumers \cup Items

Threads == Producers \cup Consumers

VARIABLES
  m_queue,     \* the list
  m_mutex,     \* the thread that holds the mutex, or None
  at,          \* the label of each thread
  item,        \* its local variable: the item it adds or has removed
  added,       \* history: the items add() was called with
  returned     \* history: what remove() returned, latest last

vars == <<m_queue, m_mutex, at, item, added, returned>>

AddLabels == {"outside", "push_back", "signal", "unlock"}
RemoveLabels == {"outside", "empty?", "waiting", "woken", "front", "pop_front", "unlock"}

TypeOK ==
  /\ m_queue \in Seq(Items)
  /\ m_mutex \in Threads \cup {None}
  /\ at \in [Threads -> AddLabels \cup RemoveLabels]
  /\ \A p \in Producers : at[p] \in AddLabels
  /\ \A c \in Consumers : at[c] \in RemoveLabels
  /\ item \in [Threads -> Items \cup {None}]
  /\ added \in SUBSET Items
  /\ returned \in Seq(Items)

Init ==
  /\ m_queue = <<>>
  /\ m_mutex = None
  /\ at = [t \in Threads |-> "outside"]
  /\ item = [t \in Threads |-> None]
  /\ added = {}
  /\ returned = <<>>

-----------------------------------------------------------------------------
(***************************************************************************)
(* add()                                                                   *)
(***************************************************************************)

Goto(t, label) == at' = [at EXCEPT ![t] = label]

AddLock(p) ==
  /\ at[p] = "outside" /\ m_mutex = None
  /\ m_mutex' = p
  /\ \E i \in Items \ added :
       /\ item' = [item EXCEPT ![p] = i]
       /\ added' = added \cup {i}
  /\ Goto(p, "push_back")
  /\ UNCHANGED <<m_queue, returned>>

PushBack(p) ==
  /\ at[p] = "push_back"
  /\ m_queue' = Append(m_queue, item[p])
  /\ Goto(p, "signal")
  /\ UNCHANGED <<m_mutex, item, added, returned>>

Waiting == {c \in Consumers : at[c] = "waiting"}

\* Mutant: the condition variable is forgotten.
SignalNobody(p) ==
  /\ at[p] = "signal"
  /\ Goto(p, "unlock")
  /\ UNCHANGED <<m_queue, m_mutex, item, added, returned>>

\* Mutant: only the item that ends an empty queue is announced.
SignalFirst(p) ==
  /\ at[p] = "signal"
  /\ IF Waiting = {} \/ Len(m_queue) > 1
     THEN Goto(p, "unlock")
     ELSE \E c \in Waiting : at' = [at EXCEPT ![p] = "unlock", ![c] = "woken"]
  /\ UNCHANGED <<m_queue, m_mutex, item, added, returned>>

Signal(p) ==
  /\ at[p] = "signal"
  /\ IF Waiting = {}
     THEN Goto(p, "unlock")
     ELSE \E c \in Waiting : at' = [at EXCEPT ![p] = "unlock", ![c] = "woken"]
  /\ UNCHANGED <<m_queue, m_mutex, item, added, returned>>

AddUnlock(p) ==
  /\ at[p] = "unlock"
  /\ m_mutex' = None
  /\ Goto(p, "outside")
  /\ UNCHANGED <<m_queue, item, added, returned>>

-----------------------------------------------------------------------------
(***************************************************************************)
(* remove()                                                                *)
(***************************************************************************)

RemoveLock(c) ==
  /\ at[c] = "outside" /\ m_mutex = None
  /\ m_mutex' = c
  /\ Goto(c, "empty?")
  /\ UNCHANGED <<m_queue, item, added, returned>>

\* The condition of the while loop; it calls pthread_cond_wait() if it holds.
TestEmpty(c) ==
  /\ at[c] = "empty?"
  /\ IF m_queue = <<>>
     THEN Goto(c, "waiting") /\ m_mutex' = None
     ELSE Goto(c, "front") /\ UNCHANGED m_mutex
  /\ UNCHANGED <<m_queue, item, added, returned>>

SpuriousWakeup(c) ==
  /\ at[c] = "waiting"
  /\ Goto(c, "woken")
  /\ UNCHANGED <<m_queue, m_mutex, item, added, returned>>

\* Mutant: an if in place of the while.
WaitReturnsOnce(c) ==
  /\ at[c] = "woken" /\ m_mutex = None
  /\ m_mutex' = c
  /\ Goto(c, "front")
  /\ UNCHANGED <<m_queue, item, added, returned>>

\* A woken thread takes the mutex again and tests again.
WaitReturns(c) ==
  /\ at[c] = "woken" /\ m_mutex = None
  /\ m_mutex' = c
  /\ Goto(c, "empty?")
  /\ UNCHANGED <<m_queue, item, added, returned>>

\* Mutant: the item is popped without having been read.
FrontUnread(c) ==
  /\ at[c] = "front"
  /\ Goto(c, "pop_front")
  /\ UNCHANGED <<m_queue, m_mutex, item, added, returned>>

Front(c) ==
  /\ at[c] = "front"
  /\ item' = [item EXCEPT ![c] = Head(m_queue)]
  /\ Goto(c, "pop_front")
  /\ UNCHANGED <<m_queue, m_mutex, added, returned>>

\* Mutant: the other end is popped.
PopBack(c) ==
  /\ at[c] = "pop_front"
  /\ m_queue' = SubSeq(m_queue, 1, Len(m_queue) - 1)
  /\ Goto(c, "unlock")
  /\ UNCHANGED <<m_mutex, item, added, returned>>

PopFront(c) ==
  /\ at[c] = "pop_front"
  /\ m_queue' = Tail(m_queue)
  /\ Goto(c, "unlock")
  /\ UNCHANGED <<m_mutex, item, added, returned>>

RemoveUnlock(c) ==
  /\ at[c] = "unlock"
  /\ m_mutex' = None
  /\ returned' = Append(returned, item[c])
  /\ Goto(c, "outside")
  /\ UNCHANGED <<m_queue, item, added>>

-----------------------------------------------------------------------------
Add(p) == AddLock(p) \/ PushBack(p) \/ Signal(p) \/ AddUnlock(p)

Remove(c) ==
  \/ RemoveLock(c) \/ TestEmpty(c) \/ WaitReturns(c)
  \/ Front(c) \/ PopFront(c) \/ RemoveUnlock(c)

Next ==
  \/ \E p \in Producers : Add(p)
  \/ \E c \in Consumers : Remove(c) \/ SpuriousWakeup(c)

Spec == Init /\ [][Next]_vars

\* A thread inside add() or remove() goes on when it can, and a handler
\* calls remove() again.  Nothing makes the main thread add an item, and
\* nothing is assumed of spurious wakeups.
Fairness ==
  /\ \A p \in Producers : WF_vars(PushBack(p) \/ Signal(p) \/ AddUnlock(p))
  /\ \A c \in Consumers : WF_vars(Remove(c))

FairSpec == Spec /\ Fairness

-----------------------------------------------------------------------------
(***************************************************************************)
(* Properties.                                                             *)
(***************************************************************************)

\* Consumers that will look at the queue before they sleep, producers that
\* have pushed an item and not yet signalled.
Awake == {c \in Consumers : at[c] \in {"empty?", "woken", "front", "pop_front"}}
Announcing == {p \in Producers : at[p] = "signal"}

(* No wakeup is lost: while a handler sleeps in pthread_cond_wait() there  *)
(* are as many items as there are handlers awake inside remove() to take   *)
(* them, or a signal still to come.  This is what one signal per item, and *)
(* sent whatever the queue held before, is for.                            *)
NoLostWakeup ==
  Waiting # {} => Len(m_queue) <= Cardinality(Awake) + Cardinality(Announcing)

(* front() and pop_front() are never called on an empty list, whoever took *)
(* the item a thread was woken for, and woken for nothing as it may be.    *)
NeverPopsEmpty == \A c \in Consumers : at[c] \in {"front", "pop_front"} => m_queue # <<>>

(* What the callers see is a first-in first-out queue.  An add() takes     *)
(* effect at push_back(), a remove() as it unlocks the mutex and returns;  *)
(* until then the item it has popped is still at the head of the queue.    *)
InHand == {c \in Consumers : at[c] = "unlock"}

Queued ==
  IF InHand = {} THEN m_queue ELSE <<item[CHOOSE c \in InHand : TRUE]>> \o m_queue

Queue == INSTANCE Fifo WITH queue <- Queued, taken <- returned

(* Each item is returned by one remove(), and they are returned in the     *)
(* order in which they were added, however many threads call.              *)
ImplementsFifo == Queue!Spec

(* Every item pushed is taken out, even when wakeups come without a signal *)
(* or the threads they wake find the item gone.                            *)
EveryItemTaken ==
  \A i \in Items :
    (\E n \in 1 .. Len(m_queue) : m_queue[n] = i)
      ~> (\E n \in 1 .. Len(returned) : returned[n] = i)
=============================================================================
