----------------------------- MODULE ServerProofs -----------------------------
(***************************************************************************)
(* Proofs about the server (module Server), for any clients, handlers,     *)
(* lengths of the kernel's list and numbers of requests.                   *)
(***************************************************************************)
EXTENDS Server, Lists

-----------------------------------------------------------------------------
(***************************************************************************)
(* The inductive invariant: ConnectionInOnePlace and RepliesMatchRequests, *)
(* said of the places rather than of their numbers, with what they need of *)
(* the handlers and the two ends of a connection.                          *)
(***************************************************************************)

Served(c) == \E w \in Workers : serving[w] = c

Answering(c) == \E w \in Workers : serving[w] = c /\ at[w] = "send"

\* A handler has a connection in its hands except inside remove().
HandlersBusy == \A w \in Workers : serving[w] = None <=> at[w] = "remove"

\* No connection is twice in one place.
OnceInAPlace ==
  /\ Distinct(backlog) /\ Distinct(queue)
  /\ \A v, w \in Workers : serving[v] = serving[w] /\ serving[v] # None => v = w

\* Nor in two places.
PlacesApart ==
  \A c \in Clients :
    /\ Member(c, backlog) => accepted # c /\ ~Member(c, queue) /\ ~Served(c)
    /\ accepted = c => ~Member(c, queue) /\ ~Served(c)
    /\ Member(c, queue) => ~Served(c)

\* An open connection is in a place; a client that has not connected has none.
EndsAgree ==
  \A c \in Clients :
    /\ connection[c] = "open" <=> Member(c, backlog) \/ accepted = c \/ Member(c, queue) \/ Served(c)
    /\ client[c] = "out" => connection[c] = "none"
    /\ connection[c] = "closed" /\ running => Gone(c)

RepliesDue ==
  running => \A c \in Clients : ~Gone(c) =>
    Len(inbound[c]) + outbound[c] + (IF Answering(c) THEN 1 ELSE 0)
      = IF client[c] = "waiting" THEN 1 ELSE 0

IInv == TypeOK /\ HandlersBusy /\ OnceInAPlace /\ PlacesApart /\ EndsAgree /\ RepliesDue

LEMMA InitIInv == Init => IInv
<1> SUFFICES ASSUME Init PROVE IInv
  OBVIOUS
<1> USE ServerAssumption DEF ServerAssumption
<1>1. TypeOK
  <2>1. <<>> \in Seq(Clients) /\ <<>> \in Seq({"short", "long"}) /\ 0 \in 0 .. MaxRequests
    OBVIOUS
  <2> QED BY <2>1 DEF Init, TypeOK, start
<1>2. HandlersBusy
  BY DEF Init, HandlersBusy
<1>3. OnceInAPlace
  BY EmptyList DEF Init, OnceInAPlace
<1>4. PlacesApart /\ EndsAgree
  BY EmptyList DEF Init, PlacesApart, EndsAgree, Served
<1>5. RepliesDue
  <2>1. ASSUME NEW c \in Clients
        PROVE  Len(inbound[c]) = 0 /\ outbound[c] = 0 /\ client[c] # "waiting" /\ ~Answering(c)
    BY DEF Init, Answering
  <2> QED BY <2>1 DEF RepliesDue
<1> QED BY <1>1, <1>2, <1>3, <1>4, <1>5 DEF IInv

-----------------------------------------------------------------------------
(***************************************************************************)
(* The places change one connection at a time.                             *)
(***************************************************************************)

LEMMA ServedAfterRemove ==
  ASSUME TypeOK, NEW w \in Workers, serving[w] = None, NEW c \in Clients,
         serving' = [serving EXCEPT ![w] = c]
  PROVE  \A q \in Clients : Served(q)' <=> Served(q) \/ q = c
BY ServerAssumption DEF ServerAssumption, TypeOK, Served

LEMMA ServedAfterHangUp ==
  ASSUME TypeOK, OnceInAPlace, NEW w \in Workers, serving[w] # None,
         serving' = [serving EXCEPT ![w] = None]
  PROVE  \A q \in Clients : Served(q)' <=> Served(q) /\ q # serving[w]
BY ServerAssumption DEF ServerAssumption, TypeOK, Served, OnceInAPlace

-----------------------------------------------------------------------------
(***************************************************************************)
(* The main thread.                                                        *)
(***************************************************************************)

\* When the process ends no place is left, and no connection open.
LEMMA TerminateKeeps ==
  ASSUME IInv, Terminate, client' = client, outbound' = outbound, sent' = sent,
         inbound' \in [Clients -> Seq({"short", "long"})]
  PROVE  IInv'
<1> USE ServerAssumption DEF ServerAssumption
<1>1. /\ running' = FALSE /\ listening' = FALSE /\ backlog' = <<>> /\ queue' = <<>> /\ accepted' = None
      /\ at' = [w \in Workers |-> "remove"] /\ serving' = [w \in Workers |-> None]
      /\ connection' = [c \in Clients |-> IF connection[c] = "open" THEN "closed" ELSE connection[c]]
      /\ started' = started /\ main' = main
  BY DEF Terminate
<1>2. TypeOK'
  <2>1. <<>> \in Seq(Clients)
    OBVIOUS
  <2>2. connection' \in [Clients -> {"none", "open", "closed"}]
    BY <1>1 DEF IInv, TypeOK
  <2> QED BY <1>1, <2>1, <2>2 DEF IInv, TypeOK
<1>3. HandlersBusy'
  BY <1>1 DEF HandlersBusy
<1>4. OnceInAPlace'
  BY <1>1, EmptyList DEF OnceInAPlace
<1>5. PlacesApart'
  BY <1>1, EmptyList DEF PlacesApart, Served
<1>6. EndsAgree'
  <2>1. ASSUME NEW c \in Clients
        PROVE  connection'[c] # "open" /\ (client'[c] = "out" => connection'[c] = "none")
    BY <1>1 DEF IInv, EndsAgree
  <2>2. ASSUME NEW c \in Clients
        PROVE  ~Member(c, backlog') /\ accepted' # c /\ ~Member(c, queue') /\ ~Served(c)'
    BY <1>1, EmptyList DEF Served
  <2> QED BY <1>1, <2>1, <2>2 DEF EndsAgree
<1>7. RepliesDue'
  BY <1>1 DEF RepliesDue
<1> QED BY <1>2, <1>3, <1>4, <1>5, <1>6, <1>7 DEF IInv

LEMMA MainKeeps ==
  ASSUME IInv, MainStep \/ BindFails \/ SocketFails
  PROVE  IInv'
<1> USE ServerAssumption DEF ServerAssumption
<1>1. CASE BindFails
  <2>1. /\ Terminate
        /\ client' = client /\ outbound' = outbound /\ sent' = sent /\ inbound' = inbound
    BY <1>1 DEF BindFails
  <2>2. inbound' \in [Clients -> Seq({"short", "long"})]
    BY <2>1 DEF IInv, TypeOK
  <2> QED BY <2>1, <2>2, TerminateKeeps
<1>2. CASE StartListening \/ SocketFails
  <2>1. /\ main' = "loop" /\ listening' \in BOOLEAN
        /\ UNCHANGED <<running, started, backlog, accepted, queue, at, serving, connection>>
        /\ UNCHANGED <<client, inbound, outbound, sent>>
    BY <1>2 DEF StartListening, SocketFails, IInv, TypeOK
  <2>2. TypeOK'
    BY <2>1 DEF IInv, TypeOK
  <2>3. HandlersBusy' /\ OnceInAPlace' /\ PlacesApart'
    BY <2>1 DEF IInv, HandlersBusy, OnceInAPlace, PlacesApart, Served
  <2>4. EndsAgree' /\ RepliesDue'
    BY <2>1 DEF IInv, EndsAgree, RepliesDue, Served, Answering, Gone
  <2> QED BY <2>2, <2>3, <2>4 DEF IInv
<1>3. CASE Accept
  <2>1. /\ accepted = None /\ backlog # <<>>
        /\ accepted' = Head(backlog) /\ backlog' = Tail(backlog)
        /\ UNCHANGED <<running, started, main, listening, queue, at, serving, connection>>
        /\ UNCHANGED <<client, inbound, outbound, sent>>
    BY <1>3 DEF Accept
  <2>2. /\ accepted' \in Clients /\ backlog' \in Seq(Clients) /\ Distinct(backlog')
        /\ Member(accepted', backlog)
        /\ \A q : Member(q, backlog') <=> Member(q, backlog) /\ q # accepted'
    BY <2>1, TailElements DEF IInv, TypeOK, OnceInAPlace
  <2>3. TypeOK'
    BY <2>1, <2>2 DEF IInv, TypeOK
  <2>4. HandlersBusy' /\ OnceInAPlace'
    BY <2>1, <2>2 DEF IInv, HandlersBusy, OnceInAPlace
  <2>5. \A q : Served(q)' <=> Served(q)
    BY <2>1 DEF Served
  <2>6. PlacesApart'
    BY <2>1, <2>2, <2>5 DEF IInv, PlacesApart
  <2>7. EndsAgree'
    BY <2>1, <2>2, <2>5 DEF IInv, EndsAgree, Gone
  <2>8. RepliesDue'
    BY <2>1 DEF IInv, RepliesDue, Answering, Gone
  <2> QED BY <2>3, <2>4, <2>6, <2>7, <2>8 DEF IInv
<1>4. CASE AddItem
  <2>1. /\ accepted # None /\ queue' = Append(queue, accepted) /\ accepted' = None
        /\ UNCHANGED <<running, started, main, listening, backlog, at, serving, connection>>
        /\ UNCHANGED <<client, inbound, outbound, sent>>
    BY <1>4 DEF AddItem
  <2>2. accepted \in Clients /\ queue \in Seq(Clients) /\ ~Member(accepted, queue)
    BY <2>1 DEF IInv, TypeOK, PlacesApart
  <2>3. /\ queue' \in Seq(Clients) /\ Distinct(queue')
        /\ \A q : Member(q, queue') <=> Member(q, queue) \/ q = accepted
    BY <2>1, <2>2, AppendElements DEF IInv, OnceInAPlace
  <2>4. TypeOK'
    BY <2>1, <2>3 DEF IInv, TypeOK
  <2>5. HandlersBusy' /\ OnceInAPlace'
    BY <2>1, <2>3 DEF IInv, HandlersBusy, OnceInAPlace
  <2>6. \A q : Served(q)' <=> Served(q)
    BY <2>1 DEF Served
  <2>7. PlacesApart'
    BY <2>1, <2>3, <2>6 DEF IInv, PlacesApart
  <2>8. EndsAgree'
    BY <2>1, <2>3, <2>6 DEF IInv, EndsAgree, Gone
  <2>9. RepliesDue'
    BY <2>1 DEF IInv, RepliesDue, Answering, Gone
  <2> QED BY <2>4, <2>5, <2>7, <2>8, <2>9 DEF IInv
<1> QED BY <1>1, <1>2, <1>3, <1>4 DEF MainStep

-----------------------------------------------------------------------------
(***************************************************************************)
(* A connection handler.  What it takes from the queue nobody else has, so *)
(* it is the only one to answer the client it serves.                      *)
(***************************************************************************)

LEMMA RemoveItemKeeps ==
  ASSUME IInv, NEW w \in Workers, RemoveItem(w)
  PROVE  IInv'
<1> DEFINE c == Head(queue)
<1> USE ServerAssumption DEF ServerAssumption
<1>1. /\ at[w] = "remove" /\ queue # <<>>
      /\ serving' = [serving EXCEPT ![w] = c] /\ queue' = Tail(queue)
      /\ at' = [at EXCEPT ![w] = "receive"]
      /\ UNCHANGED <<running, started, main, listening, backlog, accepted, connection>>
      /\ UNCHANGED <<client, inbound, outbound, sent>>
  BY DEF RemoveItem
<1>2. /\ c \in Clients /\ queue' \in Seq(Clients) /\ Distinct(queue') /\ Member(c, queue)
      /\ \A q : Member(q, queue') <=> Member(q, queue) /\ q # c
  BY <1>1, TailElements DEF IInv, TypeOK, OnceInAPlace
<1> HIDE DEF c
<1>3. serving[w] = None /\ ~Served(c)
  BY <1>1, <1>2 DEF IInv, HandlersBusy, PlacesApart
<1>4. \A q \in Clients : Served(q)' <=> Served(q) \/ q = c
  BY <1>1, <1>2, <1>3, ServedAfterRemove DEF IInv
<1>5. TypeOK'
  BY <1>1, <1>2 DEF IInv, TypeOK
<1>6. HandlersBusy'
  BY <1>1, <1>2 DEF IInv, TypeOK, HandlersBusy
<1>7. OnceInAPlace'
  <2>1. ASSUME NEW u \in Workers, NEW v \in Workers, serving'[u] = serving'[v], serving'[u] # None
        PROVE  u = v
    BY <1>1, <1>3, <2>1 DEF IInv, TypeOK, OnceInAPlace, Served
  <2> QED BY <1>1, <1>2, <2>1 DEF IInv, OnceInAPlace
<1>8. PlacesApart'
  BY <1>1, <1>2, <1>4 DEF IInv, PlacesApart
<1>9. EndsAgree'
  BY <1>1, <1>2, <1>4 DEF IInv, EndsAgree, Gone
<1>10. RepliesDue'
  <2>1. \A q \in Clients : Answering(q)' <=> Answering(q)
    BY <1>1, <1>3 DEF IInv, TypeOK, Answering
  <2> QED BY <1>1, <2>1 DEF IInv, RepliesDue, Gone
<1> QED BY <1>5, <1>6, <1>7, <1>8, <1>9, <1>10 DEF IInv

LEMMA ReceiveKeeps ==
  ASSUME IInv, NEW w \in Workers, Receive(w)
  PROVE  IInv'
<1> USE ServerAssumption DEF ServerAssumption
<1>1. PICK c \in Clients : c = serving[w] /\ at[w] = "receive"
  BY DEF Receive, IInv, TypeOK, HandlersBusy
<1>2. /\ inbound[c] # <<>> /\ inbound' = [inbound EXCEPT ![c] = Tail(@)]
      /\ UNCHANGED <<client, outbound, sent>>
  BY <1>1 DEF Receive
<1>3. inbound' \in [Clients -> Seq({"short", "long"})] /\ Len(inbound'[c]) = Len(inbound[c]) - 1
  <2>1. inbound[c] \in Seq({"short", "long"})
    BY <1>1 DEF IInv, TypeOK
  <2>2. Tail(inbound[c]) \in Seq({"short", "long"}) /\ Len(Tail(inbound[c])) = Len(inbound[c]) - 1
    BY <1>2, <2>1, HeadTailProperties
  <2> QED BY <1>1, <1>2, <2>2 DEF IInv, TypeOK
<1>4. CASE Terminate
  BY <1>2, <1>3, <1>4, TerminateKeeps
<1>5. CASE /\ at' = [at EXCEPT ![w] = "send"]
           /\ UNCHANGED <<running, started, main, listening, backlog, accepted, queue, serving, connection>>
  <2>1. TypeOK'
    BY <1>2, <1>3, <1>5 DEF IInv, TypeOK
  <2>2. HandlersBusy' /\ OnceInAPlace' /\ PlacesApart'
    BY <1>1, <1>5 DEF IInv, TypeOK, HandlersBusy, OnceInAPlace, PlacesApart, Served
  <2>3. EndsAgree'
    BY <1>2, <1>5 DEF IInv, EndsAgree, Gone, Served
  <2>4. ~Answering(c) /\ Answering(c)'
    <3>1. \A v \in Workers : serving[v] = c => v = w
      BY <1>1 DEF IInv, OnceInAPlace
    <3> QED BY <1>1, <1>5, <3>1 DEF IInv, TypeOK, Answering
  <2>5. \A q \in Clients : q # c => (Answering(q)' <=> Answering(q))
    BY <1>1, <1>5 DEF IInv, TypeOK, Answering
  <2>6. RepliesDue'
    <3> SUFFICES ASSUME running, NEW q \in Clients, ~Gone(q)
                 PROVE  Len(inbound'[q]) + outbound'[q] + (IF Answering(q)' THEN 1 ELSE 0)
                          = IF client'[q] = "waiting" THEN 1 ELSE 0
      BY <1>2, <1>5 DEF RepliesDue, Gone
    <3>1. Len(inbound[q]) + outbound[q] + (IF Answering(q) THEN 1 ELSE 0)
            = IF client[q] = "waiting" THEN 1 ELSE 0
      BY DEF IInv, RepliesDue
    <3>2. Len(inbound[q]) \in Nat /\ outbound[q] \in Nat
      BY DEF IInv, TypeOK
    <3>3. CASE q = c
      <4>1. Len(inbound[q]) + outbound[q] = IF client[q] = "waiting" THEN 1 ELSE 0
        BY <2>4, <3>1, <3>2, <3>3
      <4> QED BY <1>2, <1>3, <2>4, <3>2, <3>3, <4>1
    <3>4. CASE q # c
      <4>1. inbound'[q] = inbound[q]
        BY <1>2, <3>4 DEF IInv, TypeOK
      <4> QED BY <1>2, <2>5, <3>1, <3>4, <4>1
    <3> QED BY <3>3, <3>4
  <2> QED BY <2>1, <2>2, <2>3, <2>6 DEF IInv
<1> QED BY <1>1, <1>4, <1>5 DEF Receive

LEMMA SendKeeps ==
  ASSUME IInv, NEW w \in Workers, Send(w)
  PROVE  IInv'
<1> USE ServerAssumption DEF ServerAssumption
<1>1. PICK c \in Clients : c = serving[w] /\ at[w] = "send"
  BY DEF Send, IInv, TypeOK, HandlersBusy
<1>2. /\ at' = [at EXCEPT ![w] = "receive"]
      /\ outbound' = [outbound EXCEPT ![c] = IF client[c] \in {"left", "failed"} THEN @ ELSE @ + 1]
      /\ UNCHANGED <<running, started, main, listening, backlog, accepted, queue, serving, connection>>
      /\ UNCHANGED <<client, inbound, sent>>
  BY <1>1 DEF Send
<1>3. TypeOK'
  BY <1>1, <1>2 DEF IInv, TypeOK
<1>4. HandlersBusy' /\ OnceInAPlace' /\ PlacesApart'
  BY <1>1, <1>2 DEF IInv, TypeOK, HandlersBusy, OnceInAPlace, PlacesApart, Served
<1>5. EndsAgree'
  BY <1>2 DEF IInv, EndsAgree, Gone, Served
<1>6. Answering(c) /\ ~Answering(c)'
  <2>1. \A v \in Workers : serving[v] = c => v = w
    BY <1>1 DEF IInv, OnceInAPlace
  <2> QED BY <1>1, <1>2, <2>1 DEF IInv, TypeOK, Answering
<1>7. \A q \in Clients : q # c => (Answering(q)' <=> Answering(q))
  BY <1>1, <1>2 DEF IInv, TypeOK, Answering
<1>8. RepliesDue'
  <2> SUFFICES ASSUME running, NEW q \in Clients, ~Gone(q)
               PROVE  Len(inbound'[q]) + outbound'[q] + (IF Answering(q)' THEN 1 ELSE 0)
                        = IF client'[q] = "waiting" THEN 1 ELSE 0
    BY <1>2 DEF RepliesDue, Gone
  <2>1. Len(inbound[q]) + outbound[q] + (IF Answering(q) THEN 1 ELSE 0)
          = IF client[q] = "waiting" THEN 1 ELSE 0
    BY DEF IInv, RepliesDue
  <2>2. Len(inbound[q]) \in Nat /\ outbound[q] \in Nat
    BY DEF IInv, TypeOK
  <2>3. CASE q = c
    <3>1. outbound'[q] = outbound[q] + 1
      BY <1>2, <2>3 DEF IInv, TypeOK, Gone
    <3>2. Len(inbound[q]) + outbound[q] + 1 = IF client[q] = "waiting" THEN 1 ELSE 0
      BY <1>6, <2>1, <2>2, <2>3
    <3> QED BY <1>2, <1>6, <2>2, <2>3, <3>1, <3>2
  <2>4. CASE q # c
    <3>1. outbound'[q] = outbound[q]
      BY <1>2, <2>4 DEF IInv, TypeOK
    <3> QED BY <1>2, <1>7, <2>1, <2>4, <3>1
  <2> QED BY <2>3, <2>4
<1> QED BY <1>3, <1>4, <1>5, <1>8 DEF IInv

LEMMA HangUpKeeps ==
  ASSUME IInv, NEW w \in Workers, HangUp(w)
  PROVE  IInv'
<1> USE ServerAssumption DEF ServerAssumption
<1>1. PICK c \in Clients : c = serving[w] /\ at[w] = "receive"
  BY DEF HangUp, IInv, TypeOK, HandlersBusy
<1>2. /\ client[c] \in {"left", "failed"}
      /\ connection' = [connection EXCEPT ![c] = "closed"]
      /\ serving' = [serving EXCEPT ![w] = None] /\ at' = [at EXCEPT ![w] = "remove"]
      /\ UNCHANGED <<running, started, main, listening, backlog, accepted, queue>>
      /\ UNCHANGED <<client, inbound, outbound, sent>>
  BY <1>1 DEF HangUp
<1>3. \A q \in Clients : Served(q)' <=> Served(q) /\ q # c
  BY <1>1, <1>2, ServedAfterHangUp DEF IInv
<1>4. TypeOK'
  BY <1>2 DEF IInv, TypeOK
<1>5. HandlersBusy' /\ OnceInAPlace'
  BY <1>1, <1>2 DEF IInv, TypeOK, HandlersBusy, OnceInAPlace
<1>6. PlacesApart'
  BY <1>2, <1>3 DEF IInv, PlacesApart
<1>7. EndsAgree'
  <2>1. ASSUME NEW q \in Clients, q # c
        PROVE  connection'[q] = connection[q] /\ (Served(q)' <=> Served(q))
    BY <1>2, <1>3, <2>1 DEF IInv, TypeOK
  <2>2. connection'[c] = "closed" /\ ~Served(c)' /\ client[c] # "out" /\ Gone(c)
    BY <1>2, <1>3 DEF IInv, TypeOK, Gone
  <2>3. ~Member(c, backlog) /\ accepted # c /\ ~Member(c, queue)
    BY <1>1 DEF IInv, PlacesApart, Served
  <2> QED BY <1>2, <2>1, <2>2, <2>3 DEF IInv, EndsAgree, Gone
<1>8. RepliesDue'
  <2>1. \A q \in Clients : Answering(q)' <=> Answering(q)
    BY <1>1, <1>2 DEF IInv, TypeOK, Answering
  <2> QED BY <1>2, <2>1 DEF IInv, RepliesDue, Gone
<1> QED BY <1>4, <1>5, <1>6, <1>7, <1>8 DEF IInv

-----------------------------------------------------------------------------
(***************************************************************************)
(* A client.  Connecting takes it into the kernel's list; no other step of *)
(* its own moves its connection.                                           *)
(***************************************************************************)

LEMMA ConnectKeeps ==
  ASSUME IInv, NEW c \in Clients, Connect(c)
  PROVE  IInv'
<1> USE ServerAssumption DEF ServerAssumption
<1>1. /\ client[c] = "out" /\ backlog' = Append(backlog, c)
      /\ connection' = [connection EXCEPT ![c] = "open"]
      /\ client' = [client EXCEPT ![c] = "prompt"]
      /\ UNCHANGED <<running, started, main, listening, accepted, queue, at, serving>>
      /\ UNCHANGED <<inbound, outbound, sent>>
  BY DEF Connect
<1>2. ~Member(c, backlog) /\ accepted # c /\ ~Member(c, queue) /\ ~Served(c)
  BY <1>1 DEF IInv, EndsAgree
<1>3. /\ backlog' \in Seq(Clients) /\ Distinct(backlog')
      /\ \A q : Member(q, backlog') <=> Member(q, backlog) \/ q = c
  BY <1>1, <1>2, AppendElements DEF IInv, TypeOK, OnceInAPlace
<1>4. TypeOK'
  BY <1>1, <1>3 DEF IInv, TypeOK
<1>5. HandlersBusy' /\ OnceInAPlace'
  BY <1>1, <1>3 DEF IInv, HandlersBusy, OnceInAPlace
<1>6. \A q : (Served(q)' <=> Served(q)) /\ (Answering(q)' <=> Answering(q))
  BY <1>1 DEF Served, Answering
<1>7. PlacesApart'
  BY <1>1, <1>2, <1>3, <1>6 DEF IInv, PlacesApart
<1>8. EndsAgree'
  BY <1>1, <1>3, <1>6 DEF IInv, TypeOK, EndsAgree, Gone
<1>9. RepliesDue'
  BY <1>1, <1>6 DEF IInv, TypeOK, RepliesDue, Gone
<1> QED BY <1>4, <1>5, <1>7, <1>8, <1>9 DEF IInv

\* A step of a client alone, to a state that is not before its connection.
LEMMA ServerLeftAlone ==
  ASSUME IInv, UNCHANGED server, NEW c \in Clients, NEW s \in {"prompt", "waiting", "left", "failed"},
         client' = [client EXCEPT ![c] = s], Gone(c) => s \in {"left", "failed"}
  PROVE  /\ HandlersBusy' /\ OnceInAPlace' /\ PlacesApart' /\ EndsAgree'
         /\ \A q : Answering(q)' <=> Answering(q)
<1>1. UNCHANGED <<running, backlog, accepted, queue, at, serving, connection>>
  BY DEF server
<1>2. \A q : (Served(q)' <=> Served(q)) /\ (Answering(q)' <=> Answering(q))
  BY <1>1 DEF Served, Answering
<1>3. HandlersBusy' /\ OnceInAPlace' /\ PlacesApart'
  BY <1>1, <1>2 DEF IInv, HandlersBusy, OnceInAPlace, PlacesApart
<1>4. EndsAgree'
  BY <1>1, <1>2 DEF IInv, TypeOK, EndsAgree, Gone
<1> QED BY <1>2, <1>3, <1>4

LEMMA ClientKeeps ==
  ASSUME IInv, NEW c \in Clients, ClientStep(c)
  PROVE  IInv'
<1> USE ServerAssumption DEF ServerAssumption
<1>1. CASE Connect(c)
  BY <1>1, ConnectKeeps
<1>2. ASSUME NEW kind \in Requests, Request(c, kind) PROVE IInv'
  <2>1. /\ client[c] = "prompt" /\ sent < MaxRequests /\ sent' = sent + 1
        /\ inbound' = [inbound EXCEPT ![c] = Append(@, kind)]
        /\ client' = [client EXCEPT ![c] = "waiting"] /\ UNCHANGED <<server, outbound>>
    BY <1>2 DEF Request
  <2>2. /\ Append(inbound[c], kind) \in Seq({"short", "long"})
        /\ Len(Append(inbound[c], kind)) = Len(inbound[c]) + 1
    BY AppendProperties DEF IInv, TypeOK
  <2>3. TypeOK'
    BY <2>1, <2>2 DEF IInv, TypeOK, server
  <2>4. /\ HandlersBusy' /\ OnceInAPlace' /\ PlacesApart' /\ EndsAgree'
        /\ \A q : Answering(q)' <=> Answering(q)
    BY <2>1, ServerLeftAlone DEF Gone
  <2>5. ASSUME running, NEW q \in Clients, ~Gone(q)'
        PROVE  Len(inbound'[q]) + outbound'[q] + (IF Answering(q)' THEN 1 ELSE 0)
                 = IF client'[q] = "waiting" THEN 1 ELSE 0
    <3>1. ~Gone(q)
      BY <2>1, <2>5 DEF IInv, TypeOK, Gone
    <3>2. Len(inbound[q]) + outbound[q] + (IF Answering(q) THEN 1 ELSE 0)
            = IF client[q] = "waiting" THEN 1 ELSE 0
      BY <2>5, <3>1 DEF IInv, RepliesDue
    <3>3. CASE q = c
      <4>1. Len(inbound'[q]) = Len(inbound[q]) + 1 /\ outbound'[q] = outbound[q] /\ client'[q] = "waiting"
        BY <2>1, <2>2, <3>3 DEF IInv, TypeOK
      <4>2. Len(inbound[q]) \in Nat /\ outbound[q] \in Nat
        BY DEF IInv, TypeOK
      <4>3. Len(inbound[q]) + outbound[q] + (IF Answering(q) THEN 1 ELSE 0) = 0
        BY <2>1, <3>2, <3>3
      <4>4. Len(inbound[q]) = 0 /\ outbound[q] = 0 /\ ~Answering(q)
        BY <4>2, <4>3
      <4> QED BY <2>4, <4>1, <4>4
    <3>4. CASE q # c
      <4>1. inbound'[q] = inbound[q] /\ client'[q] = client[q]
        BY <2>1, <3>4 DEF IInv, TypeOK
      <4> QED BY <2>1, <2>4, <3>2, <4>1
    <3> QED BY <3>3, <3>4
  <2> QED BY <2>1, <2>3, <2>4, <2>5 DEF IInv, RepliesDue, server
<1>3. CASE Reply(c)
  <2>1. /\ client[c] = "waiting" /\ outbound[c] > 0
        /\ outbound' = [outbound EXCEPT ![c] = @ - 1]
        /\ client' = [client EXCEPT ![c] = "prompt"] /\ UNCHANGED <<server, inbound, sent>>
    BY <1>3 DEF Reply
  <2>2. TypeOK'
    BY <2>1 DEF IInv, TypeOK, server
  <2>3. /\ HandlersBusy' /\ OnceInAPlace' /\ PlacesApart' /\ EndsAgree'
        /\ \A q : Answering(q)' <=> Answering(q)
    BY <2>1, ServerLeftAlone DEF Gone
  <2>4. ASSUME running, NEW q \in Clients, ~Gone(q)'
        PROVE  Len(inbound'[q]) + outbound'[q] + (IF Answering(q)' THEN 1 ELSE 0)
                 = IF client'[q] = "waiting" THEN 1 ELSE 0
    <3>1. ~Gone(q)
      BY <2>1, <2>4 DEF IInv, TypeOK, Gone
    <3>2. Len(inbound[q]) + outbound[q] + (IF Answering(q) THEN 1 ELSE 0)
            = IF client[q] = "waiting" THEN 1 ELSE 0
      BY <2>4, <3>1 DEF IInv, RepliesDue
    <3>3. CASE q = c
      <4>1. outbound'[q] = outbound[q] - 1 /\ client'[q] = "prompt"
        BY <2>1, <3>3 DEF IInv, TypeOK
      <4>2. Len(inbound[q]) \in Nat /\ outbound[q] \in Nat \ {0}
        BY <2>1, <3>3 DEF IInv, TypeOK
      <4>3. Len(inbound[q]) + outbound[q] + (IF Answering(q) THEN 1 ELSE 0) = 1
        BY <2>1, <3>2, <3>3
      <4>4. Len(inbound[q]) = 0 /\ outbound[q] = 1 /\ ~Answering(q)
        BY <4>2, <4>3
      <4> QED BY <2>1, <2>3, <4>1, <4>4
    <3>4. CASE q # c
      <4>1. outbound'[q] = outbound[q] /\ client'[q] = client[q]
        BY <2>1, <3>4 DEF IInv, TypeOK
      <4> QED BY <2>1, <2>3, <3>2, <4>1
    <3> QED BY <3>3, <3>4
  <2> QED BY <2>1, <2>2, <2>3, <2>4 DEF IInv, RepliesDue, server
<1>4. CASE Refused(c) \/ Leave(c) \/ Kill(c) \/ ConnectionLost(c)
  <2>1. PICK s \in {"left", "failed"} : client' = [client EXCEPT ![c] = s]
    BY <1>4 DEF Refused, Leave, Kill, ConnectionLost
  <2>2. /\ UNCHANGED <<server, inbound, sent>>
        /\ outbound' \in [Clients -> Nat]
        /\ \A q \in Clients : q # c => outbound'[q] = outbound[q]
    <3>1. CASE Kill(c)
      BY <3>1 DEF Kill, IInv, TypeOK
    <3>2. CASE Refused(c) \/ Leave(c) \/ ConnectionLost(c)
      BY <3>2 DEF Refused, Leave, ConnectionLost, IInv, TypeOK
    <3> QED BY <1>4, <3>1, <3>2
  <2>3. TypeOK'
    BY <2>1, <2>2 DEF IInv, TypeOK, server
  <2>4. /\ HandlersBusy' /\ OnceInAPlace' /\ PlacesApart' /\ EndsAgree'
        /\ \A q : Answering(q)' <=> Answering(q)
    BY <2>1, <2>2, ServerLeftAlone
  <2>5. ASSUME running, NEW q \in Clients, ~Gone(q)'
        PROVE  Len(inbound'[q]) + outbound'[q] + (IF Answering(q)' THEN 1 ELSE 0)
                 = IF client'[q] = "waiting" THEN 1 ELSE 0
    <3>1. q # c /\ client'[q] = client[q] /\ ~Gone(q)
      BY <2>1, <2>5 DEF IInv, TypeOK, Gone
    <3>2. Len(inbound[q]) + outbound[q] + (IF Answering(q) THEN 1 ELSE 0)
            = IF client[q] = "waiting" THEN 1 ELSE 0
      BY <2>5, <3>1 DEF IInv, RepliesDue
    <3> QED BY <2>2, <2>4, <3>1, <3>2
  <2> QED BY <2>2, <2>3, <2>4, <2>5 DEF IInv, RepliesDue, server
<1> QED BY <1>1, <1>2, <1>3, <1>4 DEF ClientStep

-----------------------------------------------------------------------------
LEMMA NextIInv == IInv /\ [Next]_vars => IInv'
<1> SUFFICES ASSUME IInv, [Next]_vars PROVE IInv'
  OBVIOUS
<1>1. CASE MainStep \/ BindFails \/ SocketFails
  BY <1>1, MainKeeps
<1>2. ASSUME NEW w \in Workers, HandlerStep(w) PROVE IInv'
  BY <1>2, RemoveItemKeeps, ReceiveKeeps, SendKeeps, HangUpKeeps DEF HandlerStep
<1>3. ASSUME NEW c \in Clients, ClientStep(c) PROVE IInv'
  BY <1>3, ClientKeeps
<1>4. CASE UNCHANGED vars
  <2>1. TypeOK' /\ HandlersBusy' /\ OnceInAPlace' /\ PlacesApart'
    BY <1>4 DEF vars, server, IInv, TypeOK, HandlersBusy, OnceInAPlace, PlacesApart, Served
  <2>2. EndsAgree' /\ RepliesDue'
    BY <1>4 DEF vars, server, IInv, EndsAgree, RepliesDue, Gone, Served, Answering
  <2> QED BY <2>1, <2>2 DEF IInv
<1> QED BY <1>1, <1>2, <1>3, <1>4 DEF Next

LEMMA Invariance == Spec => []IInv
BY InitIInv, NextIInv, PTL DEF Spec

-----------------------------------------------------------------------------
(***************************************************************************)
(* The counts in the properties are the places of the invariant.           *)
(***************************************************************************)

LEMMA ServersCounted ==
  ASSUME IInv, NEW c \in Clients
  PROVE  /\ Cardinality({w \in Workers : serving[w] = c}) = IF Served(c) THEN 1 ELSE 0
         /\ Cardinality({w \in Workers : serving[w] = c /\ at[w] = "send"}) = IF Answering(c) THEN 1 ELSE 0
<1>1. \A v, w \in Workers : serving[v] = c /\ serving[w] = c => v = w
  BY ServerAssumption DEF ServerAssumption, IInv, OnceInAPlace
<1>2. Cardinality({w \in Workers : serving[w] = c}) = IF {w \in Workers : serving[w] = c} # {} THEN 1 ELSE 0
  BY <1>1, AtMostOneCounted
<1>3. Cardinality({w \in Workers : serving[w] = c /\ at[w] = "send"})
        = IF {w \in Workers : serving[w] = c /\ at[w] = "send"} # {} THEN 1 ELSE 0
  BY <1>1, AtMostOneCounted
<1>4. /\ {w \in Workers : serving[w] = c} # {} <=> Served(c)
      /\ {w \in Workers : serving[w] = c /\ at[w] = "send"} # {} <=> Answering(c)
  BY DEF Served, Answering
<1> QED BY <1>2, <1>3, <1>4

(* Every state of the server and its clients is of its type: a handler     *)
(* only ever serves a connection some client opened.                       *)
THEOREM TypeCorrect == Spec => []TypeOK
<1>1. IInv => TypeOK
  BY DEF IInv
<1> QED BY <1>1, Invariance, PTL

(* Whatever the clients do, in whichever order the threads run and         *)
(* whichever handlers could be created, an open connection is in exactly   *)
(* one place, and a closed one in none, and a live server closes none      *)
(* before its client is gone.                                              *)
THEOREM OnePlace == Spec => []ConnectionInOnePlace
<1>1. ASSUME IInv PROVE ConnectionInOnePlace
  <2> SUFFICES ASSUME NEW c \in Clients
               PROVE  /\ Count(backlog, c) + Count(queue, c) + (IF accepted = c THEN 1 ELSE 0)
                           + Cardinality({w \in Workers : serving[w] = c})
                         = IF connection[c] = "open" THEN 1 ELSE 0
                      /\ connection[c] = "closed" /\ running => Gone(c)
    BY DEF ConnectionInOnePlace
  <2>1. Count(backlog, c) = IF Member(c, backlog) THEN 1 ELSE 0
    BY <1>1, PlacesCounted DEF IInv, TypeOK, OnceInAPlace, Count
  <2>2. Count(queue, c) = IF Member(c, queue) THEN 1 ELSE 0
    BY <1>1, PlacesCounted DEF IInv, TypeOK, OnceInAPlace, Count
  <2>3. Cardinality({w \in Workers : serving[w] = c}) = IF Served(c) THEN 1 ELSE 0
    BY <1>1, ServersCounted
  <2>4. /\ connection[c] = "open" <=> Member(c, backlog) \/ accepted = c \/ Member(c, queue) \/ Served(c)
        /\ connection[c] = "closed" /\ running => Gone(c)
    BY <1>1 DEF IInv, EndsAgree
  <2>5. /\ Member(c, backlog) => accepted # c /\ ~Member(c, queue) /\ ~Served(c)
        /\ accepted = c => ~Member(c, queue) /\ ~Served(c)
        /\ Member(c, queue) => ~Served(c)
    BY <1>1 DEF IInv, PlacesApart
  <2> QED BY <2>1, <2>2, <2>3, <2>4, <2>5
<1> QED BY <1>1, Invariance, PTL

(* A client of a live server waits exactly when one answer is due to it:   *)
(* none is lost, given twice or given to another client.                   *)
THEOREM OneReplyEach == Spec => []RepliesMatchRequests
<1>1. ASSUME IInv PROVE RepliesMatchRequests
  <2> SUFFICES ASSUME running, NEW c \in Clients, ~Gone(c)
               PROVE  Due(c) = IF client[c] = "waiting" THEN 1 ELSE 0
    BY DEF RepliesMatchRequests
  <2>1. Due(c) = Len(inbound[c]) + outbound[c] + (IF Answering(c) THEN 1 ELSE 0)
    BY <1>1, ServersCounted DEF Due
  <2> QED BY <1>1, <2>1 DEF IInv, RepliesDue
<1> QED BY <1>1, Invariance, PTL
=============================================================================
