-------------------------------- MODULE Server --------------------------------
(***************************************************************************)
(* The server process and its clients (src/src/server.cpp, client.cpp and  *)
(* connection/TCPStream.cpp).  The main thread accepts connections and     *)
(* puts them on the queue; a connection handler takes one, answers the     *)
(* requests that come in on it until the client hangs up, and takes the    *)
(* next.  A client sends one request and waits for its reply.              *)
(*                                                                         *)
(* The queue is the one module WorkQueue is shown to implement (Fifo), so  *)
(* add() and remove() are single steps here.  A connection is named by its *)
(* client: a client process opens one.  The kernel's part is modelled from *)
(* how the code uses it: a list of connections waiting for accept(), and   *)
(* the bytes on their way.  On the loopback interface both use, a request  *)
(* arrives whole.                                                          *)
(***************************************************************************)
EXTENDS Integers, SequencesExt

CONSTANTS
  Clients,
  Workers,        \* connection handlers (one in the code)
  Requests,       \* kinds of requests the users type: "short", "long"
  lbacklog,       \* connections that may wait for accept() (5 in the code)
  MaxRequests,    \* bound: requests the clients send, together
  None            \* no client

ASSUME ServerAssumption ==
  /\ None \notin Clients
  /\ Requests \subseteq {"short", "long"}
  /\ lbacklog \in Nat
  /\ MaxRequests \in Nat

VARIABLES
  running,      \* the server process exists
  started,      \* the handlers whose thread could be created
  main,         \* where the main thread is: start() of the acceptor, or its loop
  listening,    \* m_listening of the acceptor
  backlog,      \* connections accept() has yet to return
  accepted,     \* the connection in the main thread's hands, or None
  queue,        \* the work queue
  at,           \* where each handler is: remove(), receive() or send()
  serving,      \* the connection it is serving, or None
  connection,   \* the server's end of each client's connection
  client,       \* where each client is
  inbound,      \* requests on their way to the server
  outbound,     \* replies on their way back
  sent          \* requests sent so far

server == <<running, started, main, listening, backlog, accepted, queue, at, serving, connection>>
vars == <<server, client, inbound, outbound, sent>>

TypeOK ==
  /\ running \in BOOLEAN /\ listening \in BOOLEAN
  /\ started \subseteq Workers
  /\ main \in {"start", "loop"}
  /\ backlog \in Seq(Clients) /\ queue \in Seq(Clients)
  /\ accepted \in Clients \cup {None}
  /\ at \in [Workers -> {"remove", "receive", "send"}]
  /\ serving \in [Workers -> Clients \cup {None}]
  /\ connection \in [Clients -> {"none", "open", "closed"}]
  /\ client \in [Clients -> {"out", "prompt", "waiting", "left", "failed"}]
  /\ inbound \in [Clients -> Seq({"short", "long"})]
  /\ outbound \in [Clients -> Nat]
  /\ sent \in 0 .. MaxRequests

\* Thread::start() of every handler: pthread_create() may fail for any of
\* them, and server.cpp does not look at what start() returns.
start == SUBSET Workers

Init ==
  /\ running = TRUE
  /\ started \in start
  /\ main = "start"
  /\ listening = FALSE
  /\ backlog = <<>>
  /\ accepted = None
  /\ queue = <<>>
  /\ at = [w \in Workers |-> "remove"]
  /\ serving = [w \in Workers |-> None]
  /\ connection = [c \in Clients |-> "none"]
  /\ client = [c \in Clients |-> "out"]
  /\ inbound = [c \in Clients |-> <<>>]
  /\ outbound = [c \in Clients |-> 0]
  /\ sent = 0

\* The process ends, by exit() or by an exception that no one catches: the
\* kernel closes its connections, those nobody accepted among them.
Terminate ==
  /\ running' = FALSE
  /\ listening' = FALSE
  /\ backlog' = <<>> /\ queue' = <<>>
  /\ accepted' = None
  /\ at' = [w \in Workers |-> "remove"]
  /\ serving' = [w \in Workers |-> None]
  /\ connection' = [c \in Clients |-> IF connection[c] = "open" THEN "closed" ELSE connection[c]]
  /\ UNCHANGED <<started, main>>

-----------------------------------------------------------------------------
(***************************************************************************)
(* The main thread.                                                        *)
(***************************************************************************)

\* TCPAcceptor::start(): it listens; or bind() or listen() fails, and main()
\* calls exit(1); or socket() fails, and it returns 0 without listening.
StartListening ==
  /\ running /\ main = "start"
  /\ main' = "loop"
  /\ listening' = TRUE
  /\ UNCHANGED <<running, started, backlog, accepted, queue, at, serving, connection>>
  /\ UNCHANGED <<client, inbound, outbound, sent>>

BindFails ==
  /\ running /\ main = "start"
  /\ Terminate
  /\ UNCHANGED <<client, inbound, outbound, sent>>

SocketFails ==
  /\ running /\ main = "start"
  /\ main' = "loop"
  /\ UNCHANGED <<running, started, listening, backlog, accepted, queue, at, serving, connection>>
  /\ UNCHANGED <<client, inbound, outbound, sent>>

\* An accept() that fails changes nothing, and the loop tries again.
Accept ==
  /\ running /\ main = "loop" /\ listening
  /\ accepted = None
  /\ backlog # <<>>
  /\ accepted' = Head(backlog)
  /\ backlog' = Tail(backlog)
  /\ UNCHANGED <<running, started, main, listening, queue, at, serving, connection>>
  /\ UNCHANGED <<client, inbound, outbound, sent>>

\* Mutant: a failed accept() adds the last connection again.
AddAgain ==
  /\ accepted # None
  /\ queue' = Append(queue, accepted)
  /\ UNCHANGED <<running, started, main, listening, backlog, accepted, at, serving, connection>>
  /\ UNCHANGED <<client, inbound, outbound, sent>>

AddItem ==
  /\ accepted # None
  /\ queue' = Append(queue, accepted)
  /\ accepted' = None
  /\ UNCHANGED <<running, started, main, listening, backlog, at, serving, connection>>
  /\ UNCHANGED <<client, inbound, outbound, sent>>

-----------------------------------------------------------------------------
(***************************************************************************)
(* ConnectionHandler::run().                                               *)
(***************************************************************************)

RemoveItem(w) ==
  /\ w \in started /\ at[w] = "remove"
  /\ queue # <<>>
  /\ serving' = [serving EXCEPT ![w] = Head(queue)]
  /\ queue' = Tail(queue)
  /\ at' = [at EXCEPT ![w] = "receive"]
  /\ UNCHANGED <<running, started, main, listening, backlog, accepted, connection>>
  /\ UNCHANGED <<client, inbound, outbound, sent>>

\* Mutant: a handler forgets that it is to answer.
ReceiveSilently(w) ==
  LET c == serving[w]
  IN /\ at[w] = "receive" /\ inbound[c] # <<>>
     /\ Head(inbound[c]) = "short"
     /\ inbound' = [inbound EXCEPT ![c] = Tail(@)]
     /\ UNCHANGED <<server, client, outbound, sent>>

\* The next 255 bytes of the connection, a whole request if it is short,
\* and json::parse(), which throws on a part of one; nothing catches that.
Receive(w) ==
  LET c == serving[w]
  IN /\ at[w] = "receive" /\ inbound[c] # <<>>
     /\ inbound' = [inbound EXCEPT ![c] = Tail(@)]
     /\ IF Head(inbound[c]) = "short"
        THEN /\ at' = [at EXCEPT ![w] = "send"]
             /\ UNCHANGED <<running, started, main, listening, backlog, accepted, queue, serving, connection>>
        ELSE Terminate
     /\ UNCHANGED <<client, outbound, sent>>

\* A reply to a client that is gone goes nowhere.
Send(w) ==
  LET c == serving[w]
  IN /\ at[w] = "send"
     /\ outbound' = [outbound EXCEPT ![c] = IF client[c] \in {"left", "failed"} THEN @ ELSE @ + 1]
     /\ at' = [at EXCEPT ![w] = "receive"]
     /\ UNCHANGED <<running, started, main, listening, backlog, accepted, queue, serving, connection>>
     /\ UNCHANGED <<client, inbound, sent>>

\* Mutant: the loop goes on when receive() returns 0.
ReceiveNothing(w) ==
  /\ at[w] = "receive" /\ inbound[serving[w]] = <<>>
  /\ client[serving[w]] \in {"left", "failed"}
  /\ UNCHANGED vars

\* receive() returns 0, or an error: the client is gone.  The item is
\* deleted, which closes the connection, before the next is removed.
HangUp(w) ==
  LET c == serving[w]
  IN /\ at[w] = "receive" /\ inbound[c] = <<>>
     /\ client[c] \in {"left", "failed"}
     /\ connection' = [connection EXCEPT ![c] = "closed"]
     /\ serving' = [serving EXCEPT ![w] = None]
     /\ at' = [at EXCEPT ![w] = "remove"]
     /\ UNCHANGED <<running, started, main, listening, backlog, accepted, queue>>
     /\ UNCHANGED <<client, inbound, outbound, sent>>

-----------------------------------------------------------------------------
(***************************************************************************)
(* A client.                                                               *)
(***************************************************************************)

\* TCPConnector::connect(), which waits while the kernel has no room.
Connect(c) ==
  /\ client[c] = "out" /\ listening
  /\ Len(backlog) <= lbacklog
  /\ backlog' = Append(backlog, c)
  /\ connection' = [connection EXCEPT ![c] = "open"]
  /\ client' = [client EXCEPT ![c] = "prompt"]
  /\ UNCHANGED <<running, started, main, listening, accepted, queue, at, serving>>
  /\ UNCHANGED <<inbound, outbound, sent>>

\* Nobody listens: "no connection", and the client ends.
Refused(c) ==
  /\ client[c] = "out" /\ ~listening
  /\ client' = [client EXCEPT ![c] = "left"]
  /\ UNCHANGED <<server, inbound, outbound, sent>>

Request(c, kind) ==
  /\ client[c] = "prompt" /\ connection[c] = "open"
  /\ sent < MaxRequests
  /\ sent' = sent + 1
  /\ inbound' = [inbound EXCEPT ![c] = Append(@, kind)]
  /\ client' = [client EXCEPT ![c] = "waiting"]
  /\ UNCHANGED <<server, outbound>>

\* Mutant: the client does not wait for the reply.
ReplyAtOnce(c) ==
  /\ client[c] = "waiting"
  /\ outbound' = [outbound EXCEPT ![c] = @ - 1]
  /\ client' = [client EXCEPT ![c] = "prompt"]
  /\ UNCHANGED <<server, inbound, sent>>

Reply(c) ==
  /\ client[c] = "waiting" /\ outbound[c] > 0
  /\ outbound' = [outbound EXCEPT ![c] = @ - 1]
  /\ client' = [client EXCEPT ![c] = "prompt"]
  /\ UNCHANGED <<server, inbound, sent>>

\* The user types "exit", or kills the client at its prompt.
Leave(c) ==
  /\ client[c] = "prompt"
  /\ client' = [client EXCEPT ![c] = "left"]
  /\ UNCHANGED <<server, inbound, outbound, sent>>

\* The user kills a client that waits for its reply.
Kill(c) ==
  /\ client[c] = "waiting"
  /\ client' = [client EXCEPT ![c] = "left"]
  /\ outbound' = [outbound EXCEPT ![c] = 0]
  /\ UNCHANGED <<server, inbound, sent>>

\* The server is gone: receive() returns 0 or an error, and sooner or later
\* the client ends by it (module Client says how, and what it prints first).
ConnectionLost(c) ==
  /\ client[c] \in {"prompt", "waiting"} /\ connection[c] = "closed"
  /\ outbound[c] = 0
  /\ client' = [client EXCEPT ![c] = "failed"]
  /\ UNCHANGED <<server, inbound, outbound, sent>>

-----------------------------------------------------------------------------
MainStep == StartListening \/ Accept \/ AddItem

HandlerStep(w) == RemoveItem(w) \/ Receive(w) \/ Send(w) \/ HangUp(w)

ClientStep(c) ==
  \/ Connect(c) \/ Refused(c)
  \/ \E kind \in Requests : Request(c, kind)
  \/ Reply(c) \/ Leave(c) \/ Kill(c) \/ ConnectionLost(c)

Next ==
  \/ MainStep \/ BindFails \/ SocketFails
  \/ \E w \in Workers : HandlerStep(w)
  \/ \E c \in Clients : ClientStep(c)

Spec == Init /\ [][Next]_vars

\* The server's threads run, a client reads its reply, and a user at the
\* prompt ends the session some time.  Nobody has to connect or to send a
\* request.
Fairness ==
  /\ WF_vars(MainStep)
  /\ \A w \in Workers : WF_vars(HandlerStep(w))
  /\ \A c \in Clients : WF_vars(Reply(c)) /\ WF_vars(Leave(c))

FairSpec == Init /\ [][Next]_vars /\ Fairness

-----------------------------------------------------------------------------
(***************************************************************************)
(* Properties.                                                             *)
(***************************************************************************)

Gone(c) == client[c] \in {"left", "failed"}

Count(seq, c) == Cardinality({i \in 1 .. Len(seq) : seq[i] = c})

(* A connection is in one place at a time: waiting for accept(), in the    *)
(* main thread's hands, in the queue or served by one handler, from when   *)
(* it is opened until it is closed, which is never before its client is    *)
(* gone, unless the server is.                                             *)
ConnectionInOnePlace ==
  \A c \in Clients :
    /\ Count(backlog, c) + Count(queue, c) + (IF accepted = c THEN 1 ELSE 0)
         + Cardinality({w \in Workers : serving[w] = c})
       = IF connection[c] = "open" THEN 1 ELSE 0
    /\ connection[c] = "closed" /\ running => Gone(c)

(* While the server lives, a client waits for a reply exactly when one is  *)
(* due: its request is on its way, or a handler has read it and has yet to *)
(* answer, or the reply is on its way.  So no client waits in vain or gets *)
(* the answer to an earlier request.                                       *)
Due(c) ==
  Len(inbound[c]) + outbound[c] + Cardinality({w \in Workers : serving[w] = c /\ at[w] = "send"})

RepliesMatchRequests ==
  running => \A c \in Clients : ~Gone(c) => Due(c) = IF client[c] = "waiting" THEN 1 ELSE 0

(* Every request is answered while the server lives, even with a single    *)
(* handler that serves one connection to its end before it looks at the    *)
(* next, provided the users ahead in the queue leave, and provided the     *)
(* thread of one handler at least could be created.                        *)
EveryRequestAnswered ==
  \A c \in Clients :
    client[c] = "waiting" /\ started # {} ~> client[c] \in {"prompt", "left"} \/ ~running

(* The server's end of a connection is closed once the client is gone,     *)
(* under the same provisos.                                                *)
EveryConnectionClosed ==
  \A c \in Clients :
    Gone(c) /\ connection[c] = "open" /\ started # {} ~> connection[c] = "closed"

(* A handler serves a connection until its client is gone.                 *)
ServesUntilClosed ==
  [][\A w \in Workers : serving[w] # None /\ serving'[w] = None => Gone(serving[w])]_vars
=============================================================================
