# toySQL: specifications, model checking and proofs

toySQL is a small SQL server in C++: a page file behind a write-back cache, a
B+tree of rows on it, a lexer and parser that turn statements into JSON, and a
TCP server whose main thread hands connections to handler threads over a
queue. The storage and the network half do not call each other yet: the tests
drive the tree, the server answers every request with `{"status":"ok"}`.

This directory holds TLA+ modules translated from that code, the TLC
configurations that check them, and TLAPS proofs. `PROJECT.json` ties each
definition to the lines it models, each property to the hazard it is about,
and lists the disagreements found between the code and what its comments and
tests say.

    tlc -config table_any_order.cfg Table.tla
    tlapm PagerProofs.tla

## 1. Inventory

| Component (under `src/src/`) | State | Operations | Who calls it |
| --- | --- | --- | --- |
| Page cache, `storage/page.cpp`, `ds.h` | `page_map`, `lru_list` | `get_page`, `add_page`, `evict` | Pager |
| Pager, `storage/page.cpp`, `ds.h` | file, cache, `num_pages` | constructor, `get_page`, `get_unused_page`, `flush_all`, destruction | Table, Cursor, tests |
| Table, `storage/btree.cpp`, `btree.h` | the pages, `root_page_num` | `table_find`, `leaf_node_insert` and the splits under it, `table_start`, `print_tree` | tests |
| Cursor, `storage/btree.cpp` | page and cell number, `end_of_table` | `value`, `advance` | tests |
| Row, `storage/tuple.cpp` | none | `serialize`, `deserialize` | Table, tests |
| Lexer, Parser, `connection/protocol.cpp` | position, current token | `nextToken`, `serialize` | client |
| Work queue, `connection/wqueue.h` | list, mutex, condition variable | `add`, `remove`, `size` | main thread, handlers |
| Thread, `connection/Thread.cpp` | thread id, `m_running`, `m_detached` | `start`, `join`, `detach`, destructor | server |
| TCP stream, connector, acceptor, `connection/TCPStream.cpp` | sockets, `m_listening` | `connect`, `start`, `accept`, `send`, `receive` | server, client |
| Connection handler, `connection/TCPStream.cpp` | the connection it serves | `run` | its thread |
| Server, `server.cpp` | handlers, acceptor, queue | accept loop | - |
| Client, `client.cpp`, `input/repl.cpp` | connection, input buffer | prompt, send, receive | user |
| OS interface, `OS/specificOS.h` | none | files | Pager, tests |

What is hard, and what correctness means, part by part:

* **Pager.** A page has two homes, the cache and the file. Correct means: a
  read returns what was last stored, wherever the page has been in between;
  the cache's two indexes agree; eviction takes the least recently requested
  page; a flush leaves nothing behind; a new page is a page nobody has.
* **Table.** One insertion may split a leaf and every node above it, through
  two mutually recursive functions that re-enter each other half-way, with raw
  pointers into a cache that may evict their pages, in a file that may turn
  out to be full at any of several points. Correct means: a balanced tree over
  a chain of leaves that holds the rows inserted, in order, all of them found.
* **Work queue.** Correct means: first in, first out, each item once, no item
  left while a thread that could take it sleeps, whatever the interleaving and
  however often `pthread_cond_wait` returns without a signal.
* **Server.** A connection is owned by the kernel, the main thread, the queue
  and a handler in turn. Correct means: never by two of them, never by none;
  each client gets the reply to its own request; clients that hang up or die
  do not block the others.
* **Scan.** A cursor is a page and a cell number that nothing adjusts while
  insertions move rows. Correct means: the rows it would have passed are
  passed, and it ends.
* **Parser.** Five statements in five methods, each with its own loops and
  tests. Correct means: every statement gives the object its words say, and
  anything else gives `{}`.
* **Client.** It reads from a terminal that may hold several statements, half
  of one, or nothing more, and from a connection that may be lost at any
  moment. Correct means: what is sent is what was typed, each statement gets
  its own answer, and only `exit` ends the session.

The storage code is sequential: its hazards are long sequences of legal calls,
pointers kept too long, limits, and steps that fail half-way. The network half
is concurrent: threads, a mutex, processes that die.

## 2. Modules

| Module | What it is |
| --- | --- |
| `PageStore` | abstract: an array of pages over a durable copy |
| `Pager` | cache and pager; implements `PageStore` |
| `PagerProofs` | its theorems |
| `Lists` | lemmas on lists, on induction to a number and on loops, for all proofs |
| `PagePointers` | the pager as one operation of a Table sees it: requests and pointers |
| `SortedRows` | abstract: the rows a scan returns, sorted until an insertion throws |
| `Table` | the B+tree, on `PagePointers`; for ascending keys implements `SortedRows` |
| `Fifo` | abstract: a queue |
| `WorkQueue` | the mutex and condition variable queue; implements `Fifo` |
| `TableProofs` | theorems on `Table`: types, order within a leaf, the chain of leaves, the rows kept |
| `ShapeProofs` | theorems on `Table`: no descent fails, the tree is balanced, parents agree |
| `ScanProofs` | theorems on `TableScan`, and on searches of a `Table` with ascending keys |
| `WorkQueueProofs` | its theorems |
| `Server` | server and clients, on a queue that behaves as `Fifo` |
| `ServerProofs` | its theorems |
| `TableScan` | `Table` with a cursor that is moved between insertions |
| `Lexer` | `nextToken` and its methods |
| `Parser` | the five methods of the parser and `serialize`, on `Lexer` |
| `Statements` | reference: the forms of the five statements and their objects |
| `Client` | user, terminal, client process and connection, on `Parser` |
| `ClientProofs` | its theorems, with what the terminal holds and `read_input` makes of it |

There are no separate MC modules: constants are numbers, sets of numbers and
model values, which the `.cfg` files give directly.

### Pager

State: `file`, `page_map` (page number to data and dirty flag), `lru_list`,
`num_pages`; and five history variables that no action reads except to say
what a caller may ask for: `recent` (requests, latest first), `used` (pages
given to a Table of this file in any session), `flushed`, `reopened` (this is
not the session that made the file), and `op`, by which the abstract store
tells a store from a step that must not look like one.

`get_page` is `CacheHit` or `CacheMiss`; a miss adds the page, evicts, writes
the evicted page back whether dirty or not, and counts the page when it is
the next unused one: one action, as the code is sequential and nothing sees
the middle. `StoreInPage` is a store through the pointer of a cached page. It
does not set `dirty`, since nothing in the code does after the load.
`Reopen(n)` destroys the table, or kills the process with `n` entries of
`flush_all`'s list done, and opens the file again.

### PagePointers and Table

An insertion is one action, `Insert(key, text)`. Inside, an operation in
progress is a record (pages, page counter, the pages it requested that are
still cached, how often each was loaded, fault) that the operators named after
the C++ functions pass from call to call in the order of the code.
`Pointer(o, p)` is the pointer `get_page(p)` returned; a store or read through
it faults if its entry has been deleted since, even when the page was loaded
again. That the cache holds the pages requested last is `HoldsMostRecent` of
`Pager`, and that pages read as stored is `PageStore`: `PagePointers` assumes
of the pager exactly what is checked there.

The two long functions are chains of named steps, in the order of the code:
`create_new_root` of `CopyRoot`, `AdoptChildren`, `RootAbove`, `GrowRoot`;
`internal_node_split_and_insert` of `RequestSplit`, `MoveChildren`,
`ShortenOld`, `PlaceChild`, `UpdateKey`, `InsertNew`, which share the local
variables of the function as one record.

What recurs or loops in the code is a recursive function in `Table`, over the
turns or the levels it can take. A binary search is `Repeat` of one turn, a
record of `min`, `max` and `ans`, for as many turns as there are cells: each
turn narrows the range. `create_new_root` and the split of an internal node
go over children with the operation in progress as the loop's variable.
`internal_node_insert` and `internal_node_split_and_insert` call each other:
in `internal_node_insert`, `insert[n]` is a call with at most `n` calls nested
in it, and the split takes it as an argument. Each nested call is made by a
split, which takes a page, so there are never more than pages in the file;
`insert[0]`, never reached, throws as a request past the file does. A descent
(`internal_node_find`, `get_node_max_key`) likewise goes at most as many
levels as there are pages.

Nodes are records. A node's cells are numbered from 0 as in the code. Rows
have a key and a class of texts, long texts being those that reach the bytes
`SplitStray` damages. After a stale pointer or an `exit()` the model stops
(`stopped`); after an exception a caller may go on, and it does.

The bytes of cells that a node does not use matter in one place.
`internal_node_child` is called to write a child number too, and before the
write tests the number that is there for `INVALID_PAGE_NUM`; the places are
`btree.cpp:272`, `281` and `372`, and the test `TestCell`. No other cell can
fail it than one never used since the page was the root leaf: page 0, its bytes
from the leaf's first row, or the left page an internal root was copied to.
Where the numbers of cells 0, 1 and 2 lie in that row, on its key and in two
places of its text, and whether they are all ones, is all a row says of them
(`InvalidCells`, with the field `ones`; the key that is all ones is
`UINT32_MAX`); `leftover` is what of it an internal node has in unused cells.
An exit for that reason is the fault `"exit on old bytes"`, apart from the
`"exit"` for a child that is missing where one is read.

The trees the model builds, with the damage, the exceptions and the stale
pointers, were compared page by page with those of the compiled code for some
two thousand random sequences of insertions.

### WorkQueue

Each statement of `add` and `remove` under the mutex is a step, and `at[t]` is
the statement thread `t` is at. `pthread_cond_wait` releases the mutex and
waits in one step; it ends by `Signal` or `SpuriousWakeup`, and then takes the
mutex again. `Queued`, the abstract queue, has the item a handler has popped
still at its head until the handler unlocks.

### Server

`main`, `listening`, `backlog`, `accepted`, `queue`, `at` and `serving` are
the server's; `client`, `sent` the clients'; `connection`, `inbound`,
`outbound` the kernel's. `StartListening`, `BindFails` and `SocketFails` are
the three ways out of `TCPAcceptor::start`; `Accept` and `AddItem` the loop of
`main`; `RemoveItem`, `Receive`, `Send` and `HangUp` the loop of
`ConnectionHandler::run`; `Terminate` is what the kernel does when the process
ends. `started`, which handlers' threads could be created, is any set at
first (`start`). `sent` counts the requests of all clients together and bounds
them.

### TableScan

The variables of `Table` and, for the caller, `cursor` (page, cell,
`end_of_table`) and `scanning`. `Start` is `table_start()` and the loop's
first test, `value` and `advance` the two calls of the loop, `InsertRow` an
insertion through another cursor, between any two of them. `under` is the key
in the bytes at the cursor: a split moves rows but does not wipe them from the
old leaf, so a cursor past the last cell of a leaf that became shorter still
reads the row that was there (`UnderAfter`). Two history variables say what
is expected: `due`, the rows the scan would have passed had nothing been
inserted since it began, and `passed`. Of the rows `due` leaves out those the
scan would have missed anyway, because keys out of order make `table_start`
begin past them: that is `ScanSorted`'s subject. `rooted` becomes false when
the root leaf splits under the cursor; page 0 is an internal node then, which
`advance` reads as a leaf (`num_cells`, `next_leaf`).

### Lexer, Parser and Statements

A text is a sequence of symbols: a symbol is one character, except that a run
of letters and a run of digits are one symbol each, as `number`, `word` and
`literal` read them. `nextToken(text, pos)` returns a token and the next
position. Each method of the parser is written as the set of its edges: in a
state, a token that passes a test leads to another state and may add its value
to a field of the object; a token that passes no test makes the method return
`{}`. `Tokens` reads a text to its end, and `serialize` follows the edges from
the command the first word names.

`Statements` knows nothing of states. It lists forms, sequences of token
classes with the field each value belongs to, and `Meaning` is the object of
the form a sequence of tokens fits, or the empty one. Its one concession to
the parser is the class `any FROM`: in `SELECT` a literal `"FROM"` passes for
the keyword (`protocol.cpp:265`).

### Client

`Prompt` is one turn of the loop up to the parser: `read_input` takes an empty
line, or all up to a semicolon and drops the rest of that line, or, at the end
of the input, leaves the buffer as it was; then `exit` leaves, an empty buffer
prompts again, anything else goes on to `Send`. The answer is then `Receive`
(one came), `ReceiveNothing` (the server closed: `json::parse` throws on the
empty answer) or `ReceiveError` (reset: the array keeps the earlier answer,
which is parsed again). The user types ahead or at the prompt; `typed` is what
was typed and not yet sent, as tokens, so that what the client makes of the
text can be compared with it. `Answer` and `LoseConnection` are the server as
module `Server` has it.

## 3. Runs

Passing:

| Run | Module | Bounds | Checks |
| --- | --- | --- | --- |
| `pager_reopen` | Pager | 4 pages, cache of 2, 2 contents, any number of sessions | `TypeOK`, `IndexesAgree`, `HoldsMostRecent`, `ImplementsPageStore`, `NewPagesAreUnused`, `FirstFlushIsDurable` |
| `table_any_order` | Table | 8 rows in every order, 1 to a leaf, cache of 8, rows with all ones in cell 2 or none | `TreeIsBalanced`, `LeafParentsAgree`, `LeavesChained`, `RowsKept`, `DescentsEnd`, `ExitsOnOldBytesOnly`, `EightPagesSuffice` |
| `table_full_file` | Table | 13 rows of 3 keys, the last all ones, long texts, 3 to a leaf, file of 7 pages | `LeavesSorted`, `LeavesChained`, `RowsKept` |
| `table_ascending` | Table | 12 ascending keys, any of them left out, 1 to a leaf, file of 19 pages | `FindsRowsWhileShallow`, `ImplementsSortedRows` |
| `work_queue` | WorkQueue | 1 adds, 3 remove, 3 items | `NoLostWakeup`, `NeverPopsEmpty`, `ImplementsFifo`, `EveryItemTaken` |
| `table_scan_while_inserting` | TableScan | 7 rows in every order, 3 to a leaf, any number of scans | `NothingMissed`, `RowsPassed`, `ScanEnds` |
| `server_sessions` | Server | 3 clients, 2 handlers, 3 requests, short and long | `ConnectionInOnePlace`, `RepliesMatchRequests`, `EveryRequestAnswered`, `EveryConnectionClosed` |
| `client_session` | Client | 2 statements typed, the last any of some five thousand, lists of 2, 3 objects sent | `SentAsTyped`, `AnswersBelong`, `EndsWhenTold`, `EveryStatementServed` |

Violated, each a disagreement between the code and a comment or test
(quoted in `PROJECT.json`):

| Run | Property | What happens |
| --- | --- | --- |
| `pager_second_flush` | `FlushIsDurable` | a store after a flush is not written by the next one |
| `table_scan_order` | `ScanSorted` | keys out of order: the scan begins past the smallest row |
| `table_small_cache` | `NoStalePointer` | the tests' cache of 3: a deleted entry is used |
| `server_long_request` | `ServesUntilClosed` | a request of two reads ends the server |

Each module's type invariant is checked by its first run too.

Behind the table's violations are `btree.cpp:428`, where a leaf split updates
the key in the leaf instead of in its parent, and `btree.cpp:369`, where a
pointer is kept across requests; `btree.cpp:234` uses a key as an index. By the
first, the
new leaf of a split that is not of the last child is put before the old one,
though it has the greater rows: in the shortest trace the third row is smaller
than the two before it, splits the first leaf, and stays alone in the old one,
past which `table_start` begins; the scan is in order and misses it. What holds
in spite of them is what the passing runs say: no row is lost from the leaves,
the tree stays balanced and the chain whole in any order of keys; every search
for a place ends in a leaf, and an insertion exits for a row's bytes only;
scans are sorted as long as keys come in ascending order and no insertion
throws; rows are found as long as, besides, the root's children are leaves
(`FindsRows` without that condition fails with five leaves even in ascending
order, for line 234).

Seen while modelling, in the models as the code does it, and without a run of
their own: `ds.h:66`, the page counter restarts at 0 when a file is opened
again, so new pages are pages in use; `btree.cpp:60`, the bytes that a child
number is about to be written over are tested, and for some legal rows the
insertion exits (the key 4294967295 first in the root leaf, or a text there
with bytes of all ones in the wrong places); `btree.cpp:430`, the stray key
damages a long text (`SplitStray`); `btree.h:48`, `next_leaf` is not the sibling on the
right when keys come out of order; `btree.cpp:238`, from three levels of
internal nodes on a node may name a wrong parent; `TCPStream.cpp:69`, a
failing `socket()` is returned as success; `protocol.h:13` and `:15` give
examples with single quotes, which the lexer takes for invalid characters, so
that both statements are sent as `{}`; `repl.cpp:12`, a semicolon inside a
literal ends the statement (`Cut`), and at the end of its input the client
sends the last statement again for ever; `client.cpp:49`, after a reset
connection the client prints the earlier answer once more, for a statement
nobody served; `btree.cpp:135`, a scan whose root leaf splits under it misses
the rows that moved to the left child.

Why the bounds are enough:

* *Pager.* Two cached pages are the least with an order to keep, four pages
  leave two outside, so pages are evicted, loaded again and evicted while
  another comes in; a cache of one and of zero are covered by the proofs.
* *Table.* An internal node holds 3 keys in code and model. A leaf holds 15
  rows in the code; the leaf split is the same for every capacity, and with 1
  row the 8 rows of `table_any_order` make 8 leaves, so that leaves, internal
  nodes and an internal root split, in all orders; 12 ascending rows reach
  three internal levels, and 19 pages are the number with which the last of
  them may be refused (`SortedRows` promises nothing past that, as a split cut
  off half-way keeps the row it refused; rows that moved in it a search no
  longer finds). An odd capacity of 3 (as 15 is) exercises both halves of a
  split with several rows. Duplicates need the larger leaves. `table_any_order`
  has a page for every split, so that nothing throws in it: that is the subject
  of `table_full_file`.
* *Old bytes.* The exit ends a behaviour, so the runs mix rows that cause it
  with rows that do not: in `table_any_order` any row may have all ones where
  cell 2 will be (one of the root leaf's two rows decides it, so `UniqueNext`
  tries them on no later row), the exit when the root is given its third leaf
  among the behaviours, and its internal root splits into a left half
  whose cells 1 and 2, emptied by the split, are written into again. In
  `table_full_file` the greatest key is the one that is all ones, for cell 0.
  Cell 1 differs from cell 2 in that the exit comes one leaf earlier.
* *Full file.* The fifth leaf splits the root: it takes pages 5 and 6, and
  page 7, past the file, is refused in `create_new_root`, half-way up. The
  caller may then go on, insert rows where there is room, and be refused
  again when the next leaf splits; 13 rows leave room for both.
* *WorkQueue.* Three consumers and three items: two can wait while a third
  takes the item one of them was woken for. The proofs cover any number.
* *Server.* Two handlers for sharing, any set of which may have failed to
  start, so that one or none is covered too; three clients so that one is
  served, one queued and one waits in the backlog; three requests, so that one
  client sends two and a stale reply could be mistaken for the second one's.
  `lbacklog` is 1 rather than 5 so that connecting blocks.
* *TableScan.* Seven rows and three to a leaf: the root splits at the fourth
  row, a leaf below it at the sixth or later, with the cursor in it, before it
  or past it; the tree has three leaves at most, so a cursor walks a chain
  that grows on both sides of it.
* *Client.* Lists of one and two are what tells a comma from an end; one token
  exchanged, added or left out reaches every test of every method from its
  failing side. Two statements so that the second meets a used buffer, a used
  array and text typed ahead; three objects sent, so that the last is sent
  again at the end of the input.

`CHECK_DEADLOCK FALSE` is set where a model really stops: all `MaxRows` rows
are inserted, every client is gone and the server waits for another, or the
client has ended.

Each property has a mutant in `PROJECT.json`: an operator that stands in for
one definition as a plausible bug would, beside that definition in the module
with a comment `Mutant:`, under which TLC finds the property violated.

## 4. Fairness

Of the storage modules only `TableScan` states liveness, since each call
returns or faults: its caller, the loop of the tests, goes on with a scan it
began (`WF` of `CallerStep`), whatever others insert in between.

`WorkQueue!Fairness`: weak fairness for a thread inside `add`, and for
`remove`, which a handler calls again and again (`for (;;)` in
`ConnectionHandler::run`). The operating system schedules threads, so a step
that stays enabled is taken. No fairness of the mutex is assumed: taking it is
weakly fair only, and nothing of spurious wakeups, whether they come or not.
That a handler comes back to `remove` is what `EveryConnectionClosed` of
`Server` says, under the assumption there.

`Server!Fairness`: weak fairness of the main thread, of each handler and of a
client reading its reply, again scheduling; and of `Leave`, a user at the
prompt ends the session some time. The last is an assumption about people and
a real one: with `workers = 1` (`server.cpp:16`) a user who stays keeps every
other client waiting for ever. The two liveness properties hold while the
server lives, long requests included, since one of those ends it; and they ask
that one handler's thread at least could be created (`started # {}`), which
`server.cpp:30` does not look at.

`Client`: weak fairness of the client process, a single thread, and of
`Answer`, as long as the connection is open: that the server answers is
`EveryRequestAnswered`, under the assumptions there. Nothing is assumed of the
user: `EveryStatementServed` speaks of what has been typed.

## 5. Proofs

Checked by TLAPS for every value of the constants. What they assume is the
named assumption of each module: `PagerAssumption` and `PagePointersAssumption`
(at least one page; in the second, a cache of one page at least),
`TableAssumption` (a leaf holds one row at least, keys are natural numbers up
to `UINT32_MAX`), `WorkQueueAssumption` and `ServerAssumption` (finite sets of
threads, of clients and of handlers, `None` being none of them),
`ClientAssumption` and `StatementsAssumption` (the bounds are natural numbers,
a list has one element at least). TLC evaluates them in every run of their
module. The theorems are about `Spec`, so about any order of operations:
`Table`'s about rows in any order with keys repeated, a file that fills up,
exceptions caught, and up to the moment it stops; only `RowsFoundWhileShallow`
is about `AscendingSpec`, as the property it states is false of the others.

Induction over a number is used for the loops and recursive functions of
`Table`; since it cannot be had here with an operator as parameter, `Lists`
states it of a set of numbers (`InductionTo`), and derives that the function
by which a loop is written exists (`Loop`).

**`PagerProofs`.** `TypeCorrect`, `IndexesCorrect`, `MostRecentKept`,
`PagerImplementsPageStore`, `FirstFlushCorrect`, `NewPagesCorrect`. The
invariant is `IInv == TypeOK /\ IndexesAgree /\ Distinct(recent)`. `TypeOK`
alone is not inductive: that `num_pages` stays in the file needs only its own bound, but
that an evicted page has an entry to write back needs the two indexes to
agree, and `MoveToFront(recent, p)` keeps a sequence of pages only if the
position it removes exists. `IndexesAgree` in turn needs each page once in
`lru_list`: a duplicate would survive an eviction that removes it from
`page_map`. The lemmas on `RemoveAt`, `MoveToFront`, `AddPage` say which
elements those operators leave. For the refinement, a request maps to
`Persist` of the evicted pages (`RequestPersists`), a store to
`Write`, `flush_all` to `Persist`, a reopening to `Restart`.

`HoldsMostRecent` is inductive given `IInv`, said place by place (`Agrees`):
a hit finds the page at the same place of `lru_list` and of `recent`, since
neither has it twice, and a miss finds it, if at all, in `recent` behind as
many pages as the cache holds.

Two facts of a session stand beside `IInv` and are inductive given it.
`DirtyUntilFlushed`, every entry is dirty until a flush has run, since each is
marked as it is loaded: with the agreement of the indexes it makes the first
flush write every cached page (`FirstFlushCorrect`); the flush clears the
marks, which is why nothing of the kind holds afterwards. `UsedBelowNumPages`,
until the file is opened again the pages handed out are those below
`num_pages`: a caller asks for a page it had before, for the root, or for the
next one, and only the last moves the counter (`RequestUsed`), so the next one
is nobody's (`NewPagesCorrect`).

**`TableProofs`.** `TypeCorrect`, `LeavesStaySorted`, `ChainStaysWhole`, `NoRowLost`:
one argument in four parts.

*Internal nodes.* Whatever an insertion does above the leaves,
it leaves every leaf's rows and link alone: `Keeps(o, r)`, for each operator
of the insertion. It takes `Shaped`, which holds at every moment of an
insertion, failed ones included: page 0 alone is marked as root, pages not
handed out are no leaves, and the page a node names as its parent is in use
and an internal node, unless the root is still a leaf. Without the last,
`internal_node_insert(node.parent, ...)` could overwrite a leaf, and the code
looks at nothing to prevent it. The mutual recursion is proved by a contract:
`Contract(insert)` says of nested calls that they keep the leaves, leave a
failed operation alone and add at most one cell to a node with room, to no
other node any; `ChildInserted` proves the same of a call that makes them, and
`NodeInserted` is the induction. The bound on cells is needed since a split
moves two or three children into a new node by nested calls, none of which may
split again. `MaxKeyIsNat`, `ChildFound` and `Repeated` follow the descents
and the search: their results are keys and indexes, whatever the nodes hold.

*Leaves* (`TypeCorrect`, `LeavesStaySorted`). The invariant is `IInv == TypeOK
/\ Shaped(pages, num_pages) /\ InShape(pages)`; `InShape`, each leaf holds rows
in order and no more than fit, is `LeavesSorted` with what it needs.
`CellFound` proves the binary search of `leaf_node_find` on cells in order: it
ends within as many turns as there are cells, at the place by key (every cell
before it has a lesser or equal key, none from it on a lesser one).
`OrderKept`, `HalvesFit` and `StrayHalf` carry the order through the insertion,
the two halves and the stray key. `Outcome` then says all that
`leaf_node_insert` may leave behind: a stale pointer or an exit on old bytes
(`Halted`), where nothing more is claimed than `Shaped` and `InShape`; nothing
done; the row taken (`Took`); the leaf divided, whether or not the operation
failed afterwards (`Divided`); or the root leaf divided and moved (`Grew`). A
refused page leaves either nothing done or a whole division, because stores
fail on stale pointers and old bytes only (`StoreFailsHalted`, `FailsHalted`),
and a full file shows before the first store, or after both halves are stored.

*The chain* (`ChainStaysWhole`). `ChainInv` gives
`LeavesChained` a witness: a sequence of the leaves, each once, each linking
to the next, the last to page 0. A division inserts the new page after the old
one (`ChainDivided`); a root that grows first renames page 0 to the left page
in the chain and is then a division (`GrownAsDivided`, `ChainGrown`).
`LinkedAsChained` leads back to `LeafAfter`. That page 0 ends the chain and may
be a leaf as well is what makes the second conjunct of `Chained` needed: only
the first leaf can be page 0.

*The rows* (`NoRowLost`). `RowsInv` counts cells: of each row
the leaves hold at least the copies whose insertion returned and at most those
and the copies whose insertion threw (`Between`). The number of places with a
row changes by one-to-one correspondences of places (`OneToOne`): a row taken
shifts the cells behind it (`CountTaken`), a division sends each cell of the
overfull list to the half it is in (`CountDivided`), a root moved renames a
page (`CountMoved`). An insertion that threw may have kept its row or not, and
either count is within the bounds.

**`ShapeProofs`.** `DescentsAlwaysEnd`, `OtherRowsNeverExit`,
`TreeIsBalancedAlways`, `LeafParentsAlwaysAgree`. Both invariants say that
there is a rank of pages, a function `h`, chosen anew by each insertion.

*Descents end* (`ShapeInv`). `Ranked(tree, n, h, open)`: page 0 and the pages
under it have ranks, a child a lesser one than any node it is a child of, a
page a lesser one than the page it names as its parent, and no internal node
but those in `open` is without a right child. A page without a rank is one that
an insertion lost, or never got to: none refers to it. A descent is then as
short as the rank of page 0, which is less than the number of pages in use, so
`table_find` ends in a leaf (`FindsLeaf`), and what it asks
`internal_node_child` for is there (`GoesToKid`). The rank is all that can be
had: after an insertion that broke off, a page may be the child of two nodes or
of none, and leaves may lie at different depths (a TLC run with a full file
shows each); what stays is that there is no cycle, and no node that is open
outside a split. Within a split it is not so: `internal_node_split_and_insert`
opens the new page first, hangs it under the parent with a nested insertion
that may split the parent, and a root that grows moves up by a level
(`RankedOpened`, `RankedGrew`, `RankedParted`). The nested calls go up the tree
and each takes a page, so the induction is on the pages that are left:
`Ranks(insert, m)` is what is known of calls with `m` pages in use
(`InsertRanked`, `NestedRanks`, `NodeInsertRanked`). The exit on old bytes is
`TestCell`'s alone, and for a cell in `leftover`, which by `TypeCorrect` has
only cells that some row may have such bytes in (`MayBeInvalid`). Where there
are none, for rows of other keys and texts, `NeverExits` holds:
`OtherRowsNeverExit`, the condition of which `table_any_order` breaks.
It needs to know exactly which children a split moves where, of which
`TableProofs` says nothing: the lemmas before it, up to `SplitExactly`, follow
each named step of `Table`, the nested calls that move a child each being one
that finds room (`RoomFilled`).

*The tree is balanced* (`EvenInv`), as long as no insertion threw. The same
rank is then the height over the leaves: `Even(tree, n, h, open, spare, loose)`
says that every page in use has one, that it is 0 for leaves and one less for
a child than for its node, that each page is the child of one node and only
one, that a leaf names that node as its parent, and that nodes are filled as
they ought to be. During a split it holds but for the pages named in its last
three arguments: `open` nodes have no right child yet, `spare` pages no place,
and `loose` ones are still to be told their parent. For an internal page the
parent it names need only be one level up, not the node it is a child of: a
split tells its new node the parent of the old one (`InsertNew`), and when the
parent had to be split too, the new node may have gone to its other half. No
stronger statement is true, and none is needed: only leaves go by it first.
`InsertEven` and `NodeInsertEven` repeat the induction. `EvenIsBalanced` leads
back to the numbers of `TreeIsBalanced`: one parent is one place because a
node has no child twice (`Apart`, `OnePlace`), and the levels counted down
from the root meet the heights counted up (`LevelsReached`).

**`ScanProofs`.** `ScanTypeCorrect`, `NothingMissedAlways`,
`RowsPassedAlways`, `RowsFoundWhileShallow`. To the table a step of a scan is none and an insertion of
`TableScan` is one of `Table` (`ScanSteps`), so every invariant above holds
here, and two more: no leaf but the root is empty (`NoneEmptyInv`, since each
half of a split has a row), and every row in a leaf was inserted (`KeysHeld`,
from `RowsInv`). `ToCome(tree, p, cell, key)` says that a scan at that cell of
leaf `p` has a row with the key ahead of it: in the leaf at that cell or
behind, or in any of the leaves the links lead to (`Ahead`, the least set of
pages that no link leaves, so that no induction over the links is needed).
`ScanInv` says that what is due and not passed is to come (`LeafPlaceInv`), and
that the cursor is on a leaf or on a page with a rank (`TreePlaceInv`), so that
`right_child`, read as `next_leaf`, is a page of the file.

An insertion keeps `ToCome` (`StillToCome`): rows move behind the cursor's
cell or into leaves ahead, since a division puts the new leaf right after the
old one and the row inserted pushes others back, never forward
(`NonePushedBack`); only a row already passed can be passed again. A value
passed is a row inserted even past the end of a leaf, since `under` was read
there when it was one. A step of `advance` past the last cell leaves nothing
of the leaf to come (`ToComeAdvanced`), and at the end of the chain nothing at
all, which is `NothingMissed`. That a new scan has `due` to come is
`StartScan`: `due` is defined by `RowsFrom`, the loop of the tests run at once,
whose list holds just the rows of the leaves ahead (`RowsFromPasses`), from the
first cell `table_find` gives (`FirstCellFound`).

`RowsFoundWhileShallow` needs what `Even` does not speak of, the keys of a
node. `OrderInv`: as long as the root's children are leaves and no insertion
threw, `Orderly(pages)`, each leaf's keys rise and each is at most the root's
key for that leaf and greater than the one before (`Belongs`). So a key greater
than all is under the last child (`GreatestIsLast`), and goes last there
(`RowGoesLast`); a leaf that is split under a root with room leaves its
greatest key in the root, past all others (`GreatestPut`), and a root that was
a leaf gets that key as its only one (`RootLeafTop`). That the root had room is
seen from what comes out: had it none, the tree would be a level deeper, and
the pages in use too many for a root whose children are leaves (`RootHadRoom`).
It is here that the restriction is needed: an internal node that is split
leaves a stale key in its parent, after which `OrderInv` is false. And keys
must ascend: the split of a leaf other than the last leaves that leaf's key in
the root as it was (`btree.cpp:428-430` writes the new one into the leaf, which
it takes for the parent), and the new leaf is put before it.

**`WorkQueueProofs`.** `TypeCorrect`, `NothingPoppedFromEmpty`,
`NoWakeupLost`, `WorkQueueImplementsFifo`. The invariant adds to the checked
ones `MutexHeld` (a thread is at a label under the mutex exactly if it holds
it), without which another thread could empty the list between the test and
`front`, and `ItemsHeld` (what the local variable is at each label), which the
refinement needs. `NoLostWakeup` is inductive on its own given those: an item
pushed is balanced by a producer about to signal, its signal by a consumer
awake, and a consumer leaves the balance only with an item or before an empty
list. A push and an unlock are the two steps of `Fifo`; all others stutter
(`AddSteps`, `RemoveSteps`).

**`ServerProofs`.** `TypeCorrect`, `OnePlace`, `OneReplyEach`. The invariant
says the two properties of places rather than of their numbers: no connection
is twice in a place (`OnceInAPlace`) or in two (`PlacesApart`), it is open
exactly while it is in one (`EndsAgree`), and a client of a live server waits
exactly if its request, a handler about to answer it or the reply is there
(`RepliesDue`). `HandlersBusy`, a handler has a connection exactly outside
`remove()`, keeps it from taking a second one. `ServersCounted` leads back to
the numbers, each of them 0 or 1.

**`ClientProofs`.** `AnswersCorrect`. `AnswersBelong` speaks of the prompt of
an open connection; inductive is `OneAtATime` (objects sent and answers shown
differ by one while the client waits, and by none at its prompt, open or not)
with `AnswersCounted` (what the server answered is shown, on its way, or lost
with the connection, and a lost connection adds one at most). That an error
is followed by a closed connection, so that a second earlier answer is never
shown, is its last line.

`TypeCorrect`, `EndsOnlyWhenTold`, for any number of statements typed, of lists
of any length and in any spacing, one token of the last exchanged, added or
left out. What is left on the terminal does not say which statement is next; the
invariant (`Input`) therefore keeps that the statements typed and not yet read
(`Pending`) stand there one after the other (`Holds`), after the end of an empty
line at most: each begins with something other than that, goes on to a
semicolon that is not its first symbol (`Finished`), and ends with the line, or
at the end of the input may lack the semicolon (`Unfinished`); if it is `exit`
up to the semicolon then `exit` was typed. With `ExitLast`, nothing is typed
after `exit`, a buffer that reads `exit` has sent all else. The lemmas go the
way of the text: the symbols of every token that may be typed
(`UsualSymbols`, `OtherSymbols`), which tokens those are in statements of any
length (`FormParts`, `UsualStatementTokens`, `OddStatementTokens`), how they
are spelled (`SpelledText`, an induction with `InductionTo`), what follows them
(`LineText`, `ExitText`, `LastText`), what is read of it and what is left
(`FinishedRead`, `UnfinishedRead`), and that a text that holds statements still
does when more is typed or the first is read (`HoldsAppend`, `HoldsTail`,
`HoldsShift`). A literal with a semicolon in it is why `Finished` says nothing
of the statement past the first semicolon, and why an odd statement is covered.

## 6. Model-checked only

Of `Table`: `ImplementsSortedRows`, which needs the order of the leaves under a
tree of any depth, where the keys of internal nodes do not separate the rows
below them (see `FindsRows`) and `OrderInv` says nothing; `EightPagesSuffice`,
which counts requests of all paths through a split, as TLC does better;
`ExitsOnOldBytesOnly`, of which the proofs have the part that asks what rows
can be inserted, not which were. Of the client `SentAsTyped`, which follows
texts through the lexer and the parser token by token to the object and
compares it with the one of `Statements`, where a proof would be an induction
over the text for each of the five automata. Liveness: `EveryItemTaken`,
`EveryRequestAnswered`, `EveryConnectionClosed`, `ScanEnds`,
`EveryStatementServed`.

## 7. Not modelled

Failing reads and writes of the file (the code does not look at the stream's
state); the bytes of a page beyond what `SplitStray`, `UnderAfter` and
`TestCell` say, in particular the order in which the loop of a leaf split
(`btree.cpp:395`) overwrites the page it reads from, whose halves are taken
from the old list of rows, and the store past the page at `btree.cpp:234` for
keys of 510 and more; `print_tree`; the text of rows and their serialization
(`tuple.cpp`), formatting and logging, the race on `m_tid` with it; a request
split by the network rather than by the buffer; file operations of
`specificOS.h`; `Thread::join`, `detach` and the destructor, which nothing in
the program calls (a handler is never deleted); characters other than those the
lexer tells apart, and keywords in lower case other than two of them; the width
of the unsigned bounds of the binary searches (`btree.cpp:463`), which are
integers here; the two halves together, since they do not call each other.

## 8. Plan

Done: the storage half (`Pager`, `Table`, `TableScan`), the queue, the server,
the lexer, the parser and the client; proofs of what they keep in `Pager`,
`Table`, `TableScan`, `WorkQueue`, `Server` and `Client`.

Next, in this order:

1. **Sorted rows.** `ImplementsSortedRows` in a tree of any depth, from the
   first and the last leaf of the chain being the leftmost and the rightmost.
2. **Crash consistency.** `Table` on a `Pager` that is reopened: which of the
   tree's properties survive a complete flush, and that none survives a
   partial one (there is no log); page reuse after reopening.
3. **Client and server together.** `Client`'s connection and `Server`'s as
   one, with the long request that ends both.
