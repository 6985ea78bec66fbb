------------------------------- MODULE Parser --------------------------------
(***************************************************************************)
(* The parser of toySQL (class Parser, src/src/connection/protocol.cpp).   *)
(* serialize() turns the text of one statement into the object that the    *)
(* client sends, {} when the statement is not understood.                  *)
(*                                                                         *)
(* Each method is the set of its edges: in a state of the method the next  *)
(* token must pass the test of an edge, which leads to another state and   *)
(* may add the token's value to a field of the object; a token that passes *)
(* no test makes the method return {}.                                     *)
(***************************************************************************)
EXTENDS Lexer

\* checkWords(): equal words, whatever their case.
checkWords(value, keyword) ==
  value \in {<<keyword>>} \cup {<<Lowercase[w]>> : w \in {keyword} \cap DOMAIN Lowercase}

\* What a method asks of a token: that it is a word, a keyword (a word with
\* that text), a value, or of some type; at one place that its text is
\* FROM, whatever its type.
Passes(token, test) ==
  CASE test \in Keywords -> token.type = "Word" /\ checkWords(token.value, test)
    [] test = "value" -> token.type \in {"Number", "Literal"}
    [] test = "text FROM" -> checkWords(token.value, "FROM")
    [] OTHER -> token.type = test

Edge(from, test, to, field) == [from |-> from, test |-> test, to |-> to, field |-> field]

\* The loops over "key = value": they begin in state name, and a token that
\* is not a comma is left to the edges out of state name \o " end".
Pairs(name, field) ==
  {Edge(name, "Word", name \o " key", field),
   Edge(name \o " key", "Equal", name \o " =", "none"),
   Edge(name \o " =", "value", name \o " end", field),
   Edge(name \o " end", "Comma", name, "none")}

Create ==
  {Edge("create", "TABLE", "create table", "none"),
   Edge("create table", "Word", "create name", "table_name"),
   Edge("create name", "OpenBracket", "create column", "none"),
   Edge("create column", "Word", "create type", "columns"),
   Edge("create type", "INT", "create end", "columns"),
   Edge("create type", "TEXT", "create end", "columns"),
   Edge("create end", "Comma", "create column", "none"),
   Edge("create end", "CloseBracket", "closed", "none")}

Insert ==
  {Edge("insert", "INTO", "insert into", "none"),
   Edge("insert into", "Word", "insert name", "table_name"),
   Edge("insert name", "VALUES", "insert values", "none"),
   Edge("insert values", "OpenBracket", "insert value", "none"),
   Edge("insert value", "value", "insert end", "values"),
   Edge("insert end", "Comma", "insert value", "none"),
   Edge("insert end", "CloseBracket", "closed", "none")}

\* Mutant: the token after the columns must be the keyword.
SelectFromKeyword ==
  {Edge("select", "Word", "select column", "columns"),
   Edge("select column", "Comma", "select next", "none"),
   Edge("select next", "Word", "select column", "columns"),
   Edge("select", "Any", "select all", "columns"),
   Edge("select column", "FROM", "select from", "none"),
   Edge("select all", "FROM", "select from", "none"),
   Edge("select from", "Word", "select name", "table_name"),
   Edge("select name", "END", "done", "none"),
   Edge("select name", "WHERE", "select where", "none"),
   Edge("select where end", "END", "done", "none")}
  \cup Pairs("select where", "where")

Select ==
  {Edge("select", "Word", "select column", "columns"),
   Edge("select column", "Comma", "select next", "none"),
   Edge("select next", "Word", "select column", "columns"),
   Edge("select", "Any", "select all", "columns"),
   Edge("select column", "text FROM", "select from", "none"),
   Edge("select all", "text FROM", "select from", "none"),
   Edge("select from", "Word", "select name", "table_name"),
   Edge("select name", "END", "done", "none"),
   Edge("select name", "WHERE", "select where", "none"),
   Edge("select where end", "END", "done", "none")}
  \cup Pairs("select where", "where")

\* Mutant: the pairs of SET go where those of WHERE do.
UpdateOneField ==
  {Edge("update", "Word", "update name", "table_name"),
   Edge("update name", "SET", "update set", "none"),
   Edge("update set end", "END", "done", "none"),
   Edge("update set end", "WHERE", "update where", "none"),
   Edge("update where end", "END", "done", "none")}
  \cup Pairs("update set", "where") \cup Pairs("update where", "where")

Update ==
  {Edge("update", "Word", "update name", "table_name"),
   Edge("update name", "SET", "update set", "none"),
   Edge("update set end", "END", "done", "none"),
   Edge("update set end", "WHERE", "update where", "none"),
   Edge("update where end", "END", "done", "none")}
  \cup Pairs("update set", "values") \cup Pairs("update where", "where")

Delete ==
  {Edge("delete", "FROM", "delete from", "none"),
   Edge("delete from", "Word", "delete name", "table_name"),
   Edge("delete name", "END", "done", "none"),
   Edge("delete name", "WHERE", "delete where", "none"),
   Edge("delete where end", "END", "done", "none")}
  \cup Pairs("delete where", "where")

\* The object each command starts with: "op", and lists still empty.
Fields == [create |-> {"columns"}, insert |-> {"values"}, select |-> {"columns", "where"},
           update |-> {"values", "where"}, delete |-> {"where"}]
NewObject(op) ==
  [f \in Fields[op] \cup {"op", "table_name"} |-> IF f = "op" THEN op ELSE <<>>]

NoObject == <<>>

\* The command the first word names.
Commands == [CREATE |-> "create", INSERT |-> "insert", SELECT |-> "select",
             UPDATE |-> "update", DELETE |-> "delete"]

\* The edges of the methods; Create and Insert end alike.
Edges == Create \cup Insert \cup Select \cup Update \cup Delete
         \cup {Edge("closed", "END", "done", "none")}

\* A type is stored in capitals, anything else as it was typed.
Stored(token, test) == IF test \in {"INT", "TEXT"} THEN <<test>> ELSE token.value

At(state, obj) == [state |-> state, obj |-> obj]

Follow(at, token, edge) ==
  At(edge.to, IF edge.field = "none" THEN at.obj
              ELSE [at.obj EXCEPT ![edge.field] = Append(@, Stored(token, edge.test))])

\* Where a token leads from one of some places: nowhere if it passes no test.
Take(places, token) ==
  UNION {{Follow(at, token, edge) : edge \in {e \in Edges : e.from = at.state /\ Passes(token, e.test)}}
         : at \in places}

\* The tokens of a text, read one after the other up to the end.
Tokens(text) ==
  LET from[pos \in 1 .. Len(text) + 1] ==
        LET read == nextToken(text, pos)
        IN <<read.token>> \o IF read.token.type = "END" THEN <<>> ELSE from[read.pos]
  IN from[1]

serialize(text) ==
  LET tokens   == Tokens(text)
      commands == {k \in DOMAIN Commands : Passes(tokens[1], k)}
      start    == {At(Commands[k], NewObject(Commands[k])) : k \in commands}
      objects  == {at.obj : at \in FoldLeft(Take, start, Tail(tokens))}
  IN IF objects = {} THEN NoObject ELSE CHOOSE obj \in objects : TRUE
=============================================================================
