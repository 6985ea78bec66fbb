-------------------------------- MODULE Client --------------------------------
(***************************************************************************)
(* The client process (src/src/client.cpp and input/repl.cpp): it reads a  *)
(* statement from its terminal, turns it into an object with the lexer and *)
(* the parser, sends that and waits for an answer, until "exit" is typed.  *)
(*                                                                         *)
(* The user types statements, sequences of tokens spelled as symbols.  The *)
(* last may be any statement of toySQL, or one with a token too many, too  *)
(* few or exchanged; those before it are plain.  The server answers each   *)
(* request once (module Server), or the connection is lost.                *)
(***************************************************************************)
EXTENDS Parser, Statements

CONSTANTS
  MaxTyped,   \* bound: statements the user types
  MaxSent     \* bound: objects the client sends

ASSUME ClientAssumption == MaxTyped \in Nat /\ MaxSent \in Nat

VARIABLES
  terminal,     \* symbols typed and not yet read
  ended,        \* nothing more will be typed: end of file
  at,           \* where the client is
  buffer,       \* the input buffer
  line,         \* whether the array for the answer holds an earlier one
  connection,   \* "none", "open", "closed" (reads return 0) or "reset" (the next call fails)
  reply,        \* an answer is on its way
  typed,        \* history: the statements typed and not yet sent
  last,         \* history: the text whose object was sent last
  sent,         \* history: the number of objects sent
  answered,     \* history: the number of requests the server answered
  shown         \* history: the number of answers the client printed

vars == <<terminal, ended, at, buffer, line, connection, reply, typed, last, sent, answered, shown>>

-----------------------------------------------------------------------------
(***************************************************************************)
(* The statements typed.                                                   *)
(***************************************************************************)

PunctuationTokens == {Punctuation[c] : c \in DOMAIN Punctuation}

\* A token of a class, as most users would type it.
Usual(class) ==
  CASE class \in Keywords -> Token("Word", <<class>>)
    [] class = "any FROM" -> Token("Word", <<"FROM">>)
    [] class = "type"     -> Token("Word", <<"INT">>)
    [] class = "Word"     -> Token("Word", <<"id">>)
    [] class = "value"    -> Token("Number", <<"1">>)
    [] OTHER              -> CHOOSE t \in PunctuationTokens : t.type = class

Filled(forms) == {[i \in DOMAIN form.parts |-> Usual(form.parts[i].class)] : form \in forms}
UsualStatements == Filled(UsualForms)

\* The tokens that may come in the place of another: keywords as names and
\* types, literals with anything inside, characters that are no token.
Others ==
  {Token("Word", <<w>>) : w \in Letters \ {"CREATE", "INSERT", "UPDATE", "INT", "TEXT"}} \cup PunctuationTokens
  \cup {Token("Word", <<"id", "1">>), Token("Number", <<"1">>), Token("Literal", <<>>),
        Token("Literal", <<"FROM">>), Token("Literal", <<"id", " ", "id">>),
        Token("Literal", <<"id", ";", "id">>), Token("Invalid", <<"'">>), Token("Invalid", <<Quote>>)}

\* Statements with one token exchanged, added or left out.
Near(s) ==
  {[s EXCEPT ![i] = t] : i \in DOMAIN s, t \in Others}
  \cup {InsertAt(s, i, t) : i \in 1 .. Len(s) + 1, t \in Others}
  \cup {RemoveAt(s, i) : i \in DOMAIN s}

OddStatements == UNION {Near(s) : s \in Filled(FormsOf({MaxList}, {0, MaxList}))}

Plain == [i \in 1 .. 4 |-> Usual(<<"SELECT", "Any", "FROM", "Word">>[i])]

Symbols(token) ==
  CASE token.type = "Literal" -> <<Quote>> \o token.value \o <<Quote>>
    [] token.type = "Equal"   -> <<"=">>
    [] OTHER                  -> token.value

\* Words and numbers are kept apart, everything else may touch.
Apart(a, b) == {a.type, b.type} \subseteq {"Word", "Number"}

Gap(statement, i, space) ==
  IF i = 1 THEN <<>>
  ELSE IF space # "" THEN <<space>>
  ELSE IF Apart(statement[i - 1], statement[i]) THEN <<" ">> ELSE <<>>

Spelled(statement, space) ==
  LET upTo[i \in 0 .. Len(statement)] ==
        IF i = 0 THEN <<>> ELSE upTo[i - 1] \o (Gap(statement, i, space) \o Symbols(statement[i]))
  IN upTo[Len(statement)]

\* What the tokens of a statement may be kept apart by, and what may follow
\* a statement: the end of the line, or more on the line.
Spacings == {"", " ", "\n"}
Endings == {<<";", "\n">>, <<";", " ", "id", ";", "\n">>}

Line(statement, space, ending) == [statement |-> statement, text |-> Spelled(statement, space) \o ending]

UsualLines ==
  {Line(s, space, ending) : s \in UsualStatements, space \in Spacings, ending \in Endings}
PlainLines == {Line(Plain, " ", ending) : ending \in Endings}
OddLines == {Line(s, "", <<";", "\n">>) : s \in OddStatements}

Exit == <<Token("Word", <<"exit">>)>>

-----------------------------------------------------------------------------
TypeOK ==
  /\ ended \in BOOLEAN /\ line \in BOOLEAN /\ reply \in BOOLEAN
  /\ at \in {"connect", "prompt", "send", "receive", "left", "failed"}
  /\ connection \in {"none", "open", "closed", "reset"}
  /\ Len(terminal) \in Nat /\ Len(buffer) \in Nat /\ Len(last) \in Nat
  /\ Len(typed) \in 0 .. MaxTyped + 1
  /\ {sent, answered, shown} \subseteq 0 .. MaxSent

Init ==
  /\ terminal = <<>>
  /\ ended = FALSE
  /\ at = "connect"
  /\ buffer = <<>>
  /\ line = FALSE
  /\ connection = "none"
  /\ reply = FALSE
  /\ typed = <<>>
  /\ last = <<>>
  /\ sent = 0 /\ answered = 0 /\ shown = 0

-----------------------------------------------------------------------------
(***************************************************************************)
(* The user, who types MaxTyped statements at most, then exit.  The last   *)
(* of them may be any, an odd one if it is typed while the client waits at *)
(* its prompt; the others are plain.                                       *)
(***************************************************************************)

Typing == ~ended /\ Exit \notin ToSet(typed)
MayType == Typing /\ sent + Len(typed) < MaxTyped
TypesLast == sent + Len(typed) = MaxTyped - 1

Type(new) ==
  /\ typed' = Append(typed, new.statement)
  /\ terminal' = terminal \o new.text
  /\ UNCHANGED <<at, buffer, line, connection, reply, last, sent, answered, shown>>

TypeStatement ==
  /\ MayType
  /\ \E new \in IF TypesLast THEN UsualLines ELSE PlainLines : Type(new)
  /\ UNCHANGED ended

TypeOdd ==
  /\ Typing /\ TypesLast
  /\ at = "prompt" /\ terminal = <<>> /\ connection = "open"
  /\ \E new \in OddLines : Type(new)
  /\ UNCHANGED ended

TypeExit ==
  /\ Typing
  /\ Type([statement |-> Exit, text |-> <<"exit", ";", "\n">>])
  /\ UNCHANGED ended

\* The input ends after a statement that nothing ends, or without one.
TypeLast ==
  /\ MayType
  /\ Type(Line(Plain, " ", <<>>))
  /\ ended' = TRUE

TypeNothing ==
  /\ Typing
  /\ ended' = TRUE
  /\ UNCHANGED <<terminal, at, buffer, line, connection, reply, typed, last, sent, answered, shown>>

\* An empty line, before anything else.
TypeEmptyLine ==
  /\ MayType /\ terminal = <<>>
  /\ terminal' = <<"\n">>
  /\ UNCHANGED <<ended, at, buffer, line, connection, reply, typed, last, sent, answered, shown>>

-----------------------------------------------------------------------------
(***************************************************************************)
(* The network and the server.                                             *)
(***************************************************************************)

\* The server answers the request it was sent (see Server).
Answer ==
  /\ connection = "open" /\ answered < sent
  /\ reply' = TRUE
  /\ answered' = answered + 1
  /\ UNCHANGED <<terminal, ended, at, buffer, line, connection, typed, last, sent, shown>>

\* The server ends: what it sent may still be read, or the connection is
\* reset, because it left something unread.
LoseConnection ==
  /\ connection = "open"
  /\ \/ connection' = "closed" /\ reply' = reply
     \/ connection' = "reset" /\ reply' = FALSE
  /\ UNCHANGED <<terminal, ended, at, buffer, line, typed, last, sent, answered, shown>>

-----------------------------------------------------------------------------
(***************************************************************************)
(* The client.                                                             *)
(***************************************************************************)

Connect ==
  /\ at = "connect"
  /\ \/ connection' = "open" /\ at' = "prompt"
     \/ connection' = "none" /\ at' = "left"
  /\ UNCHANGED <<terminal, ended, buffer, line, reply, typed, last, sent, answered, shown>>

After(text, pos) == SubSeq(text, pos + 1, Len(text))

\* Mutant: a statement is what stands on a line.
ReadLine(text) ==
  LET end == Find(text, 1, "\n")
  IN [read |-> SubSeq(text, 1, end - 1), left |-> After(text, end)]

\* Up to a semicolon, wherever it is, or to the end; the rest of that line
\* is dropped.
ReadStatement(text) ==
  LET end  == Find(text, 1, ";")
      rest == After(text, end)
  IN [read |-> SubSeq(text, 1, end - 1), left |-> After(rest, Find(rest, 1, "\n"))]

\* Mutant: the end of an empty line is seen and not read.
PeekAtNewline ==
  IF terminal = <<>> THEN ended /\ UNCHANGED <<terminal, buffer>>
  ELSE IF Head(terminal) = "\n" THEN UNCHANGED terminal /\ buffer' = <<>>
  ELSE LET got == ReadStatement(terminal)
       IN terminal' = got.left /\ buffer' = got.read

\* read_input() returns when there is something to read to its end.  At the
\* end of the file getline() leaves the buffer as it was.
read_input ==
  IF terminal = <<>> THEN ended /\ UNCHANGED <<terminal, buffer>>
  ELSE IF Head(terminal) = "\n" THEN terminal' = Tail(terminal) /\ buffer' = <<>>
  ELSE LET got == ReadStatement(terminal)
       IN terminal' = got.left /\ buffer' = got.read

\* Mutant: an empty line ends the client.
PromptLeavesOnEmpty ==
  /\ at = "prompt"
  /\ read_input
  /\ at' = IF buffer' \in {<<"exit">>, <<>>} THEN "left" ELSE "send"
  /\ UNCHANGED <<ended, line, connection, reply, typed, last, sent, answered, shown>>

Prompt ==
  /\ at = "prompt"
  /\ read_input
  /\ at' = IF buffer' = <<"exit">> THEN "left" ELSE IF buffer' = <<>> THEN "prompt" ELSE "send"
  /\ UNCHANGED <<ended, line, connection, reply, typed, last, sent, answered, shown>>

\* The object sent, which the lexer and the parser make of the buffer.
request == serialize(buffer)

\* What send() returns is not looked at; to send on a connection that both
\* sides know closed ends the process.
Send ==
  /\ at = "send" /\ sent < MaxSent
  /\ last' = buffer
  /\ sent' = sent + 1
  /\ typed' = IF typed = <<>> THEN <<>> ELSE Tail(typed)
  /\ connection' = IF connection = "reset" THEN "closed" ELSE connection
  /\ \/ at' = "receive"
     \/ connection = "closed" /\ at' = "failed"
  /\ UNCHANGED <<terminal, ended, buffer, line, reply, answered, shown>>

Receive ==
  /\ at = "receive" /\ reply
  /\ reply' = FALSE
  /\ line' = TRUE
  /\ shown' = shown + 1
  /\ at' = "prompt"
  /\ UNCHANGED <<terminal, ended, buffer, connection, typed, last, sent, answered>>

\* Mutant: an empty answer does not make json::parse() throw.
ReceiveNothingCalmly ==
  /\ at = "receive" /\ connection = "closed" /\ ~reply
  /\ at' = "prompt"
  /\ shown' = shown + 1
  /\ UNCHANGED <<terminal, ended, buffer, line, connection, reply, typed, last, sent, answered>>

\* receive() returns 0, and json::parse() throws: nothing catches that.
ReceiveNothing ==
  /\ at = "receive" /\ connection = "closed" /\ ~reply
  /\ at' = "failed"
  /\ UNCHANGED <<terminal, ended, buffer, line, connection, reply, typed, last, sent, answered, shown>>

\* Mutant: after an error the client looks for another answer.
ReceiveErrorAgain ==
  /\ at = "receive" /\ connection = "reset"
  /\ line
  /\ shown' = shown + 1
  /\ UNCHANGED <<terminal, ended, at, buffer, line, connection, reply, typed, last, sent, answered>>

\* receive() returns -1: the array is as it was, line[-1] is set, and what
\* the array holds is parsed, an earlier answer if there was one.
ReceiveError ==
  /\ at = "receive" /\ connection = "reset"
  /\ connection' = "closed"
  /\ IF line THEN at' = "prompt" /\ shown' = shown + 1
     ELSE at' = "failed" /\ shown' = shown
  /\ UNCHANGED <<terminal, ended, buffer, line, reply, typed, last, sent, answered>>

-----------------------------------------------------------------------------
User == TypeStatement \/ TypeOdd \/ TypeExit \/ TypeLast \/ TypeNothing \/ TypeEmptyLine

ClientStep == Connect \/ Prompt \/ Send \/ Receive \/ ReceiveNothing \/ ReceiveError

Next == User \/ Answer \/ LoseConnection \/ ClientStep

\* The client runs, and the server answers (EveryRequestAnswered of Server).
Spec == Init /\ [][Next]_vars /\ WF_vars(ClientStep) /\ WF_vars(Answer)

-----------------------------------------------------------------------------
(***************************************************************************)
(* Properties.                                                             *)
(***************************************************************************)

(* The object sent is the one the next statement typed stands for, however *)
(* it is spelled and spaced, and {} if it is none or if a semicolon inside *)
(* a literal cut it; nothing is skipped, and what follows a semicolon on   *)
(* its line is never taken for a statement.  Only at the end of its input  *)
(* does the client send the last object again.                             *)
Cut(statement) == \E i \in DOMAIN statement : ";" \in ToSet(statement[i].value)

Expected(statement) == IF Cut(statement) THEN NoObject ELSE Meaning(statement)

SentAsTyped ==
  [][sent' # sent =>
       IF typed # <<>> THEN request = Expected(Head(typed))
       ELSE ended /\ terminal = <<>> /\ buffer = last]_vars

(* The client prints one answer for each statement, the answer to that     *)
(* one, as long as the connection holds.  Once it is lost the client takes *)
(* an earlier answer for the next one at most once.                        *)
AnswersBelong ==
  /\ connection = "open" /\ at = "prompt" => shown = sent /\ answered = sent
  /\ shown + (IF reply THEN 1 ELSE 0) <= answered + (IF connection = "closed" THEN 1 ELSE 0)

(* The client ends by itself only when the user types exit, every          *)
(* statement before it having been sent, or when there is no server.       *)
EndsWhenTold ==
  /\ at = "left" /\ connection # "none" => typed = <<Exit>>
  /\ at = "failed" => connection = "closed"

(* Every statement typed is sent and answered, and exit obeyed, unless the *)
(* client fails.                                                           *)
EveryStatementServed ==
  typed # <<>> ~> (typed = <<>> /\ at = "prompt") \/ at \in {"left", "failed"}
=============================================================================
