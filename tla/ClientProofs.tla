----------------------------- MODULE ClientProofs -----------------------------
(***************************************************************************)
(* Proofs about the client (module Client), whatever is typed and however  *)
(* much of it.                                                             *)
(***************************************************************************)
EXTENDS Client, Lists

-----------------------------------------------------------------------------
(***************************************************************************)
(* The inductive invariant of AnswersBelong.                               *)
(***************************************************************************)

Counters == sent \in Nat /\ answered \in Nat /\ shown \in Nat

InHand == IF reply THEN 1 ELSE 0

\* The client waits for one answer at a time, and at its prompt for none,
\* whether the connection holds or not; it fails only while it waits.
OneAtATime ==
  /\ at \in {"connect", "prompt", "send", "receive", "left", "failed"}
  /\ at \in {"connect", "prompt", "send", "left"} => sent = shown
  /\ at = "receive" => sent = shown + 1
  /\ at = "failed" => sent = shown + 1 /\ connection = "closed"
  /\ at = "connect" => connection = "none"

\* What the server answered has been printed, is on its way, or was lost with
\* the connection; a lost connection adds one answer at most.
AnswersCounted ==
  /\ reply \in BOOLEAN
  /\ connection \in {"none", "open", "closed", "reset"}
  /\ connection = "none" => at \in {"connect", "left"} /\ ~reply /\ shown = answered
  /\ connection = "open" => shown + InHand = answered /\ answered <= sent
  /\ connection = "reset" => ~reply /\ shown <= answered
  /\ connection = "closed" => shown + InHand <= answered + 1

IInv == Counters /\ OneAtATime /\ AnswersCounted

LEMMA InitIInv == Init => IInv
<1> SUFFICES ASSUME Init PROVE IInv
  OBVIOUS
<1>1. at = "connect" /\ connection = "none" /\ reply = FALSE /\ sent = 0 /\ answered = 0 /\ shown = 0
  BY DEF Init
<1> QED BY <1>1 DEF IInv, Counters, OneAtATime, AnswersCounted, InHand

LEMMA NextIInv == IInv /\ [Next]_vars => IInv'
<1> SUFFICES ASSUME IInv, [Next]_vars PROVE IInv'
  OBVIOUS
<1> USE DEF IInv, Counters, OneAtATime, AnswersCounted
<1>1. /\ InHand \in {0, 1} /\ (~reply => InHand = 0) /\ (reply => InHand = 1)
       /\ InHand' \in {0, 1} /\ (~reply' => InHand' = 0) /\ (reply' => InHand' = 1)
       /\ (reply' = reply => InHand' = InHand)
  BY DEF InHand
<1>2. CASE UNCHANGED <<at, connection, reply, sent, answered, shown>>
  BY <1>2, <1>1
<1>3. CASE User \/ UNCHANGED vars
  <2>1. UNCHANGED <<at, connection, reply, sent, answered, shown>>
    BY <1>3 DEF User, TypeStatement, TypeOdd, TypeExit, TypeLast, TypeNothing, TypeEmptyLine, Type, vars
  <2> QED BY <1>2, <2>1
<1>4. CASE Answer
  BY <1>4, <1>1 DEF Answer
<1>5. CASE LoseConnection
  <2>1. connection = "open" /\ UNCHANGED <<at, sent, answered, shown>>
    BY <1>5 DEF LoseConnection
  <2>2. CASE connection' = "closed" /\ reply' = reply
    BY <1>1, <2>1, <2>2
  <2>3. CASE connection' = "reset" /\ reply' = FALSE
    <3>1. shown <= answered
      BY <1>1, <2>1
    <3>2. Counters' /\ OneAtATime'
      BY <2>1, <2>3
    <3>3. AnswersCounted'
      BY <2>1, <2>3, <3>1
    <3> QED BY <3>2, <3>3
  <2> QED BY <1>5, <2>2, <2>3 DEF LoseConnection
<1>6. CASE Connect
  BY <1>6, <1>1 DEF Connect
<1>7. CASE Prompt
  <2>1. at = "prompt" /\ at' \in {"left", "prompt", "send"} /\ UNCHANGED <<connection, reply, sent, answered, shown>>
    BY <1>7 DEF Prompt
  <2> QED BY <1>1, <2>1
<1>8. CASE Send
  <2>1. /\ at = "send" /\ sent' = sent + 1 /\ UNCHANGED <<reply, answered, shown>>
        /\ connection' = IF connection = "reset" THEN "closed" ELSE connection
        /\ at' = "receive" \/ (connection = "closed" /\ at' = "failed")
    BY <1>8 DEF Send
  <2>2. CASE connection = "reset"
    BY <1>1, <2>1, <2>2
  <2>3. CASE connection # "reset"
    <3>1. Counters' /\ OneAtATime'
      BY <2>1, <2>3
    <3>2. AnswersCounted'
      BY <1>1, <2>1, <2>3
    <3> QED BY <3>1, <3>2
  <2> QED BY <2>2, <2>3
<1>9. CASE Receive
  <2>1. /\ at = "receive" /\ reply /\ reply' = FALSE /\ shown' = shown + 1 /\ at' = "prompt"
        /\ UNCHANGED <<connection, sent, answered>>
    BY <1>9 DEF Receive
  <2>2. Counters' /\ OneAtATime'
    BY <2>1
  <2>3. InHand = 1 /\ InHand' = 0
    BY <1>1, <2>1
  <2>4. AnswersCounted'
    <3>1. connection \in {"open", "closed"}
      BY <2>1
    <3>2. (shown + 1) + 0 = shown + 1
      OBVIOUS
    <3> QED BY <2>1, <2>3, <3>1, <3>2
  <2> QED BY <2>2, <2>4
<1>10. CASE ReceiveNothing
  BY <1>10, <1>1 DEF ReceiveNothing
<1>11. CASE ReceiveError
  BY <1>11, <1>1 DEF ReceiveError
<1> QED BY <1>3, <1>4, <1>5, <1>6, <1>7, <1>8, <1>9, <1>10, <1>11 DEF Next, ClientStep

LEMMA Invariance == Spec => []IInv
BY InitIInv, NextIInv, PTL DEF Spec

(* As long as the connection holds, the client at its prompt has printed   *)
(* the answer to every object it sent, and no answer is under way for the  *)
(* next statement to take as its own; once it is lost, one earlier answer  *)
(* at most is taken for a new one.                                         *)
THEOREM AnswersCorrect == Spec => []AnswersBelong
<1>1. IInv => AnswersBelong
  BY DEF IInv, Counters, OneAtATime, AnswersCounted, InHand, AnswersBelong
<1> QED BY <1>1, Invariance, PTL

-----------------------------------------------------------------------------
(***************************************************************************)
(* What is typed, as text.  The symbols of a token: one at least, none of  *)
(* which is the end of a line, and the first two no semicolons.            *)
(***************************************************************************)

Semicolon == ";"
Newline == "\n"
Space == " "
CommaSign == ","
AnyFrom == "any FROM"

Alphabet == Letters \cup Digits \cup {"(", ")", "*", "=", "'", Quote, CommaSign, Semicolon, Newline, Space}

Without(text, c) == \A i \in 1 .. Len(text) : text[i] # c

WellSpelled(symbols) ==
  /\ symbols \in Seq(Alphabet) /\ Len(symbols) >= 1
  /\ symbols[1] \notin {Semicolon, Newline}
  /\ Len(symbols) >= 2 => symbols[2] # Semicolon
  /\ Without(symbols, Newline)

Classes == Keywords \cup {AnyFrom, "type", "Word", "value", "OpenBracket", "CloseBracket", "Any", "Comma", "Equal"}
UsualTokens == {Usual(class) : class \in Classes}
TypedTokens == UsualTokens \cup Others

\* Neither the end of a statement nor that of a line.
Inner == Alphabet \ {Semicolon, Newline}

LEMMA InnerSymbols ==
  /\ {"(", ")", "*", "=", "'", Quote, CommaSign, Space} \cup Digits \cup Letters \subseteq Inner
  /\ Inner \subseteq Alphabet /\ Semicolon \in Alphabet /\ Newline \in Alphabet /\ Semicolon # Newline
  /\ Semicolon \notin Inner /\ Newline \notin Inner
<1>1. {Lowercase[w] : w \in DOMAIN Lowercase} = {"int", "from"}
  BY DEF Lowercase
<1>2. Semicolon \notin Keywords /\ Newline \notin Keywords
  BY Zenon DEF Keywords, Semicolon, Newline
<1>3. Semicolon \notin {"int", "from"} \cup {"id", "exit"} /\ Newline \notin {"int", "from"} \cup {"id", "exit"}
  BY Zenon DEF Semicolon, Newline
<1>4. Semicolon \notin Letters /\ Newline \notin Letters
  BY <1>1, <1>2, <1>3, Zenon DEF Letters
<1>5. Semicolon \notin Digits /\ Newline \notin Digits
  BY Zenon DEF Digits, Semicolon, Newline
<1>6. \A x \in {"(", ")", "*", "=", "'", Quote, CommaSign, Space} : x # Semicolon /\ x # Newline
  BY Zenon DEF Quote, CommaSign, Space, Semicolon, Newline
<1>7. Semicolon # Newline
  BY Zenon DEF Semicolon, Newline
<1> QED BY <1>4, <1>5, <1>6, <1>7 DEF Inner, Alphabet

LEMMA OneSymbol ==
  ASSUME NEW symbols, NEW x \in Inner, symbols = <<x>>
  PROVE  WellSpelled(symbols) /\ Without(symbols, Semicolon)
<1>1. x \in Alphabet /\ x # Semicolon /\ x # Newline
  BY DEF Inner
<1>2. symbols \in Seq(Alphabet) /\ Len(symbols) = 1 /\ symbols[1] = x
  BY <1>1
<1>3. 1 .. 1 = {1}
  OBVIOUS
<1> QED BY <1>1, <1>2, <1>3 DEF WellSpelled, Without

LEMMA ValueSymbols ==
  ASSUME NEW type \in {"Word", "Number", "Invalid", "OpenBracket", "CloseBracket", "Any", "Comma"}, NEW value
  PROVE  Symbols(Token(type, value)) = value
<1> DEFINE t == [type |-> type, value |-> value]
<1>1. t.type # "Literal" /\ t.type # "Equal" /\ t.value = value
  OBVIOUS
<1> QED BY <1>1 DEF Symbols, Token

LEMMA LiteralSymbols ==
  ASSUME NEW value \in Seq(Alphabet), Without(value, Newline), Len(value) >= 1 => value[1] # Semicolon
  PROVE  WellSpelled(Symbols(Token("Literal", value)))
<1> DEFINE one == <<Quote>>
           front == one \o value
           s == front \o one
<1>1. Symbols(Token("Literal", value)) = s
  BY DEF Symbols, Token
<1>2. Quote \in Alphabet /\ Quote # Semicolon /\ Quote # Newline
  BY InnerSymbols DEF Inner
<1>3. one \in Seq(Alphabet) /\ Len(one) = 1 /\ one[1] = Quote /\ Len(value) \in Nat
  BY <1>2
<1> HIDE DEF one
<1>4. /\ front \in Seq(Alphabet) /\ Len(front) = 1 + Len(value)
      /\ \A i \in 1 .. 1 + Len(value) : front[i] = IF i <= 1 THEN one[i] ELSE value[i - 1]
  <2>1. /\ front \in Seq(Alphabet) /\ Len(front) = Len(one) + Len(value)
        /\ \A i \in 1 .. Len(one) + Len(value) : front[i] = IF i <= Len(one) THEN one[i] ELSE value[i - Len(one)]
    <3> HIDE DEF front
    <3> QED BY <1>3, ConcatProperties DEF front
  <2> HIDE DEF front
  <2> QED BY <1>3, <2>1
<1> HIDE DEF front
<1>5. /\ s \in Seq(Alphabet) /\ Len(s) = Len(value) + 2
      /\ \A i \in 1 .. Len(value) + 2 : s[i] = IF i <= 1 + Len(value) THEN front[i] ELSE one[i - (1 + Len(value))]
  <2>1. /\ s \in Seq(Alphabet) /\ Len(s) = Len(front) + Len(one)
        /\ \A i \in 1 .. Len(front) + Len(one) : s[i] = IF i <= Len(front) THEN front[i] ELSE one[i - Len(front)]
    BY <1>3, <1>4, ConcatProperties
  <2> QED BY <1>3, <1>4, <2>1
<1> HIDE DEF s
<1>6. ASSUME NEW i \in 1 .. Len(value) + 2 PROVE s[i] = Quote \/ (i - 1 \in 1 .. Len(value) /\ s[i] = value[i - 1])
  <2>1. CASE i = 1
    BY <1>3, <1>4, <1>5, <2>1
  <2>2. CASE i # 1 /\ i <= 1 + Len(value)
    BY <1>3, <1>4, <1>5, <2>2
  <2>3. CASE i = Len(value) + 2
    BY <1>3, <1>5, <2>3
  <2> QED BY <1>3, <2>1, <2>2, <2>3
<1>7. s[1] = Quote
  BY <1>3, <1>4, <1>5
<1>8. s[2] # Semicolon
  <2>1. 2 \in 1 .. Len(value) + 2 /\ 2 - 1 = 1
    BY <1>3
  <2>2. s[2] = Quote \/ (1 \in 1 .. Len(value) /\ s[2] = value[1])
    BY <1>6, <2>1
  <2> QED BY <1>2, <1>3, <2>2
<1>9. Without(s, Newline)
  BY <1>2, <1>5, <1>6 DEF Without
<1> QED BY <1>1, <1>2, <1>3, <1>5, <1>7, <1>8, <1>9 DEF WellSpelled

LEMMA PunctuationSymbols ==
  /\ \A t \in PunctuationTokens : \E x \in Inner : Symbols(t) = <<x>>
  /\ \A class \in {"OpenBracket", "CloseBracket", "Any", "Comma", "Equal"} :
       \E t \in PunctuationTokens : t.type = class
<1> DEFINE C == {"(", ")", "*", CommaSign, "="}
<1>1. Punctuation = [c \in C |->
        CASE c = "(" -> [type |-> "OpenBracket", value |-> <<c>>]
          [] c = ")" -> [type |-> "CloseBracket", value |-> <<c>>]
          [] c = "*" -> [type |-> "Any", value |-> <<c>>]
          [] c = CommaSign -> [type |-> "Comma", value |-> <<c>>]
          [] c = "=" -> [type |-> "Equal", value |-> <<Quote>>]]
  BY Zenon DEF Punctuation, CommaSign
<1>2. CommaSign # "(" /\ CommaSign # ")" /\ CommaSign # "*" /\ CommaSign # "="
  BY Zenon DEF CommaSign
<1>3. /\ DOMAIN Punctuation = C
      /\ Punctuation["("] = [type |-> "OpenBracket", value |-> <<"(">>]
      /\ Punctuation[")"] = [type |-> "CloseBracket", value |-> <<")">>]
      /\ Punctuation["*"] = [type |-> "Any", value |-> <<"*">>]
      /\ Punctuation[CommaSign] = [type |-> "Comma", value |-> <<CommaSign>>]
      /\ Punctuation["="] = [type |-> "Equal", value |-> <<Quote>>]
  BY <1>1, <1>2
<1>5. /\ Symbols(Punctuation["("]) = <<"(">> /\ Symbols(Punctuation[")"]) = <<")">>
      /\ Symbols(Punctuation["*"]) = <<"*">> /\ Symbols(Punctuation[CommaSign]) = <<CommaSign>>
  BY <1>3, ValueSymbols DEF Token
<1>6. Symbols(Punctuation["="]) = <<"=">>
  BY <1>3 DEF Symbols
<1>7. \A c \in C : Symbols(Punctuation[c]) = <<c>>
  BY <1>5, <1>6
<1>8. /\ \E c \in C : Punctuation[c].type = "OpenBracket"
      /\ \E c \in C : Punctuation[c].type = "CloseBracket"
      /\ \E c \in C : Punctuation[c].type = "Any"
      /\ \E c \in C : Punctuation[c].type = "Comma"
      /\ \E c \in C : Punctuation[c].type = "Equal"
  BY <1>3
<1>9. \A c \in C : c \in Inner
  BY InnerSymbols
<1> HIDE DEF C
<1>10. PunctuationTokens = {Punctuation[c] : c \in C}
  BY <1>3 DEF PunctuationTokens
<1> QED BY <1>7, <1>8, <1>9, <1>10

LEMMA UsualSymbols ==
  ASSUME NEW t \in UsualTokens
  PROVE  WellSpelled(Symbols(t)) /\ Without(Symbols(t), Semicolon)
<1>1. PICK class \in Classes : t = Usual(class)
  BY DEF UsualTokens
<1>2. CASE class \in Keywords
  <2>1. class \notin {AnyFrom, "type", "Word", "value"}
    BY <1>2, Zenon DEF Keywords, AnyFrom
  <2>2. t = Token("Word", <<class>>)
    BY <1>1, <1>2, <2>1, Zenon DEF Usual, AnyFrom
  <2>4. Symbols(t) = <<class>>
    BY <2>2, ValueSymbols
  <2>3. class \in Inner
    BY <1>2, InnerSymbols DEF Letters
  <2> QED BY <2>3, <2>4, OneSymbol
<1>3. CASE class \in {AnyFrom, "type", "Word", "value"}
  <2>1. /\ class = AnyFrom => t = Token("Word", <<"FROM">>)
        /\ class = "type" => t = Token("Word", <<"INT">>)
        /\ class = "Word" => t = Token("Word", <<"id">>)
        /\ class = "value" => t = Token("Number", <<"1">>)
    BY <1>1, <1>3, Zenon DEF Usual, Keywords, AnyFrom
  <2>2. PICK x \in {"FROM", "INT", "id", "1"} : Symbols(t) = <<x>>
    <3>1. PICK type \in {"Word", "Number"}, x \in {"FROM", "INT", "id", "1"} : t = Token(type, <<x>>)
      BY <1>3, <2>1
    <3> QED BY <3>1, ValueSymbols
  <2>3. x \in Inner
    BY InnerSymbols DEF Letters, Keywords, Digits
  <2> QED BY <2>2, <2>3, OneSymbol
<1>4. CASE class \in {"OpenBracket", "CloseBracket", "Any", "Comma", "Equal"}
  <2>1. t = CHOOSE u \in PunctuationTokens : u.type = class
    BY <1>1, <1>4, Zenon DEF Usual, Keywords
  <2>2. t \in PunctuationTokens
    BY <1>4, <2>1, PunctuationSymbols
  <2> QED BY <2>2, PunctuationSymbols, OneSymbol
<1> QED BY <1>2, <1>3, <1>4 DEF Classes

LEMMA OtherSymbols ==
  ASSUME NEW t \in Others
  PROVE  WellSpelled(Symbols(t))
<1> DEFINE Names == {Token("Word", <<w>>) : w \in Letters \ {"CREATE", "INSERT", "UPDATE", "INT", "TEXT"}}
           Literals == {Token("Literal", <<>>), Token("Literal", <<"FROM">>), Token("Literal", <<"id", Space, "id">>),
                        Token("Literal", <<"id", Semicolon, "id">>)}
<1>1. CASE t \in PunctuationTokens
  BY <1>1, PunctuationSymbols, OneSymbol
<1>2. CASE t \in Names
  <2>1. PICK w \in Letters : t = Token("Word", <<w>>)
    BY <1>2
  <2>2. Symbols(t) = <<w>>
    BY <2>1 DEF Symbols, Token
  <2> QED BY <2>2, InnerSymbols, OneSymbol
<1>3. CASE t \in {Token("Number", <<"1">>), Token("Invalid", <<"'">>), Token("Invalid", <<Quote>>)}
  <2>1. PICK x \in {"1", "'", Quote} : Symbols(t) = <<x>>
    BY <1>3 DEF Symbols, Token
  <2>2. x \in Inner
    BY InnerSymbols DEF Digits
  <2> QED BY <2>1, <2>2, OneSymbol
<1>4. /\ {"id", "1", Space, "FROM", Quote} \subseteq Inner /\ Semicolon \in Alphabet
      /\ \A x \in {"id", "1", Space, "FROM", Quote} : x # Newline /\ x # Semicolon
      /\ Semicolon # Newline
  BY InnerSymbols DEF Inner, Digits, Letters, Keywords
<1>5. CASE t = Token("Word", <<"id", "1">>)
  <2>1. Symbols(t) = <<"id", "1">>
    BY <1>5, ValueSymbols
  <2> QED BY <1>4, <2>1 DEF WellSpelled, Without, Inner
<1>6. CASE t \in Literals
  <2>1. PICK value \in {<<>>, <<"FROM">>, <<"id", Space, "id">>, <<"id", Semicolon, "id">>} :
          t = Token("Literal", value)
    BY <1>6
  <2>2. {"id", Space, "FROM", Semicolon} \subseteq Alphabet
    BY <1>4 DEF Inner
  <2>3. value \in Seq(Alphabet) /\ (Len(value) >= 1 => value[1] # Semicolon)
    <3>1. CASE value = <<>>
      BY <3>1
    <3>2. CASE value = <<"FROM">>
      BY <1>4, <2>2, <3>2
    <3>3. ASSUME NEW x \in {Space, Semicolon}, value = <<"id", x, "id">>
          PROVE  value \in Seq(Alphabet) /\ value[1] # Semicolon
      <4>1. "id" \in Alphabet /\ x \in Alphabet /\ "id" # Semicolon
        BY <1>4, <2>2
      <4> QED BY <3>3, <4>1
    <3> QED BY <2>1, <3>1, <3>2, <3>3
  <2>4. Without(value, Newline)
    BY <1>4, <2>1 DEF Without
  <2> QED BY <2>1, <2>3, <2>4, LiteralSymbols
<1>7. t \in Names \cup PunctuationTokens \cup {Token("Word", <<"id", "1">>), Token("Number", <<"1">>)} \cup Literals
            \cup {Token("Invalid", <<"'">>), Token("Invalid", <<Quote>>)}
  BY Zenon DEF Others, Space, Semicolon
<1> QED BY <1>1, <1>2, <1>3, <1>5, <1>6, <1>7

-----------------------------------------------------------------------------
(***************************************************************************)
(* The statements: sequences of such tokens, two at least.                 *)
(***************************************************************************)

Parts == [class : Classes, field : {"none", "table_name", "columns", "values", "where"}]
PartsFrom(k) == {parts \in Seq(Parts) : Len(parts) >= k}

LEMMA PartsJoined ==
  ASSUME NEW j \in Nat, NEW k \in Nat, NEW a \in PartsFrom(j), NEW b \in PartsFrom(k)
  PROVE  a \o b \in PartsFrom(j + k)
<1>1. a \in Seq(Parts) /\ b \in Seq(Parts) /\ Len(a) \in Nat /\ Len(b) \in Nat /\ Len(a) >= j /\ Len(b) >= k
  BY DEF PartsFrom
<1>2. a \o b \in Seq(Parts) /\ Len(a \o b) = Len(a) + Len(b)
  BY <1>1, ConcatProperties
<1> QED BY <1>1, <1>2 DEF PartsFrom

LEMMA OnePart ==
  ASSUME NEW class \in Classes, NEW field \in {"table_name", "columns", "values", "where"}
  PROVE  Just(class) \in PartsFrom(1) /\ Into(class, field) \in PartsFrom(1)
<1> DEFINE p == Part(class, "none")
           q == Part(class, field)
<1>1. p \in Parts /\ q \in Parts
  BY DEF Part, Parts
<1>2. Just(class) = <<p>> /\ Into(class, field) = <<q>>
  BY DEF Just, Into
<1> HIDE DEF p, q
<1>3. /\ <<p>> \in Seq(Parts) /\ Len(<<p>>) = 1
      /\ <<q>> \in Seq(Parts) /\ Len(<<q>>) = 1
  BY <1>1
<1> QED BY <1>2, <1>3 DEF PartsFrom

LEMMA ListParts ==
  ASSUME NEW parts \in PartsFrom(0), NEW n \in Nat
  PROVE  List(parts, n) \in PartsFrom(0)
<1> DEFINE period == Len(parts) + 1
           Item(i) == IF i % period = 0 THEN Part("Comma", "none") ELSE parts[i % period]
           m == n * period - 1
<1>1. parts \in Seq(Parts) /\ period \in Nat /\ period > 0 /\ Len(parts) = period - 1
  BY DEF PartsFrom
<1>2. m \in Int
  BY <1>1
<1> HIDE DEF period, m
<1>3. ASSUME NEW i \in 1 .. m PROVE Item(i) \in Parts
  <2>1. i % period \in 0 .. period - 1
    BY <1>1, <1>2
  <2>2. CASE i % period = 0
    <3>1. Part("Comma", "none") \in Parts
      BY DEF Part, Parts, Classes
    <3> QED BY <2>2, <3>1
  <2>3. CASE i % period # 0
    <3>1. i % period \in 1 .. Len(parts)
      BY <1>1, <2>1, <2>3
    <3> QED BY <1>1, <2>3, <3>1
  <2> QED BY <2>2, <2>3
<1>4. List(parts, n) = [i \in 1 .. m |-> Item(i)]
  BY DEF List, m, period
<1> HIDE DEF Item
<1>5. [i \in 1 .. m |-> Item(i)] \in Seq(Parts)
  <2>1. PICK k \in Nat : 1 .. m = 1 .. k
    <3>1. CASE m < 0
      <4>1. 1 .. m = 1 .. 0
        BY <1>2, <3>1
      <4> QED BY <4>1
    <3>2. CASE m \in Nat
      BY <3>2
    <3> QED BY <1>2, <3>1, <3>2
  <2>2. [i \in 1 .. k |-> Item(i)] \in Seq(Parts)
    <3>1. \A i \in 1 .. k : Item(i) \in Parts
      BY <1>3, <2>1
    <3> QED BY <3>1
  <2> QED BY <2>1, <2>2
<1>6. \A list \in Seq(Parts) : Len(list) >= 0
  OBVIOUS
<1>7. List(parts, n) \in Seq(Parts)
  BY <1>4, <1>5
<1> QED BY <1>6, <1>7 DEF PartsFrom

LEMMA FormParts ==
  ASSUME NEW Lists \in SUBSET Nat, NEW Wheres \in SUBSET Nat, NEW form \in FormsOf(Lists, Wheres)
  PROVE  form.parts \in PartsFrom(3)
<1>1. \A a \in PartsFrom(1), b \in PartsFrom(1) : a \o b \in PartsFrom(2)
  BY PartsJoined, 1 + 1 = 2
<1>2. \A a \in PartsFrom(2), b \in PartsFrom(1) : a \o b \in PartsFrom(3)
  BY PartsJoined, 2 + 1 = 3
<1>3. \A a \in PartsFrom(3), b \in PartsFrom(0) : a \o b \in PartsFrom(3)
  BY PartsJoined, 3 + 0 = 3
<1>4. \A k \in {1, 2, 3} : PartsFrom(k) \subseteq PartsFrom(0)
  BY DEF PartsFrom
<1>5. \A class \in Classes : Just(class) \in PartsFrom(1)
  BY OnePart
<1>6. \A class \in Classes, field \in {"table_name", "columns", "values", "where"} : Into(class, field) \in PartsFrom(1)
  BY OnePart
<1>7. Keywords \subseteq Classes
      /\ {AnyFrom, "type", "Word", "value", "OpenBracket", "CloseBracket", "Any", "Comma", "Equal"} \subseteq Classes
  BY DEF Classes
<1>8. {"CREATE", "TABLE", "INSERT", "INTO", "VALUES", "SELECT",
       "UPDATE", "SET", "WHERE", "DELETE", "FROM"} \subseteq Classes
  BY <1>7 DEF Keywords
<1>9. \A field \in {"where", "values"} : Equation(field) \in PartsFrom(0)
  <2>1. ASSUME NEW field \in {"where", "values"} PROVE Equation(field) \in PartsFrom(3)
    <3>1. /\ Into("Word", field) \in PartsFrom(1) /\ Just("Equal") \in PartsFrom(1)
          /\ Into("value", field) \in PartsFrom(1)
      BY <1>5, <1>6, <1>7
    <3> QED BY <1>1, <1>2, <3>1 DEF Equation
  <2> QED BY <1>4, <2>1
<1>10. \A n \in Nat : Where(n) \in PartsFrom(0)
  <2>1. ASSUME NEW n \in Nat PROVE Where(n) \in PartsFrom(0)
    <3>1. List(Equation("where"), n) \in PartsFrom(0)
      BY <1>9, ListParts
    <3>2. Just("WHERE") \in PartsFrom(0)
      BY <1>4, <1>5, <1>8
    <3>3. Just("WHERE") \o List(Equation("where"), n) \in PartsFrom(0)
      BY <3>1, <3>2, PartsJoined, 0 + 0 = 0
    <3>4. <<>> \in PartsFrom(0)
      BY DEF PartsFrom
    <3> QED BY <3>3, <3>4 DEF Where
  <2> QED BY <2>1
<1>11. \A parts \in PartsFrom(0) : Bracketed(parts) \in PartsFrom(0)
  <2>1. Just("OpenBracket") \in PartsFrom(0) /\ Just("CloseBracket") \in PartsFrom(0)
    BY <1>4, <1>5, <1>7
  <2> QED BY <2>1, PartsJoined, 0 + 0 = 0 DEF Bracketed
<1>12. ASSUME NEW n \in Nat PROVE CreateForm(n).parts \in PartsFrom(3)
  <2> DEFINE columns == Into("Word", "columns") \o Into("type", "columns")
  <2>1. columns \in PartsFrom(0)
    BY <1>1, <1>4, <1>6, <1>7
  <2> HIDE DEF columns
  <2>2. Bracketed(List(columns, n)) \in PartsFrom(0)
    BY <1>11, <2>1, ListParts
  <2>3. Just("CREATE") \o Just("TABLE") \o Into("Word", "table_name") \in PartsFrom(3)
    BY <1>1, <1>2, <1>5, <1>6, <1>7, <1>8
  <2>4. CreateForm(n).parts = (Just("CREATE") \o Just("TABLE") \o Into("Word", "table_name")) \o Bracketed(List(columns, n))
    BY DEF CreateForm, Form, columns
  <2> QED BY <1>3, <2>2, <2>3, <2>4
<1>13. ASSUME NEW n \in Nat PROVE InsertForm(n).parts \in PartsFrom(3)
  <2>1. Into("value", "values") \in PartsFrom(0)
    BY <1>4, <1>6, <1>7
  <2>2. Bracketed(List(Into("value", "values"), n)) \in PartsFrom(0)
    BY <1>11, <2>1, ListParts
  <2>3. (Just("INSERT") \o Just("INTO") \o Into("Word", "table_name")) \o Just("VALUES") \in PartsFrom(3)
    BY <1>1, <1>2, <1>3, <1>4, <1>5, <1>6, <1>7, <1>8
  <2>4. InsertForm(n).parts = (Just("INSERT") \o Just("INTO") \o Into("Word", "table_name") \o Just("VALUES"))
                              \o Bracketed(List(Into("value", "values"), n))
    BY DEF InsertForm, Form
  <2> QED BY <1>3, <2>2, <2>3, <2>4
<1>14. ASSUME NEW columns \in PartsFrom(0), NEW n \in Nat PROVE SelectForm(columns, n).parts \in PartsFrom(3)
  <2>1. SelectForm(columns, n) = Form("select", {"columns", "where"},
          Just("SELECT") \o columns \o Just(AnyFrom) \o Into("Word", "table_name") \o Where(n))
    BY Zenon DEF SelectForm, AnyFrom
  <2>2. Just("SELECT") \o columns \in PartsFrom(1)
    BY <1>5, <1>8, PartsJoined, 1 + 0 = 1
  <2>3. Just("SELECT") \o columns \o Just(AnyFrom) \o Into("Word", "table_name") \in PartsFrom(3)
    BY <1>1, <1>2, <1>5, <1>6, <1>7, <2>2
  <2> QED BY <1>3, <1>10, <2>1, <2>3 DEF Form
<1>15. ASSUME NEW n \in Nat, NEW m \in Nat PROVE UpdateForm(n, m).parts \in PartsFrom(3)
  <2>1. Just("UPDATE") \o Into("Word", "table_name") \o Just("SET") \in PartsFrom(3)
    BY <1>1, <1>2, <1>5, <1>6, <1>7, <1>8
  <2>2. List(Equation("values"), n) \in PartsFrom(0)
    BY <1>9, ListParts
  <2> QED BY <1>3, <1>10, <2>1, <2>2 DEF UpdateForm, Form
<1>16. ASSUME NEW n \in Nat PROVE DeleteForm(n).parts \in PartsFrom(3)
  <2>1. Just("DELETE") \o Just("FROM") \o Into("Word", "table_name") \in PartsFrom(3)
    BY <1>1, <1>2, <1>5, <1>6, <1>7, <1>8
  <2> QED BY <1>3, <1>10, <2>1 DEF DeleteForm, Form
<1>17. \A n \in Nat : List(Into("Word", "columns"), n) \in PartsFrom(0)
  <2>1. Into("Word", "columns") \in PartsFrom(0)
    BY <1>4, <1>6, <1>7
  <2> QED BY <2>1, ListParts
<1>18. Into("Any", "columns") \in PartsFrom(0)
  BY <1>4, <1>6, <1>7
<1>19. \/ \E n \in Lists : form = CreateForm(n) \/ form = InsertForm(n)
       \/ \E n \in Lists, m \in Wheres : form = SelectForm(List(Into("Word", "columns"), n), m) \/ form = UpdateForm(n, m)
       \/ \E m \in Wheres : form = SelectForm(Into("Any", "columns"), m) \/ form = DeleteForm(m)
  BY DEF FormsOf
<1> QED BY <1>12, <1>13, <1>14, <1>15, <1>16, <1>17, <1>18, <1>19

LEMMA FilledTokens ==
  ASSUME NEW Lists \in SUBSET Nat, NEW Wheres \in SUBSET Nat, NEW s \in Filled(FormsOf(Lists, Wheres))
  PROVE  s \in Seq(UsualTokens) /\ Len(s) >= 3
<1>1. PICK form \in FormsOf(Lists, Wheres) : s = [i \in DOMAIN form.parts |-> Usual(form.parts[i].class)]
  BY DEF Filled
<1> DEFINE parts == form.parts
<1>2. parts \in Seq(Parts) /\ Len(parts) \in Nat /\ Len(parts) >= 3
  BY FormParts DEF PartsFrom
<1> HIDE DEF parts
<1>3. DOMAIN parts = 1 .. Len(parts)
  BY <1>2
<1>4. ASSUME NEW i \in 1 .. Len(parts) PROVE Usual(parts[i].class) \in UsualTokens
  <2>1. parts[i] \in Parts
    BY <1>2
  <2> QED BY <2>1 DEF Parts, UsualTokens
<1>5. s = [i \in 1 .. Len(parts) |-> Usual(parts[i].class)]
  BY <1>1, <1>3 DEF parts
<1> HIDE DEF UsualTokens
<1>6. s \in Seq(UsualTokens)
  BY <1>2, <1>4, <1>5
<1>7. Len(s) = Len(parts)
  BY <1>2, <1>5
<1> QED BY <1>2, <1>6, <1>7

LEMMA UsualStatementTokens ==
  ASSUME NEW s \in UsualStatements \cup {Plain}
  PROVE  s \in Seq(UsualTokens) /\ Len(s) >= 2
<1>1. CASE s \in UsualStatements
  <2>1. MaxList \in Nat
    BY StatementsAssumption DEF StatementsAssumption
  <2>2. 1 .. MaxList \in SUBSET Nat /\ 0 .. MaxList \in SUBSET Nat
    BY <2>1
  <2>3. s \in Filled(FormsOf(1 .. MaxList, 0 .. MaxList))
    BY <1>1 DEF UsualStatements, UsualForms
  <2> HIDE DEF UsualTokens
  <2>4. s \in Seq(UsualTokens) /\ Len(s) >= 3
    BY <2>2, <2>3, FilledTokens
  <2> QED BY <2>4
<1>2. CASE s = Plain
  <2> DEFINE classes == <<"SELECT", "Any", "FROM", "Word">>
  <2>1. \A i \in 1 .. 4 : classes[i] \in Classes
    BY DEF Classes, Keywords
  <2>2. s = [i \in 1 .. 4 |-> Usual(classes[i])]
    BY <1>2 DEF Plain
  <2> HIDE DEF classes
  <2>3. \A i \in 1 .. 4 : Usual(classes[i]) \in UsualTokens
    BY <2>1 DEF UsualTokens
  <2> HIDE DEF UsualTokens
  <2>4. s \in Seq(UsualTokens)
    BY <2>2, <2>3
  <2>5. Len(s) = 4
    BY <2>2
  <2> QED BY <2>4, <2>5
<1> QED BY <1>1, <1>2

LEMMA OddStatementTokens ==
  ASSUME NEW odd \in OddStatements
  PROVE  odd \in Seq(TypedTokens) /\ Len(odd) >= 2
<1> DEFINE S == Filled(FormsOf({MaxList}, {0, MaxList}))
<1>1. ASSUME NEW s \in S PROVE s \in Seq(TypedTokens) /\ Len(s) \in Nat /\ Len(s) >= 3 /\ DOMAIN s = 1 .. Len(s)
  <2>1. MaxList \in Nat
    BY StatementsAssumption DEF StatementsAssumption
  <2>2. {MaxList} \in SUBSET Nat /\ {0, MaxList} \in SUBSET Nat
    BY <2>1
  <2> HIDE DEF UsualTokens
  <2>3. s \in Seq(UsualTokens) /\ Len(s) >= 3
    BY <2>2, FilledTokens
  <2>4. \A i \in 1 .. Len(s) : s[i] \in TypedTokens
    BY <2>3 DEF TypedTokens
  <2> QED BY <2>3, <2>4
<1>2. Others \subseteq TypedTokens
  BY DEF TypedTokens
<1> HIDE DEF S
<1>3. \/ \E s \in S : \E i \in DOMAIN s, t \in Others : odd = [s EXCEPT ![i] = t]
      \/ \E s \in S : \E i \in 1 .. Len(s) + 1, t \in Others : odd = InsertAt(s, i, t)
      \/ \E s \in S : \E i \in DOMAIN s : odd = RemoveAt(s, i)
  <2>1. PICK s \in S : odd \in Near(s)
    BY DEF OddStatements, S
  <2>2. \/ \E i \in DOMAIN s, t \in Others : odd = [s EXCEPT ![i] = t]
        \/ \E i \in 1 .. Len(s) + 1, t \in Others : odd = InsertAt(s, i, t)
        \/ \E i \in DOMAIN s : odd = RemoveAt(s, i)
    BY <2>1 DEF Near
  <2> QED BY <2>2
<1>4. ASSUME NEW s \in S, NEW i \in DOMAIN s, NEW t \in Others, odd = [s EXCEPT ![i] = t]
      PROVE  odd \in Seq(TypedTokens) /\ Len(odd) >= 2
  <2>1. s \in Seq(TypedTokens) /\ Len(s) \in Nat /\ i \in 1 .. Len(s) /\ t \in TypedTokens
    BY <1>1, <1>2
  <2> HIDE DEF TypedTokens
  <2>2. odd \in Seq(TypedTokens) /\ Len(odd) = Len(s)
    BY <1>4, <2>1
  <2> QED BY <1>1, <2>2
<1>5. ASSUME NEW s \in S, NEW i \in 1 .. Len(s) + 1, NEW t \in Others, odd = InsertAt(s, i, t)
      PROVE  odd \in Seq(TypedTokens) /\ Len(odd) >= 2
  <2>1. odd \in Seq(TypedTokens) /\ Len(odd) = Len(s) + 1
    BY <1>1, <1>2, <1>5, InsertAtElements
  <2> QED BY <1>1, <2>1
<1>6. ASSUME NEW s \in S, NEW i \in DOMAIN s, odd = RemoveAt(s, i)
      PROVE  odd \in Seq(TypedTokens) /\ Len(odd) >= 2
  <2>1. odd \in Seq(TypedTokens) /\ Len(odd) = Len(s) - 1
    BY <1>1, <1>6, RemoveAtElements
  <2> QED BY <1>1, <2>1
<1> QED BY <1>3, <1>4, <1>5, <1>6

-----------------------------------------------------------------------------
(***************************************************************************)
(* A statement spelled.                                                    *)
(***************************************************************************)

NoSpace == ""

LEMMA TextsJoined ==
  ASSUME NEW a \in Seq(Alphabet), NEW b \in Seq(Alphabet)
  PROVE  /\ a \o b \in Seq(Alphabet) /\ Len(a) \in Nat /\ Len(b) \in Nat /\ Len(a \o b) = Len(a) + Len(b)
         /\ \A i \in 1 .. Len(a) : (a \o b)[i] = a[i]
         /\ \A i \in 1 .. Len(b) : (a \o b)[Len(a) + i] = b[i]
         /\ \A c : Without(a, c) /\ Without(b, c) => Without(a \o b, c)
<1> DEFINE s == a \o b
<1>1. /\ s \in Seq(Alphabet) /\ Len(s) = Len(a) + Len(b)
      /\ \A i \in 1 .. Len(a) + Len(b) : s[i] = IF i <= Len(a) THEN a[i] ELSE b[i - Len(a)]
  BY ConcatProperties
<1>2. Len(a) \in Nat /\ Len(b) \in Nat
  OBVIOUS
<1> HIDE DEF s
<1>3. \A i \in 1 .. Len(a) : s[i] = a[i]
  BY <1>1, <1>2
<1>4. \A i \in 1 .. Len(b) : s[Len(a) + i] = b[i]
  <2>1. ASSUME NEW i \in 1 .. Len(b) PROVE s[Len(a) + i] = b[i]
    <3>1. Len(a) + i \in 1 .. Len(a) + Len(b) /\ ~(Len(a) + i <= Len(a)) /\ (Len(a) + i) - Len(a) = i
      BY <1>2
    <3> QED BY <1>1, <3>1
  <2> QED BY <2>1
<1>5. ASSUME NEW c, Without(a, c), Without(b, c) PROVE Without(s, c)
  <2>1. ASSUME NEW i \in 1 .. Len(s) PROVE s[i] # c
    <3>1. CASE i <= Len(a)
      <4>1. i \in 1 .. Len(a) /\ s[i] = a[i]
        BY <1>1, <1>2, <3>1
      <4> QED BY <1>5, <4>1 DEF Without
    <3>2. CASE ~(i <= Len(a))
      <4>1. i - Len(a) \in 1 .. Len(b) /\ s[i] = b[i - Len(a)]
        BY <1>1, <1>2, <3>2
      <4> QED BY <1>5, <4>1 DEF Without
    <3> QED BY <3>1, <3>2
  <2> QED BY <2>1 DEF Without
<1> QED BY <1>1, <1>2, <1>3, <1>4, <1>5 DEF s

\* What stands before a token and the token.
LEMMA PieceText ==
  ASSUME NEW T, NEW statement \in Seq(T), NEW space, NEW bad \in {Semicolon, Newline},
         space # NoSpace => space \in Alphabet \ {Semicolon, bad},
         \A t \in T : WellSpelled(Symbols(t)) /\ Without(Symbols(t), bad),
         NEW i \in 1 .. Len(statement)
  PROVE  LET piece == Gap(statement, i, space) \o Symbols(statement[i])
         IN  /\ piece \in Seq(Alphabet) /\ Len(piece) >= 1 /\ piece[1] # Semicolon
             /\ Without(piece, bad)
             /\ i = 1 => WellSpelled(piece)
<1> DEFINE gap == Gap(statement, i, space)
           symbols == Symbols(statement[i])
           piece == gap \o symbols
<1>1. WellSpelled(symbols) /\ Without(symbols, bad)
  OBVIOUS
<1>2. /\ symbols \in Seq(Alphabet) /\ Len(symbols) \in Nat /\ Len(symbols) >= 1 /\ symbols[1] # Semicolon
  BY <1>1 DEF WellSpelled
<1> HIDE DEF symbols
<1>3. gap = <<>> \/ (i # 1 /\ \E x \in {space, Space} : gap = <<x>> /\ (x = space => space # NoSpace \/ x = Space))
  BY Zenon DEF Gap, NoSpace, Space
<1> HIDE DEF gap, piece
<1>4. CASE gap = <<>>
  <2>1. piece = symbols
    BY <1>2, <1>4 DEF piece
  <2> QED BY <1>1, <1>2, <2>1 DEF gap, piece, symbols
<1>5. CASE gap # <<>>
  <2>1. PICK x \in Alphabet : gap = <<x>> /\ x # Semicolon /\ x # bad
    <3>1. Space \in Alphabet /\ Space # Semicolon /\ Space # bad
      BY InnerSymbols DEF Inner
    <3> QED BY <1>3, <1>5, <3>1
  <2>2. gap \in Seq(Alphabet) /\ Len(gap) = 1 /\ gap[1] = x /\ Without(gap, bad)
    <3>1. gap \in Seq(Alphabet) /\ Len(gap) = 1 /\ gap[1] = x
      BY <2>1
    <3> QED BY <2>1, <3>1 DEF Without
  <2>3. piece \in Seq(Alphabet) /\ Len(piece) = 1 + Len(symbols) /\ piece[1] = gap[1] /\ Without(piece, bad)
    <3> HIDE DEF Without
    <3>1. /\ piece \in Seq(Alphabet) /\ Len(piece) = Len(gap) + Len(symbols)
          /\ \A j \in 1 .. Len(gap) : piece[j] = gap[j]
          /\ Without(gap, bad) /\ Without(symbols, bad) => Without(piece, bad)
      BY <1>2, <2>2, TextsJoined DEF piece
    <3>2. 1 \in 1 .. Len(gap)
      BY <2>2
    <3> QED BY <1>1, <2>2, <3>1, <3>2
  <2>4. i # 1
    BY <1>3, <1>5
  <2> QED BY <1>2, <2>1, <2>2, <2>3, <2>4 DEF gap, piece, symbols
<1> QED BY <1>4, <1>5

Started(text, bad) ==
  /\ text \in Seq(Alphabet)
  /\ Len(text) >= 1 => text[1] \notin {Semicolon, Newline}
  /\ Len(text) >= 2 => text[2] # Semicolon
  /\ Without(text, bad)

LEMMA StartKept ==
  ASSUME NEW bad, NEW a, Started(a, bad), Len(a) >= 1,
         NEW b \in Seq(Alphabet), Len(b) >= 1, b[1] # Semicolon, Without(b, bad)
  PROVE  Started(a \o b, bad) /\ Len(a \o b) >= 2
<1> DEFINE s == a \o b
<1>1. a \in Seq(Alphabet) /\ Len(a) \in Nat /\ Len(b) \in Nat
  BY DEF Started
<1>2. /\ s \in Seq(Alphabet) /\ Len(s) = Len(a) + Len(b) /\ Without(s, bad)
      /\ \A j \in 1 .. Len(a) : s[j] = a[j]
      /\ \A j \in 1 .. Len(b) : s[Len(a) + j] = b[j]
  <2>1. Without(a, bad)
    BY DEF Started
  <2> HIDE DEF s
  <2> QED BY <1>1, <2>1, TextsJoined DEF s
<1> HIDE DEF s
<1>3. Len(s) >= 2 /\ s[1] = a[1]
  BY <1>1, <1>2
<1>4. CASE Len(a) >= 2
  <2>1. s[2] = a[2]
    BY <1>1, <1>2, <1>4
  <2> QED BY <1>2, <1>3, <1>4, <2>1 DEF Started, s
<1>5. CASE Len(a) = 1
  <2>1. 1 \in 1 .. Len(b) /\ Len(a) + 1 = 2
    BY <1>1, <1>5
  <2>2. s[2] = b[1]
    BY <1>2, <2>1
  <2> QED BY <1>2, <1>3, <2>2 DEF Started, s
<1>6. Len(a) >= 2 \/ Len(a) = 1
  <2> DEFINE k == Len(a)
  <2>1. k \in Nat /\ k >= 1
    BY <1>1
  <2> HIDE DEF k
  <2>2. k >= 2 \/ k = 1
    BY ONLY <2>1
  <2> QED BY <2>2 DEF k
<1> QED BY <1>4, <1>5, <1>6

LEMMA TextOfPieces ==
  ASSUME NEW n \in Nat, NEW pieces, pieces \in [1 .. n -> Seq(Alphabet)]
  PROVE  \E f \in [0 .. n -> Seq(Alphabet)] : f[0] = <<>> /\ \A i \in 1 .. n : f[i] = f[i - 1] \o pieces[i]
<1> DEFINE S == Seq(Alphabet)
           first == <<>>
           step == [i \in 1 .. n |-> [text \in S |-> text \o pieces[i]]]
<1>1. first \in S
  OBVIOUS
<1>2. step \in [1 .. n -> [S -> S]]
  <2>1. \A i \in 1 .. n : \A text \in S : text \o pieces[i] \in S
    BY TextsJoined
  <2> HIDE DEF S
  <2> QED BY <2>1
<1>3. PICK f \in [0 .. n -> S] : f[0] = first /\ \A i \in 1 .. n : f[i] = step[i][f[i - 1]]
  <2>1. n \in Nat
    OBVIOUS
  <2> HIDE DEF S, first, step
  <2> QED BY ONLY <1>1, <1>2, <2>1, Loop
<1>4. ASSUME NEW i \in 1 .. n PROVE f[i] = f[i - 1] \o pieces[i]
  <2>1. i - 1 \in 0 .. n
    OBVIOUS
  <2>2. f[i - 1] \in S
    BY <1>3, <2>1
  <2> HIDE DEF S
  <2> QED BY <1>3, <2>2
<1> QED BY <1>3, <1>4

LEMMA SpelledText ==
  ASSUME NEW T, NEW statement \in Seq(T), Len(statement) >= 2, NEW space, NEW bad \in {Semicolon, Newline},
         space # NoSpace => space \in Alphabet \ {Semicolon, bad},
         \A t \in T : WellSpelled(Symbols(t)) /\ Without(Symbols(t), bad)
  PROVE  LET text == Spelled(statement, space)
         IN  /\ text \in Seq(Alphabet) /\ Len(text) >= 2
             /\ text[1] \notin {Semicolon, Newline} /\ text[2] # Semicolon
             /\ Without(text, bad)
<1> DEFINE n == Len(statement)
           piece(i) == Gap(statement, i, space) \o Symbols(statement[i])
           Made(i, f) == IF i = 0 THEN <<>> ELSE f[i - 1] \o piece(i)
           upTo == CHOOSE f : f = [i \in 0 .. n |-> Made(i, f)]
<1>1. n \in Nat /\ n >= 2
  OBVIOUS
<1>2. ASSUME NEW i \in 1 .. n
      PROVE  /\ piece(i) \in Seq(Alphabet) /\ Len(piece(i)) >= 1 /\ piece(i)[1] # Semicolon
             /\ Without(piece(i), bad)
             /\ i = 1 => WellSpelled(piece(i))
  BY PieceText
<1> HIDE DEF n, piece
<1>3. upTo = [i \in 0 .. n |-> Made(i, upTo)]
  <2>1. [i \in 1 .. n |-> piece(i)] \in [1 .. n -> Seq(Alphabet)]
    BY <1>2
  <2>2. PICK f \in [0 .. n -> Seq(Alphabet)] :
          f[0] = <<>> /\ \A i \in 1 .. n : f[i] = f[i - 1] \o [k \in 1 .. n |-> piece(k)][i]
    <3> DEFINE pieces == [i \in 1 .. n |-> piece(i)]
    <3>1. pieces \in [1 .. n -> Seq(Alphabet)]
      BY <2>1
    <3> HIDE DEF pieces
    <3>2. \E f \in [0 .. n -> Seq(Alphabet)] : f[0] = <<>> /\ \A i \in 1 .. n : f[i] = f[i - 1] \o pieces[i]
      BY <1>1, <3>1, TextOfPieces
    <3> QED BY <3>2 DEF pieces
  <2>3. f[0] = <<>> /\ \A i \in 1 .. n : f[i] = f[i - 1] \o piece(i)
    BY <2>2
  <2>4. ASSUME NEW i \in 0 .. n PROVE f[i] = Made(i, f)
    <3>1. CASE i = 0
      BY <2>3, <3>1
    <3>2. CASE i # 0
      <4>1. i \in 1 .. n /\ i - 1 \in 0 .. n
        BY <1>1, <3>2
      <4> QED BY <2>3, <3>2, <4>1
    <3> QED BY <3>1, <3>2
  <2>5. f = [i \in 0 .. n |-> Made(i, f)]
    <3> HIDE DEF Made
    <3> QED BY <2>3, <2>4
  <2> HIDE DEF Made
  <2> QED BY <2>5
<1> HIDE DEF upTo
<1>4. upTo[0] = <<>> /\ \A i \in 1 .. n : upTo[i] = upTo[i - 1] \o piece(i)
  <2>1. ASSUME NEW i \in 0 .. n PROVE upTo[i] = Made(i, upTo)
    <3> HIDE DEF Made
    <3> QED BY <1>3
  <2>2. upTo[0] = <<>>
    <3>1. 0 \in 0 .. n
      BY <1>1
    <3> QED BY <2>1, <3>1
  <2>3. ASSUME NEW i \in 1 .. n PROVE upTo[i] = upTo[i - 1] \o piece(i)
    <3>1. i \in 0 .. n /\ i # 0
      BY <1>1
    <3>2. upTo[i] = Made(i, upTo)
      BY <2>1, <3>1
    <3> QED BY <3>1, <3>2
  <2> QED BY <2>2, <2>3
<1>5. Spelled(statement, space) = upTo[n]
  BY DEF Spelled, upTo, n, piece
<1> DEFINE Fine(i) == Started(upTo[i], bad) /\ (i >= 1 => Len(upTo[i]) >= 1) /\ (i >= 2 => Len(upTo[i]) >= 2)
<1>6. Fine(0)
  <2>1. Started(<<>>, bad)
    BY DEF Started, Without
  <2> QED BY <1>4, <2>1
<1>7. ASSUME NEW i \in 0 .. n, Fine(i), i + 1 <= n PROVE Fine(i + 1)
  <2>1. i + 1 \in 1 .. n /\ (i + 1) - 1 = i
    BY <1>1, <1>7
  <2>2. /\ piece(i + 1) \in Seq(Alphabet) /\ Len(piece(i + 1)) >= 1 /\ piece(i + 1)[1] # Semicolon
        /\ Without(piece(i + 1), bad)
        /\ i + 1 = 1 => WellSpelled(piece(i + 1))
    BY <1>2, <2>1
  <2>3. upTo[i + 1] = upTo[i] \o piece(i + 1)
    BY <1>4, <2>1
  <2>4. CASE i = 0
    <3> DEFINE b == piece(i + 1)
    <3>1. b \in Seq(Alphabet) /\ Len(b) >= 1 /\ WellSpelled(b) /\ Without(b, bad)
      BY <2>2, <2>4
    <3>2. upTo[i + 1] = <<>> \o b
      BY <1>4, <2>3, <2>4
    <3> HIDE DEF b
    <3>3. upTo[i + 1] = b
      BY <3>1, <3>2
    <3>4. Started(b, bad)
      BY <3>1 DEF Started, WellSpelled
    <3> QED BY <2>4, <3>1, <3>3, <3>4
  <2>5. CASE i # 0
    <3>1. i >= 1
      BY <2>5
    <3>2. Started(upTo[i], bad) /\ Len(upTo[i]) >= 1
      BY <1>7, <3>1
    <3>3. Started(upTo[i] \o piece(i + 1), bad) /\ Len(upTo[i] \o piece(i + 1)) >= 2
      BY <2>2, <3>2, StartKept
    <3>4. Len(upTo[i + 1]) >= 2 /\ Started(upTo[i + 1], bad)
      BY <2>3, <3>3
    <3>5. upTo[i + 1] \in Seq(Alphabet)
      BY <3>4 DEF Started
    <3>6. Len(upTo[i + 1]) \in Nat
      BY <3>5
    <3> HIDE DEF piece
    <3> QED BY <3>4, <3>6
  <2> QED BY <2>4, <2>5
<1>8. Fine(n)
  <2> DEFINE S == {i \in 0 .. n : Fine(i)}
  <2> HIDE DEF Fine
  <2>1. 0 \in S /\ \A i \in 0 .. n : i \in S /\ i + 1 <= n => i + 1 \in S
    BY <1>1, <1>6, <1>7
  <2> HIDE DEF S
  <2>2. \A i \in 0 .. n : i \in S
    BY <1>1, <2>1, InductionTo
  <2> QED BY <1>1, <2>2 DEF S
<1>9. Started(upTo[n], bad) /\ Len(upTo[n]) >= 2
  BY <1>1, <1>8
<1>10. Len(upTo[n]) \in Nat
  BY <1>9 DEF Started
<1> QED BY <1>5, <1>9, <1>10 DEF Started

-----------------------------------------------------------------------------
(***************************************************************************)
(* Statements that stand in a text: from position first, which is not the  *)
(* end of a line, to position to.  Such a statement is finished, with a    *)
(* semicolon e and the end of a line after it, or the text ends in it.     *)
(***************************************************************************)

Finished(text, first, to, statement) ==
  \E e \in first + 1 .. to - 1 :
    /\ text[e] = Semicolon /\ \A i \in first .. e - 1 : text[i] # Semicolon
    /\ text[to] = Newline /\ \A i \in e + 1 .. to - 1 : text[i] # Newline
    /\ text[first] = "exit" /\ e = first + 1 => statement = Exit

Unfinished(text, first, to) ==
  /\ first < to /\ to = Len(text)
  /\ \A i \in first .. to : text[i] # Semicolon

LEMMA EndingText ==
  ASSUME NEW ending \in Endings
  PROVE  /\ ending \in Seq(Alphabet) /\ Len(ending) \in Nat /\ Len(ending) >= 2
         /\ ending[1] = Semicolon /\ ending[Len(ending)] = Newline
         /\ \A i \in 1 .. Len(ending) - 1 : ending[i] # Newline
<1>1. ending = <<Semicolon, Newline>> \/ ending = <<Semicolon, Space, "id", Semicolon, Newline>>
  BY Zenon DEF Endings, Semicolon, Newline, Space
<1>2. {Semicolon, Newline, Space, "id"} \subseteq Alphabet /\ Semicolon # Newline /\ Space # Newline /\ "id" # Newline
  BY InnerSymbols DEF Inner, Letters
<1>3. CASE ending = <<Semicolon, Newline>>
  BY <1>2, <1>3
<1>4. CASE ending = <<Semicolon, Space, "id", Semicolon, Newline>>
  BY <1>2, <1>4
<1> QED BY <1>1, <1>3, <1>4

LEMMA EndedText ==
  ASSUME NEW text \in Seq(Alphabet), NEW ending \in Endings, NEW statement,
         Len(text) >= 2, text[1] \notin {Semicolon, Newline}, text[2] # Semicolon,
         Without(text, Semicolon) \/ Without(text, Newline)
  PROVE  LET all == text \o ending
         IN  all \in Seq(Alphabet) /\ Len(all) >= 1 /\ all[1] # Newline /\ Finished(all, 1, Len(all), statement)
<1> DEFINE all == text \o ending
           m == Len(text)
           k == Len(ending)
           T == {i \in 1 .. m + 1 : all[i] = Semicolon}
<1>1. /\ ending \in Seq(Alphabet) /\ k \in Nat /\ k >= 2 /\ ending[1] = Semicolon /\ ending[k] = Newline
      /\ \A i \in 1 .. k - 1 : ending[i] # Newline
  BY EndingText
<1>2. /\ all \in Seq(Alphabet) /\ m \in Nat /\ m >= 2 /\ Len(all) = m + k
      /\ \A i \in 1 .. m : all[i] = text[i]
      /\ \A i \in 1 .. k : all[m + i] = ending[i]
  BY <1>1, TextsJoined
<1> HIDE DEF all, m, k
<1>3. /\ all[1] \notin {Semicolon, Newline} /\ all[2] # Semicolon
      /\ all[m + 1] = Semicolon /\ all[m + k] = Newline
  BY <1>1, <1>2
<1>4. PICK e \in T : \A i \in T : e <= i
  <2>1. m + 1 \in T /\ T \in SUBSET Nat
    BY <1>2, <1>3
  <2> HIDE DEF T
  <2> QED BY <2>1, LeastNumber
<1>5. e \in 1 .. m + 1 /\ all[e] = Semicolon /\ \A i \in 1 .. e - 1 : all[i] # Semicolon
  <2>1. e \in 1 .. m + 1 /\ all[e] = Semicolon
    BY <1>4
  <2>2. ASSUME NEW i \in 1 .. e - 1, all[i] = Semicolon PROVE FALSE
    <3>1. i \in T
      BY <1>2, <2>1, <2>2
    <3> QED BY <1>2, <1>4, <2>1, <3>1
  <2> QED BY <2>1, <2>2
<1>6. e # 1 /\ e # 2
  BY <1>3, <1>5
<1>7. ASSUME NEW i \in e + 1 .. Len(all) - 1 PROVE all[i] # Newline
  <2>1. CASE i <= m
    <3>1. e \in 1 .. m /\ i \in 1 .. m
      BY <1>2, <1>5, <2>1
    <3>2. text[e] = Semicolon /\ all[i] = text[i]
      BY <1>2, <1>5, <3>1
    <3>3. ~ Without(text, Semicolon)
      BY <3>1, <3>2 DEF Without, m
    <3> QED BY <3>1, <3>2, <3>3 DEF Without, m
  <2>2. CASE i > m
    <3> DEFINE j == i - m
    <3>1. j \in 1 .. k - 1 /\ m + j = i
      BY <1>1, <1>2, <1>5, <2>2
    <3> HIDE DEF j
    <3>2. j \in 1 .. k
      BY <1>1, <3>1
    <3>3. all[m + j] = ending[j] /\ ending[j] # Newline
      BY <1>1, <1>2, <3>1, <3>2
    <3> QED BY <3>1, <3>3
  <2> QED BY <1>2, <1>5, <2>1, <2>2
<1>8. e \in 1 + 1 .. Len(all) - 1 /\ e # 1 + 1
  BY <1>1, <1>2, <1>5, <1>6
<1>9. Finished(all, 1, Len(all), statement)
  BY <1>2, <1>3, <1>5, <1>7, <1>8 DEF Finished
<1> QED BY <1>1, <1>2, <1>3, <1>9 DEF all

Typable == {new.statement : new \in UsualLines \cup PlainLines \cup OddLines} \cup {Exit, Plain}

LEMMA LineText ==
  ASSUME NEW new \in UsualLines \cup PlainLines \cup OddLines
  PROVE  /\ new.statement \in Typable
         /\ new.text \in Seq(Alphabet) /\ Len(new.text) >= 1 /\ new.text[1] # Newline
         /\ Finished(new.text, 1, Len(new.text), new.statement)
<1>1. \A x \in {Space, Newline} : x \in Alphabet \ {Semicolon}
  BY InnerSymbols DEF Inner
<1>2. CASE new \in UsualLines \cup PlainLines
  <2>1. PICK s \in UsualStatements \cup {Plain}, space \in {NoSpace, Space, Newline}, ending \in Endings :
          new = Line(s, space, ending)
    <3>1. UsualLines = {Line(s, space, ending) : s \in UsualStatements, space \in {NoSpace, Space, Newline}, ending \in Endings}
      <4>1. Spacings = {NoSpace, Space, Newline}
        BY Zenon DEF Spacings, NoSpace, Space, Newline
      <4> QED BY <4>1 DEF UsualLines
    <3>2. PlainLines = {Line(Plain, Space, ending) : ending \in Endings}
      BY Zenon DEF PlainLines, Space
    <3> QED BY <1>2, <3>1, <3>2
  <2>2. s \in Seq(UsualTokens) /\ Len(s) >= 2
    BY UsualStatementTokens
  <2>3. \A t \in UsualTokens : WellSpelled(Symbols(t)) /\ Without(Symbols(t), Semicolon)
    BY UsualSymbols
  <2>4. space # NoSpace => space \in Alphabet \ {Semicolon, Semicolon}
    BY <1>1
  <2> DEFINE text == Spelled(s, space)
  <2>5. /\ text \in Seq(Alphabet) /\ Len(text) >= 2 /\ text[1] \notin {Semicolon, Newline} /\ text[2] # Semicolon
        /\ Without(text, Semicolon)
    BY <2>2, <2>3, <2>4, SpelledText
  <2>6. new.text = text \o ending /\ new.statement = s
    BY <2>1 DEF Line
  <2> HIDE DEF text
  <2> QED BY <2>5, <2>6, EndedText DEF Typable
<1>3. CASE new \in OddLines
  <2>1. PICK s \in OddStatements : new = Line(s, NoSpace, <<Semicolon, Newline>>)
    BY <1>3, Zenon DEF OddLines, NoSpace, Semicolon, Newline
  <2>2. s \in Seq(TypedTokens) /\ Len(s) >= 2
    BY OddStatementTokens
  <2>3. \A t \in TypedTokens : WellSpelled(Symbols(t)) /\ Without(Symbols(t), Newline)
    BY UsualSymbols, OtherSymbols DEF TypedTokens, WellSpelled
  <2> DEFINE text == Spelled(s, NoSpace)
             ending == <<Semicolon, Newline>>
  <2>4. /\ text \in Seq(Alphabet) /\ Len(text) >= 2 /\ text[1] \notin {Semicolon, Newline} /\ text[2] # Semicolon
        /\ Without(text, Newline)
    BY <2>2, <2>3, SpelledText
  <2>5. new.text = text \o ending /\ new.statement = s
    BY <2>1 DEF Line
  <2>6. ending \in Endings
    BY Zenon DEF Endings, Semicolon, Newline
  <2> HIDE DEF text, ending
  <2> QED BY <2>4, <2>5, <2>6, EndedText DEF Typable
<1> QED BY <1>2, <1>3

LEMMA ExitText ==
  LET text == <<"exit", Semicolon, Newline>>
  IN  /\ text \in Seq(Alphabet) /\ Len(text) >= 1 /\ text[1] # Newline
      /\ Finished(text, 1, Len(text), Exit)
<1> DEFINE text == <<"exit", Semicolon, Newline>>
<1>1. "exit" \in Alphabet /\ "exit" # Newline /\ "exit" # Semicolon /\ Semicolon # Newline
      /\ Semicolon \in Alphabet /\ Newline \in Alphabet
  BY InnerSymbols DEF Inner, Letters
<1>2. /\ text \in Seq(Alphabet) /\ Len(text) = 3
      /\ text[1] = "exit" /\ text[2] = Semicolon /\ text[3] = Newline
  BY <1>1
<1> HIDE DEF text
<1>3. 2 \in 1 + 1 .. 3 - 1 /\ 1 .. 2 - 1 = {1} /\ 2 + 1 .. 3 - 1 = {}
  OBVIOUS
<1>4. Finished(text, 1, 3, Exit)
  BY <1>1, <1>2, <1>3 DEF Finished
<1> QED BY <1>1, <1>2, <1>4 DEF text

LEMMA LastText ==
  LET new == Line(Plain, " ", <<>>)
  IN  /\ new.statement \in Typable
      /\ new.text \in Seq(Alphabet) /\ Len(new.text) >= 1 /\ new.text[1] # Newline
      /\ Unfinished(new.text, 1, Len(new.text))
<1> DEFINE new == Line(Plain, " ", <<>>)
           text == Spelled(Plain, Space)
<1>1. new = [statement |-> Plain, text |-> text \o <<>>]
  BY Zenon DEF Line, Space
<1>2. Plain \in Seq(UsualTokens) /\ Len(Plain) >= 2
  BY UsualStatementTokens
<1>3. \A t \in UsualTokens : WellSpelled(Symbols(t)) /\ Without(Symbols(t), Semicolon)
  BY UsualSymbols
<1>4. Space \in Alphabet \ {Semicolon, Semicolon}
  BY InnerSymbols DEF Inner
<1>5. /\ text \in Seq(Alphabet) /\ Len(text) >= 2 /\ text[1] \notin {Semicolon, Newline} /\ text[2] # Semicolon
      /\ Without(text, Semicolon)
  BY <1>2, <1>3, <1>4, SpelledText
<1> HIDE DEF text, new
<1>6. new.statement = Plain /\ new.text = text
  BY <1>1, <1>5
<1>7. Unfinished(text, 1, Len(text))
  <2>1. Len(text) \in Nat /\ 1 < Len(text)
    BY <1>5
  <2> QED BY <1>5, <2>1 DEF Unfinished, Without
<1>8. /\ new.statement \in Typable
      /\ new.text \in Seq(Alphabet) /\ Len(new.text) >= 1 /\ new.text[1] # Newline
      /\ Unfinished(new.text, 1, Len(new.text))
  <2>1. Len(text) \in Nat /\ Len(text) >= 1
    BY <1>5
  <2>2. Plain \in Typable
    BY Zenon DEF Typable
  <2> QED BY <1>5, <1>6, <1>7, <2>1, <2>2
<1> QED BY <1>8, Zenon DEF new

-----------------------------------------------------------------------------
(***************************************************************************)
(* Reading a statement.                                                    *)
(***************************************************************************)

LEMMA FindFirst ==
  ASSUME NEW text \in Seq(Alphabet), NEW c, NEW q \in 1 .. Len(text) + 1,
         q > Len(text) \/ text[q] = c, \A r \in 1 .. q - 1 : text[r] # c
  PROVE  Find(text, 1, c) = q
<1> DEFINE n == Len(text)
           P(x) == (x > n \/ text[x] = c) /\ \A r \in 1 .. x - 1 : text[r] # c
<1>1. n \in Nat /\ q \in 1 .. n + 1 /\ P(q)
  OBVIOUS
<1> HIDE DEF n
<1>2. ASSUME NEW x \in 1 .. n + 1, NEW y \in 1 .. n + 1, P(x), P(y), x < y PROVE FALSE
  <2>1. x \in 1 .. y - 1 /\ ~(x > n)
    BY <1>1, <1>2
  <2> QED BY <1>2, <2>1
<1>3. \A x \in 1 .. n + 1 : P(x) => x = q
  <2> HIDE DEF P
  <2>1. ASSUME NEW x \in 1 .. n + 1, P(x), x # q PROVE FALSE
    <3>1. x < q \/ q < x
      BY <1>1, <2>1
    <3> QED BY <1>1, <1>2, <2>1, <3>1
  <2> QED BY <2>1
<1>4. Find(text, 1, c) = CHOOSE x \in 1 .. n + 1 : P(x)
  BY DEF Find, n
<1> HIDE DEF P
<1> QED BY <1>1, <1>3, <1>4

\* What is left of a text after a position.
Rest(text, pos, rest) ==
  /\ rest \in Seq(Alphabet) /\ Len(rest) = (IF pos <= Len(text) THEN Len(text) - pos ELSE 0)
  /\ \A j \in 1 .. Len(rest) : rest[j] = text[pos + j]

LEMMA AfterText ==
  ASSUME NEW text \in Seq(Alphabet), NEW pos \in Nat
  PROVE  Rest(text, pos, After(text, pos))
<1> DEFINE n == Len(text)
           s == SubSeq(text, pos + 1, n)
<1>1. n \in Nat /\ \A i \in 1 .. n : text[i] \in Alphabet
  OBVIOUS
<1>2. /\ s \in Seq(Alphabet) /\ Len(s) = (IF pos <= n THEN n - pos ELSE 0)
      /\ \A j \in 1 .. Len(s) : s[j] = text[pos + j]
  BY <1>1
<1> QED BY <1>2 DEF Rest, After

LEMMA ReadPart ==
  ASSUME NEW text \in Seq(Alphabet), NEW e \in 1 .. Len(text) + 1
  PROVE  LET read == SubSeq(text, 1, e - 1)
         IN  read \in Seq(Alphabet) /\ Len(read) = e - 1 /\ \A i \in 1 .. e - 1 : read[i] = text[i]
<1> DEFINE n == Len(text)
<1>1. n \in Nat /\ \A i \in 1 .. n : text[i] \in Alphabet
  OBVIOUS
<1> QED BY <1>1

LEMMA StatementRead ==
  ASSUME NEW text \in Seq(Alphabet)
  PROVE  LET end == Find(text, 1, Semicolon)
             rest == After(text, end)
         IN  ReadStatement(text) = [read |-> SubSeq(text, 1, end - 1), left |-> After(rest, Find(rest, 1, Newline))]
BY Zenon DEF ReadStatement, Semicolon, Newline

LEMMA FinishedRead ==
  ASSUME NEW text \in Seq(Alphabet), NEW to \in 1 .. Len(text), NEW statement, Finished(text, 1, to, statement)
  PROVE  LET got == ReadStatement(text)
         IN  /\ Rest(text, to, got.left)
             /\ got.read \in Seq(Alphabet) /\ got.read # <<>>
             /\ got.read = <<"exit">> => statement = Exit
<1> DEFINE n == Len(text)
           got == ReadStatement(text)
<1>1. n \in Nat /\ to \in 1 .. n
  OBVIOUS
<1>2. PICK e \in 1 + 1 .. to - 1 :
        /\ text[e] = Semicolon /\ \A i \in 1 .. e - 1 : text[i] # Semicolon
        /\ text[to] = Newline /\ \A i \in e + 1 .. to - 1 : text[i] # Newline
        /\ text[1] = "exit" /\ e = 1 + 1 => statement = Exit
  BY DEF Finished
<1>3. e \in 1 .. n + 1 /\ e \in Nat /\ e >= 2 /\ e < to
  BY <1>1, <1>2
<1>4. Find(text, 1, Semicolon) = e
  BY <1>2, <1>3, FindFirst
<1> DEFINE rest == After(text, e)
<1>5. Rest(text, e, rest)
  BY <1>3, AfterText
<1> HIDE DEF rest
<1>6. rest \in Seq(Alphabet) /\ Len(rest) = n - e /\ \A j \in 1 .. n - e : rest[j] = text[e + j]
  BY <1>1, <1>3, <1>5 DEF Rest
<1> DEFINE q == to - e
<1>7. q \in 1 .. n - e /\ e + q = to
  BY <1>1, <1>3
<1>8. rest[q] = Newline /\ \A r \in 1 .. q - 1 : rest[r] # Newline
  <2>1. rest[q] = Newline
    BY <1>2, <1>6, <1>7
  <2>2. ASSUME NEW r \in 1 .. q - 1 PROVE rest[r] # Newline
    <3>1. r \in 1 .. n - e /\ e + r \in e + 1 .. to - 1
      BY <1>1, <1>3, <1>7
    <3> QED BY <1>2, <1>6, <3>1
  <2> QED BY <2>1, <2>2
<1> HIDE DEF q
<1>9. Find(rest, 1, Newline) = q
  <2>1. q \in 1 .. Len(rest) + 1
    BY <1>1, <1>3, <1>6, <1>7
  <2>2. rest \in Seq(Alphabet) /\ (q > Len(rest) \/ rest[q] = Newline)
    BY <1>6, <1>8
  <2>3. \A r \in 1 .. q - 1 : rest[r] # Newline
    BY <1>8
  <2> QED BY ONLY <2>1, <2>2, <2>3, FindFirst
<1>10. got.left = After(rest, q) /\ got.read = SubSeq(text, 1, e - 1)
  BY <1>4, <1>9, StatementRead DEF rest
<1> DEFINE left == After(rest, q)
<1>11. Rest(rest, q, left)
  BY <1>6, <1>7, AfterText
<1> HIDE DEF left, got
<1>12. Rest(text, to, left)
  <2>1. left \in Seq(Alphabet) /\ Len(left) = n - to /\ \A j \in 1 .. n - to : left[j] = rest[q + j]
    <3>1. Len(rest) = n - e /\ q <= n - e /\ (n - e) - q = n - to
      <4>1. /\ n \in Int /\ e \in Int /\ to \in Int /\ q \in Int
            /\ Len(rest) = n - e /\ q <= n - e /\ e + q = to
        BY <1>1, <1>3, <1>6, <1>7
      <4> HIDE DEF n
      <4> QED BY <4>1
    <3>2. /\ left \in Seq(Alphabet) /\ Len(left) = (IF q <= n - e THEN (n - e) - q ELSE 0)
          /\ \A j \in 1 .. Len(left) : left[j] = rest[q + j]
      BY <1>11, <3>1 DEF Rest
    <3> HIDE DEF n
    <3> QED BY <3>1, <3>2
  <2>2. ASSUME NEW j \in 1 .. n - to PROVE left[j] = text[to + j]
    <3>1. q + j \in 1 .. n - e /\ e + (q + j) = to + j
      BY <1>1, <1>3, <1>7
    <3> QED BY <1>6, <2>1, <3>1
  <2>3. to <= n
    BY <1>1
  <2> QED BY <2>1, <2>2, <2>3 DEF Rest
<1>13. /\ got.read \in Seq(Alphabet) /\ Len(got.read) = e - 1 /\ \A i \in 1 .. e - 1 : got.read[i] = text[i]
  BY <1>3, <1>10, ReadPart
<1>14. got.read # <<>>
  BY <1>3, <1>13
<1>15. ASSUME got.read = <<"exit">> PROVE statement = Exit
  <2>1. Len(got.read) = 1 /\ got.read[1] = "exit"
    BY <1>15
  <2>2. e = 2 /\ text[1] = "exit"
    BY <1>3, <1>13, <2>1
  <2> QED BY <1>2, <2>2
<1> QED BY <1>10, <1>12, <1>13, <1>14, <1>15 DEF left, got

LEMMA UnfinishedRead ==
  ASSUME NEW text \in Seq(Alphabet), Unfinished(text, 1, Len(text))
  PROVE  LET got == ReadStatement(text)
         IN  /\ Rest(text, Len(text), got.left)
             /\ got.read \in Seq(Alphabet) /\ got.read # <<>> /\ got.read # <<"exit">>
<1> DEFINE n == Len(text)
           got == ReadStatement(text)
<1>1. n \in Nat /\ n > 1 /\ \A i \in 1 .. n : text[i] # Semicolon
  BY DEF Unfinished
<1>2. n + 1 \in 1 .. n + 1 /\ n + 1 > n /\ (n + 1) - 1 = n /\ n + 1 \in Nat
  BY <1>1
<1>3. Find(text, 1, Semicolon) = n + 1
  BY <1>1, <1>2, FindFirst
<1> DEFINE rest == After(text, n + 1)
<1>4. Rest(text, n + 1, rest)
  BY <1>2, AfterText
<1> HIDE DEF rest
<1>5. rest \in Seq(Alphabet) /\ Len(rest) = 0
  BY <1>1, <1>2, <1>4 DEF Rest
<1>6. Find(rest, 1, Newline) = 1
  <2>1. 1 \in 1 .. Len(rest) + 1 /\ 1 > Len(rest) /\ 1 .. 1 - 1 = {}
    BY <1>5
  <2> QED BY <1>5, <2>1, FindFirst
<1>7. got.left = After(rest, 1) /\ got.read = SubSeq(text, 1, (n + 1) - 1)
  BY <1>3, <1>6, StatementRead DEF rest
<1>8. Rest(rest, 1, After(rest, 1))
  BY <1>5, AfterText
<1> DEFINE left == After(rest, 1)
<1> HIDE DEF left, got
<1>9. left \in Seq(Alphabet) /\ Len(left) = 0
  BY <1>5, <1>8 DEF Rest, left
<1>10. Rest(text, n, left)
  BY <1>1, <1>9 DEF Rest
<1>11. got.read \in Seq(Alphabet) /\ Len(got.read) = n
  BY <1>2, <1>7, ReadPart
<1>12. Len(<<>>) = 0 /\ Len(<<"exit">>) = 1
  OBVIOUS
<1> QED BY <1>1, <1>7, <1>10, <1>11, <1>12 DEF left, got

-----------------------------------------------------------------------------
(***************************************************************************)
(* What is on the terminal: the statements not yet read, one after the     *)
(* other, and before them the end of an empty line at most.  The k-th of   *)
(* them is at ends[k - 1] + 1 .. ends[k].  At the end of the input the     *)
(* last may be unfinished.                                                 *)
(***************************************************************************)

Stands(text, first, to, statement, end) ==
  /\ first \in Nat \ {0} /\ to \in Nat /\ first <= to /\ text[first] # Newline
  /\ Finished(text, first, to, statement) \/ (end /\ Unfinished(text, first, to))

Places(text, m, pending, end, ends) ==
  /\ ends \in [0 .. Len(pending) -> 0 .. Len(text)]
  /\ \A j, k \in 0 .. Len(pending) : j <= k => ends[j] <= ends[k]
  /\ ends[0] = m /\ ends[Len(pending)] = Len(text)
  /\ \A k \in 1 .. Len(pending) : Stands(text, ends[k - 1] + 1, ends[k], pending[k], end)

HoldsFrom(text, m, pending, end) == \E ends : Places(text, m, pending, end, ends)

Lead(text) == IF text # <<>> /\ text[1] = Newline THEN 1 ELSE 0

Holds(text, pending, end) == HoldsFrom(text, Lead(text), pending, end)

LEMMA StandsMoved ==
  ASSUME NEW text, NEW other, NEW a, NEW b, NEW d \in Int, NEW statement, NEW end, NEW end2,
         Stands(text, a, b, statement, end), a + d >= 1,
         \A i \in a .. b : other[i + d] = text[i],
         end => end2, end /\ b = Len(text) => b + d = Len(other)
  PROVE  Stands(other, a + d, b + d, statement, end2)
<1>1. /\ a \in Nat \ {0} /\ b \in Nat /\ a <= b /\ text[a] # Newline
      /\ Finished(text, a, b, statement) \/ (end /\ Unfinished(text, a, b))
  BY DEF Stands
<1> DEFINE a2 == a + d
           b2 == b + d
<1>2. a2 \in Nat \ {0} /\ b2 \in Nat /\ a2 <= b2
  BY <1>1
<1>3. other[a2] = text[a]
  BY <1>1
<1>4. ASSUME Finished(text, a, b, statement) PROVE Finished(other, a2, b2, statement)
  <2>1. PICK e \in a + 1 .. b - 1 :
        /\ text[e] = Semicolon /\ \A i \in a .. e - 1 : text[i] # Semicolon
        /\ text[b] = Newline /\ \A i \in e + 1 .. b - 1 : text[i] # Newline
        /\ text[a] = "exit" /\ e = a + 1 => statement = Exit
    BY <1>4 DEF Finished
  <2> DEFINE e2 == e + d
  <2>2. e2 \in a2 + 1 .. b2 - 1 /\ (e2 = a2 + 1 => e = a + 1) /\ e2 - d = e
    BY <1>1, <2>1
  <2>3. other[e2] = Semicolon /\ other[b2] = Newline
    BY <1>1, <2>1
  <2>4. ASSUME NEW i \in a2 .. e2 - 1 PROVE other[i] # Semicolon
    <3>1. i - d \in a .. e - 1 /\ i - d \in a .. b /\ (i - d) + d = i
      BY <1>1, <2>1
    <3> QED BY <2>1, <3>1
  <2>5. ASSUME NEW i \in e2 + 1 .. b2 - 1 PROVE other[i] # Newline
    <3>1. i - d \in e + 1 .. b - 1 /\ i - d \in a .. b /\ (i - d) + d = i
      BY <1>1, <2>1
    <3> QED BY <2>1, <3>1
  <2> HIDE DEF a2, b2, e2
  <2> QED BY <1>3, <2>1, <2>2, <2>3, <2>4, <2>5 DEF Finished
<1>5. ASSUME end, Unfinished(text, a, b) PROVE Unfinished(other, a2, b2)
  <2>1. a < b /\ b = Len(text) /\ \A i \in a .. b : text[i] # Semicolon
    BY <1>5 DEF Unfinished
  <2>2. b2 = Len(other) /\ a2 < b2
    BY <1>1, <1>5, <2>1
  <2>3. ASSUME NEW i \in a2 .. b2 PROVE other[i] # Semicolon
    <3>1. i - d \in a .. b /\ (i - d) + d = i
      BY <1>1
    <3> QED BY <2>1, <3>1
  <2> QED BY <2>2, <2>3 DEF Unfinished
<1> HIDE DEF a2, b2
<1>6. Stands(other, a2, b2, statement, end2)
  BY <1>1, <1>2, <1>3, <1>4, <1>5 DEF Stands
<1> QED BY <1>6 DEF a2, b2

\* A text that holds statements from m on is left with them after m.
LEMMA HoldsShift ==
  ASSUME NEW text \in Seq(Alphabet), NEW pending \in Seq(Typable), NEW end, NEW m \in 0 .. Len(text),
         HoldsFrom(text, m, pending, end), NEW rest, Rest(text, m, rest)
  PROVE  Holds(rest, pending, end)
<1> DEFINE n == Len(pending)
           size == Len(text)
<1>1. n \in Nat /\ size \in Nat /\ m \in 0 .. size
  OBVIOUS
<1>2. PICK ends : Places(text, m, pending, end, ends)
  BY DEF HoldsFrom
<1>3. /\ ends \in [0 .. n -> 0 .. size]
      /\ \A j, k \in 0 .. n : j <= k => ends[j] <= ends[k]
      /\ ends[0] = m /\ ends[n] = size
      /\ \A k \in 1 .. n : Stands(text, ends[k - 1] + 1, ends[k], pending[k], end)
  BY <1>2 DEF Places
<1>4. /\ rest \in Seq(Alphabet) /\ Len(rest) = size - m
      /\ \A j \in 1 .. size - m : rest[j] = text[m + j]
  BY <1>1 DEF Rest
<1> HIDE DEF n, size
<1>5. \A k \in 0 .. n : ends[k] \in m .. size
  <2>1. ASSUME NEW k \in 0 .. n PROVE ends[k] \in m .. size
    <3>1. 0 \in 0 .. n /\ 0 <= k /\ ends[k] \in 0 .. size
      BY <1>1, <1>3
    <3>2. ends[0] <= ends[k]
      BY <1>3, <3>1
    <3> QED BY <1>1, <1>3, <3>1, <3>2
  <2> QED BY <2>1
<1> DEFINE new == [k \in 0 .. n |-> ends[k] - m]
<1>6. new \in [0 .. n -> 0 .. Len(rest)]
  <2>1. ASSUME NEW k \in 0 .. n PROVE ends[k] - m \in 0 .. Len(rest)
    BY <1>1, <1>4, <1>5
  <2> QED BY <2>1
<1>7. \A j, k \in 0 .. n : j <= k => new[j] <= new[k]
  <2>1. ASSUME NEW j \in 0 .. n, NEW k \in 0 .. n, j <= k PROVE new[j] <= new[k]
    <3>1. ends[j] <= ends[k] /\ ends[j] \in m .. size /\ ends[k] \in m .. size
      BY <1>3, <1>5, <2>1
    <3>2. ends[j] - m <= ends[k] - m
      BY <1>1, <3>1
    <3> QED BY <3>2
  <2> QED BY <2>1
<1>8. new[0] = 0 /\ new[n] = Len(rest)
  BY <1>1, <1>3, <1>4
<1>9. ASSUME NEW k \in 1 .. n PROVE Stands(rest, new[k - 1] + 1, new[k], pending[k], end)
  <2> DEFINE a == ends[k - 1] + 1
             b == ends[k]
  <2>1. k - 1 \in 0 .. n /\ k \in 0 .. n
    BY <1>1
  <2>2. a \in m + 1 .. size + 1 /\ b \in m .. size
    BY <1>1, <1>5, <2>1
  <2>3. Stands(text, a, b, pending[k], end)
    BY <1>3
  <2>4. new[k - 1] + 1 = a + (-m) /\ new[k] = b + (-m)
    <3>1. new[k - 1] = ends[k - 1] - m /\ new[k] = ends[k] - m
      BY <2>1
    <3>2. ends[k - 1] \in m .. size /\ ends[k] \in m .. size /\ m \in Int
      BY <1>1, <1>5, <2>1
    <3> HIDE DEF new
    <3> QED BY <1>1, <3>1, <3>2
  <2> HIDE DEF a, b, new
  <2>5. a + (-m) >= 1 /\ -m \in Int /\ (b = Len(text) => b + (-m) = Len(rest))
    BY <1>1, <1>4, <2>2 DEF size
  <2>6. ASSUME NEW i \in a .. b PROVE rest[i + (-m)] = text[i]
    <3>1. i + (-m) \in 1 .. size - m /\ m + (i + (-m)) = i
      BY <1>1, <2>2
    <3> QED BY <1>4, <3>1
  <2>7. Stands(rest, a + (-m), b + (-m), pending[k], end)
    BY <2>3, <2>5, <2>6, StandsMoved
  <2> QED BY <2>4, <2>7
<1>10. Lead(rest) = 0
  <2>1. CASE n = 0
    <3>1. Len(rest) = 0
      BY <1>1, <1>3, <1>4, <2>1
    <3>2. rest = <<>>
      BY <1>4, <3>1
    <3> QED BY <3>2 DEF Lead
  <2>2. CASE n # 0
    <3>1. 1 \in 1 .. n /\ 1 - 1 = 0
      BY <1>1, <2>2
    <3>2. Stands(rest, 0 + 1, new[1], pending[1], end)
      BY <1>8, <1>9, <3>1
    <3>3. rest[1] # Newline
      BY <3>2 DEF Stands
    <3> QED BY <3>3 DEF Lead
  <2> QED BY <2>1, <2>2
<1> HIDE DEF new
<1>11. Places(rest, 0, pending, end, new)
  BY <1>6, <1>7, <1>8, <1>9 DEF Places, n
<1> QED BY <1>10, <1>11 DEF Holds, HoldsFrom

\* The first statement a text holds, and the others.
LEMMA HoldsTail ==
  ASSUME NEW text \in Seq(Alphabet), NEW pending \in Seq(Typable), NEW end, NEW m \in 0 .. Len(text),
         HoldsFrom(text, m, pending, end), pending # <<>>
  PROVE  \E to \in m + 1 .. Len(text) :
           Stands(text, m + 1, to, pending[1], end) /\ HoldsFrom(text, to, Tail(pending), end)
<1> DEFINE n == Len(pending)
           size == Len(text)
           tail == Tail(pending)
<1>1. n \in Nat /\ n >= 1 /\ size \in Nat /\ m \in 0 .. size
  OBVIOUS
<1>2. PICK ends : Places(text, m, pending, end, ends)
  BY DEF HoldsFrom
<1>3. /\ ends \in [0 .. n -> 0 .. size]
      /\ \A j, k \in 0 .. n : j <= k => ends[j] <= ends[k]
      /\ ends[0] = m /\ ends[n] = size
      /\ \A k \in 1 .. n : Stands(text, ends[k - 1] + 1, ends[k], pending[k], end)
  BY <1>2 DEF Places
<1>4. Len(tail) = n - 1 /\ \A k \in 1 .. n - 1 : tail[k] = pending[k + 1]
  BY <1>1
<1> HIDE DEF n, tail
<1>5. Stands(text, m + 1, ends[1], pending[1], end)
  <2>1. 1 \in 1 .. n /\ 1 - 1 = 0
    BY <1>1
  <2> QED BY <1>3, <2>1
<1>6. ends[1] \in m + 1 .. size
  <2>1. ends[1] \in 0 .. size
    BY <1>1, <1>3
  <2> QED BY <1>1, <1>5, <2>1 DEF Stands
<1> DEFINE new == [k \in 0 .. n - 1 |-> ends[k + 1]]
<1>7. new \in [0 .. n - 1 -> 0 .. size]
  <2>1. \A k \in 0 .. n - 1 : k + 1 \in 0 .. n
    BY <1>1
  <2> QED BY <1>3, <2>1
<1>8. \A j, k \in 0 .. n - 1 : j <= k => new[j] <= new[k]
  <2>1. ASSUME NEW j \in 0 .. n - 1, NEW k \in 0 .. n - 1, j <= k PROVE new[j] <= new[k]
    <3>1. j + 1 \in 0 .. n /\ k + 1 \in 0 .. n /\ j + 1 <= k + 1
      BY <1>1, <2>1
    <3>2. ends[j + 1] <= ends[k + 1]
      BY <1>3, <3>1
    <3> QED BY <3>2
  <2> QED BY <2>1
<1>9. new[0] = ends[1] /\ new[n - 1] = size
  <2>1. 0 \in 0 .. n - 1 /\ n - 1 \in 0 .. n - 1 /\ 0 + 1 = 1 /\ (n - 1) + 1 = n
    BY <1>1
  <2>2. new[0] = ends[0 + 1] /\ new[n - 1] = ends[(n - 1) + 1]
    BY <2>1
  <2> HIDE DEF new
  <2> QED BY <1>3, <2>1, <2>2
<1>10. ASSUME NEW k \in 1 .. n - 1 PROVE Stands(text, new[k - 1] + 1, new[k], tail[k], end)
  <2>1. k + 1 \in 1 .. n /\ (k + 1) - 1 = (k - 1) + 1 /\ k - 1 \in 0 .. n - 1 /\ k \in 0 .. n - 1
    BY <1>1
  <2>2. new[k - 1] = ends[(k - 1) + 1] /\ new[k] = ends[k + 1]
    BY <2>1
  <2>3. Stands(text, ends[(k + 1) - 1] + 1, ends[k + 1], pending[k + 1], end)
    BY <1>3, <2>1
  <2> HIDE DEF new
  <2> QED BY <1>4, <2>1, <2>2, <2>3
<1> HIDE DEF new
<1>11. Places(text, ends[1], tail, end, new)
  BY <1>4, <1>7, <1>8, <1>9, <1>10 DEF Places, size
<1> QED BY <1>5, <1>6, <1>11 DEF HoldsFrom, tail, size

\* A text that holds no statement is empty, but for the end of an empty line.
LEMMA HoldsNone ==
  ASSUME NEW text \in Seq(Alphabet), NEW pending \in Seq(Typable), NEW end, NEW m \in 0 .. Len(text),
         HoldsFrom(text, m, pending, end)
  PROVE  pending = <<>> <=> Len(text) = m
<1>1. ASSUME pending = <<>> PROVE Len(text) = m
  <2>1. PICK ends : Places(text, m, pending, end, ends)
    BY DEF HoldsFrom
  <2>2. Len(pending) = 0
    BY <1>1
  <2> QED BY <2>1, <2>2 DEF Places
<1>2. ASSUME pending # <<>> PROVE Len(text) # m
  <2>1. PICK to \in m + 1 .. Len(text) : Stands(text, m + 1, to, pending[1], end)
    BY <1>2, HoldsTail
  <2>2. Len(text) \in Nat
    OBVIOUS
  <2> QED BY <2>1, <2>2
<1> QED BY <1>1, <1>2

LEMMA LeadPlace ==
  ASSUME NEW text \in Seq(Alphabet)
  PROVE  /\ Lead(text) \in 0 .. Len(text)
         /\ Lead(text) = 1 => text # <<>> /\ text[1] = Newline
         /\ text = <<>> => Lead(text) = 0
         /\ text # <<>> /\ text[1] # Newline => Lead(text) = 0
<1>1. Len(text) \in Nat /\ (text # <<>> => Len(text) >= 1)
  OBVIOUS
<1> QED BY <1>1 DEF Lead

\* The places of statements that were typed stay theirs when more is typed.
LEMMA HoldsAppend ==
  ASSUME NEW text \in Seq(Alphabet), NEW pending \in Seq(Typable), NEW new \in Seq(Alphabet),
         NEW statement \in Typable, NEW end,
         Holds(text, pending, FALSE), Len(new) >= 1, new[1] # Newline,
         Finished(new, 1, Len(new), statement) \/ (end /\ Unfinished(new, 1, Len(new)))
  PROVE  Holds(text \o new, Append(pending, statement), end)
<1> DEFINE n == Len(pending)
           size == Len(text)
           more == Len(new)
           m == Lead(text)
           all == text \o new
           longer == Append(pending, statement)
<1>1. n \in Nat /\ size \in Nat /\ more \in Nat /\ more >= 1 /\ m \in 0 .. size
  BY LeadPlace
<1>2. /\ all \in Seq(Alphabet) /\ Len(all) = size + more
      /\ \A i \in 1 .. size : all[i] = text[i]
      /\ \A i \in 1 .. more : all[size + i] = new[i]
  BY TextsJoined
<1>3. Len(longer) = n + 1 /\ longer[n + 1] = statement /\ \A k \in 1 .. n : longer[k] = pending[k]
  OBVIOUS
<1>4. PICK ends : Places(text, m, pending, FALSE, ends)
  BY DEF Holds, HoldsFrom
<1>5. /\ ends \in [0 .. n -> 0 .. size]
      /\ \A j, k \in 0 .. n : j <= k => ends[j] <= ends[k]
      /\ ends[0] = m /\ ends[n] = size
      /\ \A k \in 1 .. n : Stands(text, ends[k - 1] + 1, ends[k], pending[k], FALSE)
  BY <1>4 DEF Places
<1>6. Lead(all) = m
  <2>1. CASE text = <<>>
    <3>1. size = 0 /\ m = 0
      BY <2>1, LeadPlace
    <3>2. all[1] = new[1] /\ Len(all) >= 1
      <4>1. 1 \in 1 .. more /\ size + 1 = 1 /\ size + more >= 1
        BY <1>1, <3>1
      <4> HIDE DEF all, size, more
      <4> QED BY <1>2, <4>1
    <3> HIDE DEF all, m
    <3> QED BY <1>2, <3>1, <3>2 DEF Lead
  <2>2. CASE text # <<>>
    <3>1. 1 \in 1 .. size /\ size + more >= 1
      BY <1>1, <2>2
    <3> HIDE DEF all, size, more
    <3>2. all[1] = text[1] /\ Len(all) >= 1
      BY <1>2, <3>1
    <3>3. all # <<>>
      BY <3>2
    <3> QED BY <2>2, <3>2, <3>3 DEF Lead, m
  <2> QED BY <2>1, <2>2
<1> HIDE DEF n, size, more, m, all, longer
<1> DEFINE places == [k \in 0 .. n + 1 |-> IF k <= n THEN ends[k] ELSE size + more]
<1>7. \A k \in 0 .. n : k \in 0 .. n + 1 /\ places[k] = ends[k] /\ ends[k] \in 0 .. size
  BY <1>1, <1>5
<1>8. n + 1 \in 0 .. n + 1 /\ places[n + 1] = size + more
  BY <1>1
<1>9. \A k \in 0 .. n + 1 : k \in 0 .. n \/ k = n + 1
  BY <1>1
<1>10. places \in [0 .. n + 1 -> 0 .. Len(all)]
  <2>1. ASSUME NEW k \in 0 .. n + 1 PROVE places[k] \in 0 .. Len(all)
    <3> HIDE DEF places
    <3>1. CASE k \in 0 .. n
      <4>1. places[k] \in 0 .. size
        BY <1>7, <3>1
      <4> QED BY <1>1, <1>2, <4>1
    <3>2. CASE k = n + 1
      BY <1>1, <1>2, <1>8, <3>2
    <3> QED BY <1>9, <3>1, <3>2
  <2> QED BY <2>1
<1> HIDE DEF places
<1>11. \A j, k \in 0 .. n + 1 : j <= k => places[j] <= places[k]
  <2>1. ASSUME NEW j \in 0 .. n + 1, NEW k \in 0 .. n + 1, j <= k PROVE places[j] <= places[k]
    <3>1. CASE k \in 0 .. n
      <4>1. j \in 0 .. n
        BY <1>1, <2>1, <3>1
      <4> QED BY <1>5, <1>7, <2>1, <3>1, <4>1
    <3>2. CASE k = n + 1
      BY <1>1, <1>7, <1>8, <1>9, <3>2
    <3> QED BY <1>9, <3>1, <3>2
  <2> QED BY <2>1
<1>12. ASSUME NEW k \in 1 .. n PROVE Stands(all, places[k - 1] + 1, places[k], longer[k], end)
  <2> DEFINE a == ends[k - 1] + 1
             b == ends[k]
  <2>1. k - 1 \in 0 .. n /\ k \in 0 .. n
    BY <1>1
  <2>2. a \in 1 .. size + 1 /\ b \in 0 .. size
    BY <1>1, <1>7, <2>1
  <2>3. Stands(text, a, b, pending[k], FALSE)
    BY <1>5
  <2>4. places[k - 1] + 1 = a /\ places[k] = b
    BY <1>7, <2>1
  <2> HIDE DEF a, b
  <2>5. a + 0 = a /\ b + 0 = b /\ a + 0 >= 1 /\ 0 \in Int
    BY <1>1, <2>2
  <2>6. ASSUME NEW i \in a .. b PROVE all[i + 0] = text[i]
    <3>1. i \in 1 .. size /\ i + 0 = i
      BY <1>1, <2>2
    <3> QED BY <1>2, <3>1
  <2>7. Stands(all, a + 0, b + 0, pending[k], end)
    BY <2>3, <2>5, <2>6, StandsMoved
  <2> QED BY <1>3, <2>4, <2>5, <2>7
<1>13. Stands(all, places[n] + 1, places[n + 1], longer[n + 1], end)
  <2>1. Stands(new, 1, more, statement, end)
    BY <1>1 DEF Stands, more
  <2>2. 1 + size >= 1 /\ size \in Int
    BY <1>1
  <2>3. \A i \in 1 .. more : all[i + size] = new[i]
    <3>1. \A i \in 1 .. more : i + size = size + i
      BY <1>1
    <3> QED BY <1>2, <3>1
  <2>4. more + size = Len(all) /\ (end => end)
    BY <1>1, <1>2
  <2>5. Stands(all, 1 + size, more + size, statement, end)
    <3> DEFINE a == 1
    <3> HIDE DEF a
    <3>1. Stands(new, a, more, statement, end) /\ a + size >= 1 /\ \A i \in a .. more : all[i + size] = new[i]
      BY <2>1, <2>2, <2>3 DEF a
    <3>2. Stands(all, a + size, more + size, statement, end)
      BY <2>2, <2>4, <3>1, StandsMoved
    <3> QED BY <3>2 DEF a
  <2>6. places[n] + 1 = 1 + size /\ places[n + 1] = more + size
    <3>1. n \in 0 .. n
      BY <1>1
    <3>2. places[n] = size
      BY <1>5, <1>7, <3>1
    <3> QED BY <1>1, <1>8, <3>2
  <2> QED BY <1>3, <2>5, <2>6
<1>14. \A k \in 1 .. n + 1 : Stands(all, places[k - 1] + 1, places[k], longer[k], end)
  <2>1. ASSUME NEW k \in 1 .. n + 1 PROVE Stands(all, places[k - 1] + 1, places[k], longer[k], end)
    <3>1. CASE k \in 1 .. n
      BY <1>12, <3>1
    <3>2. CASE k = n + 1
      <4>1. k - 1 = n
        BY <1>1, <3>2
      <4> QED BY <1>13, <3>2, <4>1
    <3> QED BY <1>1, <3>1, <3>2
  <2> QED BY <2>1
<1>15. places[0] = m /\ places[n + 1] = Len(all)
  <2>1. 0 \in 0 .. n
    BY <1>1
  <2> QED BY <1>2, <1>5, <1>7, <1>8, <2>1
<1>16. Places(all, m, longer, end, places)
  BY <1>3, <1>10, <1>11, <1>14, <1>15 DEF Places
<1> QED BY <1>6, <1>16 DEF Holds, HoldsFrom, all, longer

\* The end of the input changes nothing for what was typed before.
LEMMA HoldsEnded ==
  ASSUME NEW text \in Seq(Alphabet), NEW pending \in Seq(Typable), Holds(text, pending, FALSE)
  PROVE  Holds(text, pending, TRUE)
<1> DEFINE m == Lead(text)
<1>1. PICK ends : Places(text, m, pending, FALSE, ends)
  BY DEF Holds, HoldsFrom
<1>2. Places(text, m, pending, TRUE, ends)
  BY <1>1 DEF Places, Stands
<1> QED BY <1>2 DEF Holds, HoldsFrom

LEMMA HoldsEmptyLine ==
  ASSUME NEW end
  PROVE  /\ Holds(<<>>, <<>>, end)
         /\ <<Newline>> \in Seq(Alphabet) /\ Holds(<<Newline>>, <<>>, end)
<1>1. ASSUME NEW text \in Seq(Alphabet), Lead(text) = Len(text) PROVE Holds(text, <<>>, end)
  <2> DEFINE m == Lead(text)
             ends == [k \in 0 .. 0 |-> m]
  <2>1. m \in 0 .. m /\ Len(text) = m
    BY <1>1
  <2> HIDE DEF m
  <2>2. /\ ends \in [0 .. 0 -> 0 .. m] /\ ends[0] = m
        /\ \A j, k \in 0 .. 0 : j <= k => ends[j] <= ends[k]
    <3>1. 0 .. 0 = {0} /\ m \in Nat
      BY <1>1 DEF m
    <3> QED BY <2>1, <3>1
  <2>3. Len(<<>>) = 0 /\ 1 .. 0 = {}
    OBVIOUS
  <2> HIDE DEF ends
  <2>4. Places(text, m, <<>>, end, ends)
    BY <2>1, <2>2, <2>3 DEF Places
  <2> QED BY <2>4 DEF Holds, HoldsFrom, m
<1>2. <<>> \in Seq(Alphabet) /\ Len(<<>>) = 0 /\ Lead(<<>>) = 0
  BY DEF Lead
<1>3. <<Newline>> \in Seq(Alphabet) /\ Len(<<Newline>>) = 1 /\ Lead(<<Newline>>) = 1
  <2>1. Newline \in Alphabet
    BY InnerSymbols
  <2>2. <<Newline>> \in Seq(Alphabet) /\ Len(<<Newline>>) = 1 /\ <<Newline>>[1] = Newline
    BY <2>1
  <2>3. <<Newline>> # <<>>
    OBVIOUS
  <2> QED BY <2>2, <2>3 DEF Lead
<1> QED BY <1>1, <1>2, <1>3

-----------------------------------------------------------------------------
(***************************************************************************)
(* The inductive invariant of EndsWhenTold: the terminal holds the         *)
(* statements typed and not yet read, in the order typed, so that what is  *)
(* read is one of them and "exit" is read only where it was typed.         *)
(***************************************************************************)

\* The statements typed and not yet read: all but the one about to be sent.
Pending == IF at = "send" /\ typed # <<>> THEN Tail(typed) ELSE typed

Texts ==
  /\ terminal \in Seq(Alphabet) /\ buffer \in Seq(Alphabet) /\ last \in Seq(Alphabet)
  /\ typed \in Seq(Typable)
  /\ ended \in BOOLEAN /\ line \in BOOLEAN

Bounds ==
  /\ sent <= MaxSent /\ answered <= sent
  /\ Len(typed) <= MaxTyped \/ (Len(typed) = MaxTyped + 1 /\ Exit \in ToSet(typed))

ExitLast == \A i \in 1 .. Len(typed) - 1 : typed[i] # Exit

Reading ==
  at \notin {"left", "failed"} =>
    /\ buffer # <<"exit">>
    /\ Holds(terminal, Pending, ended)
    /\ at = "send" /\ typed = <<>> => ended

Told == at = "left" /\ connection # "none" => typed = <<Exit>>

Input == Texts /\ Bounds /\ ExitLast /\ Reading /\ Told

LEMMA ExitIn ==
  ASSUME NEW pending \in Seq(Typable)
  PROVE  /\ Exit \in ToSet(pending) <=> \E i \in 1 .. Len(pending) : pending[i] = Exit
         /\ pending = <<Exit>> => Exit \in ToSet(pending)
<1>1. Exit \in ToSet(pending) <=> \E i \in 1 .. Len(pending) : pending[i] = Exit
  BY DEF ToSet
<1>2. ASSUME pending = <<Exit>> PROVE \E i \in 1 .. Len(pending) : pending[i] = Exit
  <2>1. Len(pending) = 1 /\ pending[1] = Exit /\ 1 \in 1 .. 1
    BY <1>2
  <2> QED BY <2>1
<1> QED BY <1>1, <1>2

LEMMA InputInit == Init => Input
<1> SUFFICES ASSUME Init PROVE Input
  OBVIOUS
<1>1. /\ terminal = <<>> /\ buffer = <<>> /\ last = <<>> /\ typed = <<>> /\ ended = FALSE /\ line = FALSE
      /\ at = "connect" /\ sent = 0 /\ answered = 0
  BY DEF Init
<1>2. Texts
  <2>1. <<>> \in Seq(Alphabet) /\ <<>> \in Seq(Typable)
    OBVIOUS
  <2>2. /\ terminal \in Seq(Alphabet) /\ buffer \in Seq(Alphabet) /\ last \in Seq(Alphabet)
        /\ typed \in Seq(Typable)
    BY <1>1, <2>1, Zenon
  <2>3. ended \in BOOLEAN /\ line \in BOOLEAN
    BY <1>1
  <2> QED BY <2>2, <2>3, Zenon DEF Texts
<1>3. Len(typed) = 0
  BY <1>1
<1>4. Bounds /\ ExitLast
  BY <1>1, <1>3, ClientAssumption DEF Bounds, ExitLast
<1>5. Reading
  <2>1. Pending = <<>> /\ Holds(terminal, <<>>, ended)
    BY <1>1, HoldsEmptyLine DEF Pending
  <2> QED BY <1>1, <2>1 DEF Reading
<1>6. Told
  BY <1>1 DEF Told
<1> QED BY <1>2, <1>4, <1>5, <1>6 DEF Input

\* Another statement is typed.
LEMMA TypedMore ==
  ASSUME IInv, Input, Typing, NEW new, Type(new),
         new.statement \in Typable, new.text \in Seq(Alphabet), Len(new.text) >= 1, new.text[1] # Newline,
         ended' \in BOOLEAN,
         Finished(new.text, 1, Len(new.text), new.statement) \/ (ended' /\ Unfinished(new.text, 1, Len(new.text))),
         sent + Len(typed) < MaxTyped \/ new.statement = Exit
  PROVE  Input'
<1> DEFINE s == new.statement
<1>1. /\ typed' = Append(typed, s) /\ terminal' = terminal \o new.text
      /\ UNCHANGED <<at, buffer, line, connection, reply, last, sent, answered, shown>>
  BY DEF Type
<1>2. /\ terminal \in Seq(Alphabet) /\ buffer \in Seq(Alphabet) /\ last \in Seq(Alphabet)
      /\ typed \in Seq(Typable) /\ ended = FALSE /\ line \in BOOLEAN
  BY DEF Input, Texts, Typing
<1>3. s \in Typable
  OBVIOUS
<1> HIDE DEF s
<1>4. /\ typed' \in Seq(Typable) /\ Len(typed) \in Nat /\ Len(typed') = Len(typed) + 1
      /\ typed'[Len(typed) + 1] = s /\ \A i \in 1 .. Len(typed) : typed'[i] = typed[i]
  BY <1>1, <1>2, <1>3
<1>5. \A i \in 1 .. Len(typed) : typed[i] # Exit
  <2>1. Exit \notin ToSet(typed)
    BY DEF Typing
  <2> QED BY <1>2, <2>1, ExitIn
<1>6. terminal' \in Seq(Alphabet)
  BY <1>1, <1>2, TextsJoined
<1>7. Texts'
  BY <1>1, <1>2, <1>4, <1>6 DEF Texts
<1>8. Bounds'
  <2>1. sent \in Nat /\ sent <= MaxSent /\ answered <= sent
    BY DEF IInv, Counters, Input, Bounds
  <2>2. Len(typed') <= MaxTyped \/ (Len(typed') = MaxTyped + 1 /\ Exit \in ToSet(typed'))
    <3>1. CASE sent + Len(typed) < MaxTyped
      BY <1>4, <2>1, <3>1, ClientAssumption
    <3>2. CASE s = Exit
      <4>1. Len(typed) <= MaxTyped
        <5>1. Exit \notin ToSet(typed)
          BY DEF Typing
        <5> QED BY <5>1 DEF Input, Bounds
      <4>2. Len(typed) + 1 \in 1 .. Len(typed')
        BY <1>4
      <4>3. Exit \in ToSet(typed')
        BY <1>4, <3>2, <4>2, ExitIn
      <4> QED BY <1>4, <4>1, <4>3, ClientAssumption
    <3> QED BY <3>1, <3>2 DEF s
  <2> QED BY <1>1, <2>1, <2>2 DEF Bounds
<1>9. ExitLast'
  <2>1. ASSUME NEW i \in 1 .. Len(typed') - 1 PROVE typed'[i] # Exit
    <3>1. i \in 1 .. Len(typed)
      BY <1>4
    <3> QED BY <1>4, <1>5, <3>1
  <2> QED BY <2>1 DEF ExitLast
<1>10. Reading'
  <2>1. SUFFICES ASSUME at \notin {"left", "failed"}
        PROVE  buffer # <<"exit">> /\ Holds(terminal', Pending', ended') /\ (at = "send" /\ typed' = <<>> => ended')
    BY <1>1 DEF Reading
  <2>2. buffer # <<"exit">> /\ Holds(terminal, Pending, FALSE) /\ (at = "send" => typed # <<>>)
    BY <1>2, <2>1 DEF Input, Reading
  <2>3. Pending \in Seq(Typable) /\ Pending' = Append(Pending, s)
    <3>1. typed' # <<>>
      BY <1>4
    <3>2. CASE at = "send"
      <4>1. typed # <<>>
        BY <2>2, <3>2
      <4>2. Tail(typed) \in Seq(Typable) /\ Tail(Append(typed, s)) = Append(Tail(typed), s)
        BY <1>2, <1>3, <4>1
      <4> QED BY <1>1, <3>1, <3>2, <4>1, <4>2 DEF Pending
    <3>3. CASE at # "send"
      BY <1>1, <1>2, <3>3 DEF Pending
    <3> QED BY <3>2, <3>3
  <2>4. Holds(terminal \o new.text, Append(Pending, s), ended')
    BY <1>2, <1>3, <2>2, <2>3, HoldsAppend DEF s
  <2>5. typed' # <<>>
    BY <1>4
  <2> QED BY <1>1, <2>2, <2>3, <2>4, <2>5
<1>11. Told'
  <2>1. ASSUME at = "left", connection # "none" PROVE FALSE
    <3>1. typed = <<Exit>>
      BY <2>1 DEF Input, Told
    <3>2. Exit \in ToSet(typed)
      BY <1>2, <3>1, ExitIn
    <3> QED BY <3>2 DEF Typing
  <2> QED BY <1>1, <2>1 DEF Told
<1> QED BY <1>7, <1>8, <1>9, <1>10, <1>11 DEF Input

\* What one call of read_input() reads.
LEMMA InputRead ==
  ASSUME IInv, Input, at = "prompt", read_input
  PROVE  /\ terminal' \in Seq(Alphabet) /\ buffer' \in Seq(Alphabet)
         /\ \/ typed = <<>> /\ ended /\ terminal' = terminal /\ buffer' = buffer
            \/ buffer' = <<>> /\ Holds(terminal', typed, ended)
            \/ /\ typed # <<>> /\ buffer' # <<>> /\ Holds(terminal', Tail(typed), ended)
               /\ buffer' = <<"exit">> => typed[1] = Exit
<1>1. terminal \in Seq(Alphabet) /\ buffer \in Seq(Alphabet) /\ typed \in Seq(Typable)
  BY DEF Input, Texts
<1>2. Holds(terminal, typed, ended)
  BY DEF Input, Reading, Pending
<1>3. \/ terminal = <<>> /\ ended /\ UNCHANGED <<terminal, buffer>>
      \/ terminal # <<>> /\ terminal[1] = Newline /\ terminal' = Tail(terminal) /\ buffer' = <<>>
      \/ /\ terminal # <<>> /\ terminal[1] # Newline
         /\ terminal' = ReadStatement(terminal).left /\ buffer' = ReadStatement(terminal).read
  <2>1. terminal # <<>> => Head(terminal) = terminal[1]
    BY <1>1
  <2>2. \/ terminal = <<>> /\ ended /\ UNCHANGED <<terminal, buffer>>
        \/ terminal # <<>> /\ Head(terminal) = Newline /\ terminal' = Tail(terminal) /\ buffer' = <<>>
        \/ /\ terminal # <<>> /\ Head(terminal) # Newline
           /\ terminal' = ReadStatement(terminal).left /\ buffer' = ReadStatement(terminal).read
    BY Zenon DEF read_input, Newline
  <2> QED BY <2>1, <2>2
<1>4. HoldsFrom(terminal, Lead(terminal), typed, ended) /\ Lead(terminal) \in 0 .. Len(terminal)
  BY <1>1, <1>2, LeadPlace DEF Holds
<1>5. CASE terminal = <<>> /\ ended /\ UNCHANGED <<terminal, buffer>>
  <2>1. Len(terminal) = 0 /\ Lead(terminal) = 0
    BY <1>1, <1>5, LeadPlace
  <2>2. typed = <<>>
    BY <1>1, <1>4, <2>1, HoldsNone
  <2> QED BY <1>1, <1>5, <2>2
<1>6. CASE terminal # <<>> /\ terminal[1] = Newline /\ terminal' = Tail(terminal) /\ buffer' = <<>>
  <2>1. Lead(terminal) = 1
    BY <1>6 DEF Lead
  <2>2. Rest(terminal, 1, Tail(terminal))
    <3> DEFINE n == Len(terminal)
    <3>1. /\ n \in Nat /\ n >= 1 /\ Tail(terminal) \in Seq(Alphabet) /\ Len(Tail(terminal)) = n - 1
          /\ \A j \in 1 .. n - 1 : Tail(terminal)[j] = terminal[1 + j]
      BY <1>1, <1>6
    <3> QED BY <3>1 DEF Rest
  <2>3. Holds(Tail(terminal), typed, ended)
    BY <1>1, <1>4, <2>1, <2>2, HoldsShift
  <2>4. buffer' \in Seq(Alphabet) /\ terminal' \in Seq(Alphabet)
    BY <1>6, <2>2 DEF Rest
  <2> QED BY <1>6, <2>3, <2>4
<1>7. CASE /\ terminal # <<>> /\ terminal[1] # Newline
           /\ terminal' = ReadStatement(terminal).left /\ buffer' = ReadStatement(terminal).read
  <2>1. Lead(terminal) = 0 /\ Len(terminal) \in Nat /\ Len(terminal) # 0
    BY <1>1, <1>7, LeadPlace
  <2>2. typed # <<>>
    BY <1>1, <1>4, <2>1, HoldsNone
  <2>3. PICK to \in 0 + 1 .. Len(terminal) :
          Stands(terminal, 0 + 1, to, typed[1], ended) /\ HoldsFrom(terminal, to, Tail(typed), ended)
    BY <1>1, <1>4, <2>1, <2>2, HoldsTail
  <2>4. to \in 1 .. Len(terminal) /\ to \in 0 .. Len(terminal) /\ Stands(terminal, 1, to, typed[1], ended)
    BY <2>1, <2>3
  <2>5. /\ Rest(terminal, to, terminal')
        /\ buffer' \in Seq(Alphabet) /\ buffer' # <<>> /\ (buffer' = <<"exit">> => typed[1] = Exit)
    <3>1. CASE Finished(terminal, 1, to, typed[1])
      BY <1>1, <1>7, <2>4, <3>1, FinishedRead
    <3>2. CASE Unfinished(terminal, 1, to)
      <4>1. to = Len(terminal) /\ Unfinished(terminal, 1, Len(terminal))
        BY <3>2 DEF Unfinished
      <4> QED BY <1>1, <1>7, <4>1, UnfinishedRead
    <3> QED BY <2>4, <3>1, <3>2 DEF Stands
  <2>6. Tail(typed) \in Seq(Typable)
    BY <1>1, <2>2
  <2>7. Holds(terminal', Tail(typed), ended)
    BY <1>1, <2>3, <2>4, <2>5, <2>6, HoldsShift
  <2>8. terminal' \in Seq(Alphabet)
    BY <2>5 DEF Rest
  <2> QED BY <2>2, <2>5, <2>7, <2>8
<1> QED BY <1>3, <1>5, <1>6, <1>7

LEMMA InputNext == IInv /\ Input /\ [Next]_vars => Input'
<1> SUFFICES ASSUME IInv, Input, [Next]_vars PROVE Input'
  OBVIOUS
<1>1. /\ terminal \in Seq(Alphabet) /\ buffer \in Seq(Alphabet) /\ last \in Seq(Alphabet)
      /\ typed \in Seq(Typable) /\ ended \in BOOLEAN /\ line \in BOOLEAN
      /\ sent <= MaxSent /\ answered <= sent /\ sent \in Nat /\ answered \in Nat
  BY DEF IInv, Counters, Input, Texts, Bounds
<1>2. ASSUME UNCHANGED <<terminal, ended, at, buffer, line, typed, last, sent>>,
             answered' <= sent, connection' # "none" => connection # "none"
      PROVE  Input'
  <2>1. Texts' /\ ExitLast' /\ Told' /\ Bounds'
    BY <1>2 DEF Input, Texts, ExitLast, Told, Bounds
  <2>2. Pending' = Pending
    BY <1>2 DEF Pending
  <2>3. Reading'
    BY <1>2, <2>2 DEF Input, Reading
  <2> QED BY <2>1, <2>3 DEF Input
<1>3. ASSUME UNCHANGED <<terminal, ended, buffer, typed, last, sent, answered>>, line' \in BOOLEAN,
             at # "send", at' # "send", at \in {"left", "failed"} => at' \in {"left", "failed"},
             at' = "left" => at = "left" \/ connection' = "none", at = "left" => connection' = connection
      PROVE  Input'
  <2>1. Texts' /\ ExitLast' /\ Bounds'
    BY <1>3 DEF Input, Texts, ExitLast, Bounds
  <2>2. Told'
    BY <1>3 DEF Input, Told
  <2>3. Pending' = Pending
    BY <1>3 DEF Pending
  <2>4. Reading'
    BY <1>3, <2>3 DEF Input, Reading
  <2> QED BY <2>1, <2>2, <2>4 DEF Input
<1>4. CASE UNCHANGED vars
  BY <1>1, <1>2, <1>4 DEF vars
<1>5. CASE TypeStatement
  <2>1. PICK new \in UsualLines \cup PlainLines : Type(new)
    BY <1>5 DEF TypeStatement
  <2>2. Typing /\ sent + Len(typed) < MaxTyped /\ ended' = ended
    BY <1>5 DEF TypeStatement, MayType
  <2>3. new \in UsualLines \cup PlainLines \cup OddLines
    OBVIOUS
  <2> QED BY <1>1, <2>1, <2>2, <2>3, LineText, TypedMore
<1>6. CASE TypeOdd
  <2>1. PICK new \in OddLines : Type(new)
    BY <1>6 DEF TypeOdd
  <2>2. Typing /\ sent + Len(typed) = MaxTyped - 1 /\ ended' = ended
    BY <1>6 DEF TypeOdd, TypesLast
  <2>3. sent + Len(typed) < MaxTyped
    BY <2>2, ClientAssumption
  <2>4. new \in UsualLines \cup PlainLines \cup OddLines
    OBVIOUS
  <2> QED BY <1>1, <2>1, <2>2, <2>3, <2>4, LineText, TypedMore
<1>7. CASE TypeExit
  <2> DEFINE new == [statement |-> Exit, text |-> <<"exit", Semicolon, Newline>>]
  <2>1. Typing /\ Type(new) /\ ended' = ended
    BY <1>7, Zenon DEF TypeExit, Semicolon, Newline
  <2>2. new.statement = Exit /\ new.text = <<"exit", Semicolon, Newline>> /\ Exit \in Typable
    BY DEF Typable
  <2> HIDE DEF new
  <2>3. /\ new.text \in Seq(Alphabet) /\ Len(new.text) >= 1 /\ new.text[1] # Newline
        /\ Finished(new.text, 1, Len(new.text), Exit)
    BY <2>2, ExitText
  <2> QED BY <1>1, <2>1, <2>2, <2>3, TypedMore
<1>8. CASE TypeLast
  <2> DEFINE new == Line(Plain, " ", <<>>)
  <2>1. Typing /\ sent + Len(typed) < MaxTyped /\ Type(new) /\ ended' = TRUE
    BY <1>8, Zenon DEF TypeLast, MayType
  <2>2. /\ new.statement \in Typable
        /\ new.text \in Seq(Alphabet) /\ Len(new.text) >= 1 /\ new.text[1] # Newline
        /\ Unfinished(new.text, 1, Len(new.text))
    BY LastText, Zenon
  <2> HIDE DEF new
  <2> QED BY <2>1, <2>2, TypedMore
<1>9. CASE TypeNothing
  <2>1. /\ ~ended /\ ended' = TRUE
        /\ UNCHANGED <<terminal, at, buffer, line, connection, reply, typed, last, sent, answered, shown>>
    BY <1>9 DEF TypeNothing, Typing
  <2>2. Texts' /\ ExitLast' /\ Told' /\ Bounds'
    BY <2>1 DEF Input, Texts, ExitLast, Told, Bounds
  <2>3. Pending' = Pending /\ Pending \in Seq(Typable)
    <3>1. typed # <<>> => Tail(typed) \in Seq(Typable)
      BY <1>1
    <3> QED BY <1>1, <2>1, <3>1 DEF Pending
  <2>4. Reading'
    <3>1. SUFFICES ASSUME at \notin {"left", "failed"} PROVE buffer # <<"exit">> /\ Holds(terminal, Pending, TRUE)
      BY <2>1, <2>3 DEF Reading
    <3>2. buffer # <<"exit">> /\ Holds(terminal, Pending, FALSE)
      BY <1>1, <2>1, <3>1 DEF Input, Reading
    <3> QED BY <1>1, <2>3, <3>2, HoldsEnded
  <2> QED BY <2>2, <2>4 DEF Input
<1>10. CASE TypeEmptyLine
  <2>1. /\ terminal = <<>> /\ terminal' = <<Newline>>
        /\ UNCHANGED <<ended, at, buffer, line, connection, reply, typed, last, sent, answered, shown>>
    BY <1>10, Zenon DEF TypeEmptyLine, Newline
  <2>2. Texts' /\ ExitLast' /\ Told' /\ Bounds'
    <3>1. terminal' \in Seq(Alphabet)
      BY <2>1, HoldsEmptyLine
    <3>2. ExitLast' /\ Told' /\ Bounds'
      BY <2>1 DEF Input, ExitLast, Told, Bounds
    <3>3. Texts'
      BY <1>1, <2>1, <3>1 DEF Texts
    <3> QED BY <3>2, <3>3
  <2>3. Pending' = Pending /\ Pending \in Seq(Typable)
    <3>1. typed # <<>> => Tail(typed) \in Seq(Typable)
      BY <1>1
    <3> QED BY <1>1, <2>1, <3>1 DEF Pending
  <2>4. Reading'
    <3>1. SUFFICES ASSUME at \notin {"left", "failed"}
          PROVE  buffer # <<"exit">> /\ Holds(terminal', Pending, ended) /\ (at = "send" /\ typed = <<>> => ended)
      BY <2>1, <2>3 DEF Reading
    <3>2. buffer # <<"exit">> /\ Holds(terminal, Pending, ended) /\ (at = "send" /\ typed = <<>> => ended)
      BY <3>1 DEF Input, Reading
    <3>3. Pending = <<>>
      <4>1. Len(terminal) = 0 /\ Lead(terminal) = 0 /\ Lead(terminal) \in 0 .. Len(terminal)
        BY <1>1, <2>1, LeadPlace
      <4>2. HoldsFrom(terminal, Lead(terminal), Pending, ended)
        BY <3>2 DEF Holds
      <4> QED BY <1>1, <2>3, <4>1, <4>2, HoldsNone
    <3>4. Holds(<<Newline>>, <<>>, ended)
      BY HoldsEmptyLine
    <3> QED BY <2>1, <3>2, <3>3, <3>4
  <2> QED BY <2>2, <2>4 DEF Input
<1>11. CASE Answer
  <2>1. /\ answered < sent /\ answered' = answered + 1
        /\ UNCHANGED <<terminal, ended, at, buffer, line, connection, typed, last, sent, shown>>
    BY <1>11 DEF Answer
  <2>2. answered' <= sent
    BY <1>1, <2>1
  <2> QED BY <1>2, <2>1, <2>2
<1>12. CASE LoseConnection
  <2>1. /\ connection = "open"
        /\ UNCHANGED <<terminal, ended, at, buffer, line, typed, last, sent, answered, shown>>
    BY <1>12 DEF LoseConnection
  <2> QED BY <1>1, <1>2, <2>1
<1>13. CASE Connect
  <2>1. /\ at = "connect" /\ (at' = "prompt" \/ (connection' = "none" /\ at' = "left"))
        /\ UNCHANGED <<terminal, ended, buffer, line, reply, typed, last, sent, answered, shown>>
    BY <1>13 DEF Connect
  <2> QED BY <1>1, <1>3, <2>1
<1>14. CASE Receive
  <2>1. /\ at = "receive" /\ line' = TRUE /\ at' = "prompt"
        /\ UNCHANGED <<terminal, ended, buffer, connection, typed, last, sent, answered>>
    BY <1>14 DEF Receive
  <2> QED BY <1>3, <2>1
<1>15. CASE ReceiveNothing \/ ReceiveError
  <2>1. /\ at = "receive" /\ at' \in {"prompt", "failed"}
        /\ UNCHANGED <<terminal, ended, buffer, line, typed, last, sent, answered>>
    BY <1>15 DEF ReceiveNothing, ReceiveError
  <2> QED BY <1>1, <1>3, <2>1
<1>16. CASE Send
  <2>1. /\ at = "send" /\ sent < MaxSent /\ last' = buffer /\ sent' = sent + 1
        /\ typed' = (IF typed = <<>> THEN <<>> ELSE Tail(typed))
        /\ at' \in {"receive", "failed"}
        /\ UNCHANGED <<terminal, ended, buffer, line, answered>>
    BY <1>16 DEF Send
  <2>2. /\ typed' = Pending /\ Pending' = Pending
    BY <1>1, <2>1 DEF Pending
  <2>3. /\ typed' \in Seq(Typable) /\ Len(typed') \in Nat /\ Len(typed) \in Nat
        /\ typed = <<>> => Len(typed') = 0
        /\ typed # <<>> => Len(typed') = Len(typed) - 1
        /\ \A i \in 1 .. Len(typed') : typed'[i] = typed[i + 1]
    <3>1. CASE typed = <<>>
      <4>1. typed' = <<>> /\ <<>> \in Seq(Typable) /\ Len(<<>>) = 0
        BY <2>1, <3>1
      <4> QED BY <1>1, <3>1, <4>1
    <3>2. CASE typed # <<>>
      <4>1. typed' = Tail(typed)
        BY <2>1, <3>2
      <4>2. /\ Tail(typed) \in Seq(Typable) /\ Len(Tail(typed)) = Len(typed) - 1 /\ Len(typed) \in Nat
            /\ Len(typed) >= 1 /\ \A i \in 1 .. Len(Tail(typed)) : Tail(typed)[i] = typed[i + 1]
        BY <1>1, <3>2
      <4> QED BY <3>2, <4>1, <4>2
    <3> QED BY <3>1, <3>2
  <2>4. Texts'
    BY <1>1, <2>1, <2>3 DEF Texts
  <2>5. Bounds'
    <3>1. Len(typed') <= MaxTyped
      BY <2>3, ClientAssumption DEF Input, Bounds
    <3> QED BY <1>1, <2>1, <3>1, ClientAssumption DEF Bounds
  <2>6. ExitLast'
    <3>1. ASSUME NEW i \in 1 .. Len(typed') - 1 PROVE typed'[i] # Exit
      <4>1. i \in 1 .. Len(typed') /\ i + 1 \in 1 .. Len(typed) - 1
        BY <2>3
      <4>2. typed[i + 1] # Exit
        BY <4>1 DEF Input, ExitLast
      <4> QED BY <2>3, <4>1, <4>2
    <3> QED BY <3>1 DEF ExitLast
  <2>7. Reading' /\ Told'
    BY <2>1, <2>2 DEF Input, Reading, Told
  <2> QED BY <2>4, <2>5, <2>6, <2>7 DEF Input
<1>17. CASE Prompt
  <2>1. /\ at = "prompt" /\ read_input
        /\ at' = (IF buffer' = <<"exit">> THEN "left" ELSE IF buffer' = <<>> THEN "prompt" ELSE "send")
        /\ UNCHANGED <<ended, line, connection, reply, typed, last, sent, answered, shown>>
    BY <1>17, Zenon DEF Prompt
  <2>2. /\ terminal' \in Seq(Alphabet) /\ buffer' \in Seq(Alphabet)
        /\ \/ typed = <<>> /\ ended /\ terminal' = terminal /\ buffer' = buffer
           \/ buffer' = <<>> /\ Holds(terminal', typed, ended)
           \/ /\ typed # <<>> /\ buffer' # <<>> /\ Holds(terminal', Tail(typed), ended)
              /\ buffer' = <<"exit">> => typed[1] = Exit
    BY <2>1, InputRead
  <2>3. Texts' /\ Bounds' /\ ExitLast'
    BY <1>1, <2>1, <2>2 DEF Input, Texts, Bounds, ExitLast
  <2>4. buffer # <<"exit">> /\ Holds(terminal, typed, ended)
    BY <2>1 DEF Input, Reading, Pending
  <2>5. <<>> # <<"exit">>
    OBVIOUS
  <2>6. CASE typed = <<>> /\ ended /\ terminal' = terminal /\ buffer' = buffer
    <3>1. at' \in {"prompt", "send"} /\ buffer' # <<"exit">>
      BY <2>1, <2>4, <2>6
    <3>2. Pending' = typed
      BY <2>1, <2>6 DEF Pending
    <3>3. Reading' /\ Told'
      BY <2>1, <2>4, <2>6, <3>1, <3>2 DEF Reading, Told
    <3> QED BY <2>3, <3>3 DEF Input
  <2>7. CASE buffer' = <<>> /\ Holds(terminal', typed, ended)
    <3>1. at' = "prompt" /\ buffer' # <<"exit">>
      BY <2>1, <2>5, <2>7
    <3>2. Pending' = typed
      BY <2>1, <3>1 DEF Pending
    <3>3. Reading' /\ Told'
      BY <2>1, <2>7, <3>1, <3>2 DEF Reading, Told
    <3> QED BY <2>3, <3>3 DEF Input
  <2>8. CASE /\ typed # <<>> /\ buffer' # <<>> /\ Holds(terminal', Tail(typed), ended)
             /\ buffer' = <<"exit">> => typed[1] = Exit
    <3>1. CASE buffer' = <<"exit">>
      <4>1. typed[1] = Exit /\ at' = "left"
        BY <2>1, <2>8, <3>1
      <4>2. Len(typed) = 1
        <5>1. Len(typed) \in Nat /\ Len(typed) >= 1
          BY <1>1, <2>8
        <5>2. 1 \notin 1 .. Len(typed) - 1
          BY <4>1 DEF Input, ExitLast
        <5> QED BY <5>1, <5>2
      <4>3. typed = <<Exit>>
        BY <1>1, <4>1, <4>2
      <4>4. Reading' /\ Told'
        BY <2>1, <4>1, <4>3 DEF Reading, Told
      <4> QED BY <2>3, <4>4 DEF Input
    <3>2. CASE buffer' # <<"exit">>
      <4>1. at' = "send"
        BY <2>1, <2>8, <3>2
      <4>2. Pending' = Tail(typed) /\ typed' # <<>>
        BY <2>1, <2>8, <4>1 DEF Pending
      <4>3. Reading' /\ Told'
        BY <2>1, <2>8, <3>2, <4>1, <4>2 DEF Reading, Told
      <4> QED BY <2>3, <4>3 DEF Input
    <3> QED BY <3>1, <3>2
  <2> QED BY <2>2, <2>6, <2>7, <2>8
<1> QED BY <1>4, <1>5, <1>6, <1>7, <1>8, <1>9, <1>10, <1>11, <1>12, <1>13, <1>14, <1>15, <1>16, <1>17
        DEF Next, User, ClientStep

LEMMA InputInvariance == Spec => [](IInv /\ Input)
BY InitIInv, NextIInv, InputInit, InputNext, PTL DEF Spec

(* The state of the client: MaxTyped statements and exit are all that is   *)
(* typed and not yet sent, and no more answers are printed than objects    *)
(* were sent, whether the connection holds or not.                         *)
THEOREM TypeCorrect == Spec => []TypeOK
<1>1. ASSUME IInv, Input PROVE TypeOK
  <2>1. /\ terminal \in Seq(Alphabet) /\ buffer \in Seq(Alphabet) /\ last \in Seq(Alphabet)
        /\ typed \in Seq(Typable) /\ ended \in BOOLEAN /\ line \in BOOLEAN
    BY <1>1 DEF Input, Texts
  <2>2. Len(terminal) \in Nat /\ Len(buffer) \in Nat /\ Len(last) \in Nat /\ Len(typed) \in Nat
    BY <2>1
  <2>3. Len(typed) \in 0 .. MaxTyped + 1
    BY <1>1, <2>2, ClientAssumption DEF Input, Bounds
  <2>4. sent \in 0 .. MaxSent /\ answered \in 0 .. MaxSent /\ shown \in 0 .. MaxSent
    <3>1. /\ sent \in Nat /\ answered \in Nat /\ shown \in Nat /\ sent <= MaxSent /\ answered <= sent
          /\ shown = sent \/ sent = shown + 1
      BY <1>1 DEF Input, Bounds, IInv, Counters, OneAtATime
    <3> QED BY <3>1, ClientAssumption
  <2>5. /\ at \in {"connect", "prompt", "send", "receive", "left", "failed"}
        /\ connection \in {"none", "open", "closed", "reset"} /\ reply \in BOOLEAN
    BY <1>1 DEF IInv, OneAtATime, AnswersCounted
  <2> QED BY <2>1, <2>2, <2>3, <2>4, <2>5 DEF TypeOK
<1> QED BY <1>1, InputInvariance, PTL

(* However the statements are spelled and spaced and however many lines    *)
(* are typed ahead, the client never takes a piece of one for exit: it     *)
(* leaves only when exit itself was typed and every statement before it    *)
(* was sent, and it fails only once the connection is lost.                *)
THEOREM EndsOnlyWhenTold == Spec => []EndsWhenTold
<1>1. IInv /\ Input => EndsWhenTold
  BY DEF IInv, OneAtATime, Input, Told, EndsWhenTold
<1> QED BY <1>1, InputInvariance, PTL
=============================================================================
