-------------------------------- MODULE Lexer --------------------------------
(***************************************************************************)
(* The lexer of toySQL (class Lexer, src/src/connection/protocol.cpp):     *)
(* nextToken() reads one token of a text from a position on.               *)
(*                                                                         *)
(* A text is a sequence of symbols.  Letters and digits come in runs: a    *)
(* symbol of Letters is a word or a piece of one, a symbol of Digits a     *)
(* number.  Every other symbol is one character.                           *)
(***************************************************************************)
EXTENDS Integers, SequencesExt

Lowercase == [INT |-> "int", FROM |-> "from"]
Keywords == {"CREATE", "TABLE", "INT", "TEXT", "INSERT", "INTO", "VALUES", "SELECT",
             "FROM", "WHERE", "UPDATE", "SET", "DELETE"}
Letters == Keywords \cup {Lowercase[w] : w \in DOMAIN Lowercase} \cup {"id", "exit"}
Digits == {"1"}
Spaces == {" ", "\n"}
Quote == "\""

\* The characters that are tokens, with the value nextToken() gives them:
\* for "=" it is a quote.
Punctuation ==
  [c \in {"(", ")", "*", ",", "="} |->
     CASE c = "(" -> [type |-> "OpenBracket", value |-> <<c>>]
       [] c = ")" -> [type |-> "CloseBracket", value |-> <<c>>]
       [] c = "*" -> [type |-> "Any", value |-> <<c>>]
       [] c = "," -> [type |-> "Comma", value |-> <<c>>]
       [] c = "=" -> [type |-> "Equal", value |-> <<Quote>>]]

\* The position of the first symbol from pos on that is not in the run, and
\* of the first that is c; one past the end if there is none.
EndOfRun(text, pos, run) ==
  CHOOSE q \in pos .. Len(text) + 1 :
    /\ q > Len(text) \/ text[q] \notin run
    /\ \A r \in pos .. q - 1 : text[r] \in run

Find(text, pos, c) ==
  CHOOSE q \in pos .. Len(text) + 1 :
    /\ q > Len(text) \/ text[q] = c
    /\ \A r \in pos .. q - 1 : text[r] # c

Token(type, value) == [type |-> type, value |-> value]

\* A token, and the position after it.
Read(token, pos) == [token |-> token, pos |-> pos]

number(text, start) ==
  LET end == EndOfRun(text, start, Digits)
  IN Read(Token("Number", SubSeq(text, start, end - 1)), end)

\* Mutant: a word stops at its first digit.
WordOfLetters(text, start) ==
  LET end == EndOfRun(text, start, Letters)
  IN Read(Token("Word", SubSeq(text, start, end - 1)), end)

\* Letters, then digits.
word(text, start) ==
  LET letters == EndOfRun(text, start, Letters)
      end     == EndOfRun(text, letters, Digits)
  IN Read(Token("Word", SubSeq(text, start, end - 1)), end)

\* Mutant: what follows the opening quote is a literal, closed or not.
LiteralUnclosed(text, start) ==
  LET end == Find(text, start + 1, Quote)
  IN Read(Token("Literal", SubSeq(text, start + 1, end - 1)), IF end > Len(text) THEN end ELSE end + 1)

\* From one quote to the next; without a next one the rest is invalid.
literal(text, start) ==
  LET end == Find(text, start + 1, Quote)
  IN IF end > Len(text) THEN Read(Token("Invalid", <<>>), end)
     ELSE Read(Token("Literal", SubSeq(text, start + 1, end - 1)), end + 1)

nextToken(text, pos) ==
  LET start == EndOfRun(text, pos, Spaces)
  IN IF start > Len(text) THEN Read(Token("END", <<>>), start)
     ELSE LET current == text[start] IN
          CASE current \in Digits -> number(text, start)
            [] current \in Letters -> word(text, start)
            [] current \in DOMAIN Punctuation -> Read(Punctuation[current], start + 1)
            [] current = Quote -> literal(text, start)
            [] OTHER -> Read(Token("Invalid", <<current>>), start + 1)
=============================================================================
