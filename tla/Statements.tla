------------------------------ MODULE Statements ------------------------------
(***************************************************************************)
(* The five statements of toySQL and the object each stands for, as forms: *)
(* sequences of parts, each a class of tokens and the field of the object  *)
(* its values belong to.  This is what the parser is checked against; it   *)
(* says nothing of how a statement is recognized.                          *)
(***************************************************************************)
EXTENDS Lexer

CONSTANT MaxList   \* bound: columns, values or pairs in a list that is typed

ASSUME StatementsAssumption == MaxList \in Nat \ {0}

Part(class, field) == [class |-> class, field |-> field]
Just(class) == <<Part(class, "none")>>
Into(class, field) == <<Part(class, field)>>

\* n times the same parts, separated by commas.
List(parts, n) ==
  LET period == Len(parts) + 1
  IN [i \in 1 .. n * period - 1 |->
        IF i % period = 0 THEN Part("Comma", "none") ELSE parts[i % period]]

Equation(field) == Into("Word", field) \o Just("Equal") \o Into("value", field)
Where(n) == IF n = 0 THEN <<>> ELSE Just("WHERE") \o List(Equation("where"), n)
Bracketed(parts) == Just("OpenBracket") \o parts \o Just("CloseBracket")

Form(op, fields, parts) == [op |-> op, fields |-> fields, parts |-> parts]

CreateForm(n) ==
  Form("create", {"columns"}, Just("CREATE") \o Just("TABLE") \o Into("Word", "table_name")
    \o Bracketed(List(Into("Word", "columns") \o Into("type", "columns"), n)))

InsertForm(n) ==
  Form("insert", {"values"}, Just("INSERT") \o Just("INTO") \o Into("Word", "table_name")
    \o Just("VALUES") \o Bracketed(List(Into("value", "values"), n)))

SelectForm(columns, n) ==
  Form("select", {"columns", "where"}, Just("SELECT") \o columns \o Just("any FROM")
    \o Into("Word", "table_name") \o Where(n))

UpdateForm(n, m) ==
  Form("update", {"values", "where"}, Just("UPDATE") \o Into("Word", "table_name")
    \o Just("SET") \o List(Equation("values"), n) \o Where(m))

DeleteForm(n) ==
  Form("delete", {"where"}, Just("DELETE") \o Just("FROM") \o Into("Word", "table_name") \o Where(n))

\* The forms with lists of certain lengths, and lists after WHERE of others.
FormsOf(Lists, Wheres) ==
  {CreateForm(n) : n \in Lists} \cup {InsertForm(n) : n \in Lists}
  \cup {SelectForm(List(Into("Word", "columns"), n), m) : n \in Lists, m \in Wheres}
  \cup {SelectForm(Into("Any", "columns"), m) : m \in Wheres}
  \cup {UpdateForm(n, m) : n \in Lists, m \in Wheres}
  \cup {DeleteForm(n) : n \in Wheres}

\* The forms of what is typed; one token changed may join two lists.
UsualForms == FormsOf(1 .. MaxList, 0 .. MaxList)
Forms == FormsOf(1 .. 2 * MaxList, 0 .. 2 * MaxList)

-----------------------------------------------------------------------------
Capitals(text) ==
  IF \E w \in DOMAIN Lowercase : Lowercase[w] = text
  THEN CHOOSE w \in DOMAIN Lowercase : Lowercase[w] = text
  ELSE text

\* Keywords are words in any case; a literal FROM stands for the keyword in
\* a SELECT, where the parser does not look at the type.
IsKeyword(token, keyword) ==
  Len(token.value) = 1 /\ Capitals(token.value[1]) = keyword

Is(token, class) ==
  CASE class \in Keywords  -> token.type = "Word" /\ IsKeyword(token, class)
    [] class = "any FROM"  -> token.type \in {"Word", "Literal"} /\ IsKeyword(token, "FROM")
    [] class = "type"      -> token.type = "Word" /\ \E k \in {"INT", "TEXT"} : IsKeyword(token, k)
    [] class = "value"     -> token.type \in {"Number", "Literal"}
    [] OTHER               -> token.type = class

Fits(statement, form) ==
  /\ Len(statement) = Len(form.parts)
  /\ \A i \in DOMAIN statement : Is(statement[i], form.parts[i].class)

\* What the statement says for a field, in the order typed; the types of
\* columns are spelled in capitals.
Says(statement, form, field) ==
  LET places == SelectSeq([i \in DOMAIN statement |-> i], LAMBDA i : form.parts[i].field = field)
  IN [k \in DOMAIN places |->
        LET i == places[k]
        IN IF form.parts[i].class = "type" THEN <<Capitals(statement[i].value[1])>>
           ELSE statement[i].value]

ObjectOf(statement, form) ==
  [f \in form.fields \cup {"op", "table_name"} |->
     IF f = "op" THEN form.op ELSE Says(statement, form, f)]

\* The object of a sequence of tokens, the empty one if it is no statement.
Meaning(statement) ==
  LET forms == {form \in Forms : Fits(statement, form)}
  IN IF forms = {} THEN <<>> ELSE ObjectOf(statement, CHOOSE form \in forms : TRUE)
=============================================================================
