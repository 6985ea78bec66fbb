\* A user types up to two statements, the last of them any of some five
\* thousand, and exit.
SPECIFICATION Spec
CONSTANTS
  MaxList = 2
  MaxTyped = 2
  MaxSent = 3
INVARIANTS TypeOK AnswersBelong EndsWhenTold
PROPERTIES SentAsTyped EveryStatementServed
CHECK_DEADLOCK FALSE
