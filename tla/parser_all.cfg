SPECIFICATION FairSpec
CONSTANTS
  Names = {"x", "t"}
  Statements <- All
  Again <- Later
  MaxCalls = 3
  Junk = {0, 7}
\* The calls end, or the stack overflows.
CHECK_DEADLOCK FALSE
INVARIANTS TypeOK WordsAreTheStatements StaysInWords
PROPERTIES TableIsNamed PlainStatementsEnd
