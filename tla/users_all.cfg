SPECIFICATION Spec
CONSTANTS
  Clients = {c1, c2}
  Accounts <- Three
  NULL = NULL
  Garbage = Garbage
  LastHome = 2
  MaxRows = 4
  Loads <- Various
SYMMETRY Symmetry
INVARIANTS TypeOK CacheAgrees NameOnce AnswerIsOwn LoginWorks
\* A call that leaves users[] or follows a wild pointer is the end of what is modelled.
CHECK_DEADLOCK FALSE
