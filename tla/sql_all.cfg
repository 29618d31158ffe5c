SPECIFICATION Spec
CONSTANTS
  MaxPush = 4
  Loads <- All
\* The writer ends, and the threads may wait for each other for ever (run sql_stuck).
CHECK_DEADLOCK FALSE
INVARIANTS TypeOK NothingLost CacheFits CacheOrdered BatchIsWhole
PROPERTY KeepsLog
