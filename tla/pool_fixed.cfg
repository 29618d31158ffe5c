SPECIFICATION FairSpec
CONSTANTS
  Tasks = {t1, t2, t3}
  Adders = {a1, a2}
  NULL = NULL
  Junk = Junk
  MinThr = 2
  MaxThr = 2
  QueueMax = 1
  MinWaitTaskNum = 1
  ThreadVary = 1
  WaitExitInit <- SomethingSpare
  MallocFill <- FreshHeap
  ZombieAlive = TRUE
  Spurious = FALSE
  MayDestroy = TRUE
  Overlap = FALSE
\* The pool ends when it is destroyed.
CHECK_DEADLOCK FALSE
INVARIANTS NoTaskStranded NoThreadOutlivesPool
PROPERTIES IsTaskQueue AddedTasksFinish AddReturns
