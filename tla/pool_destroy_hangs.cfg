SPECIFICATION FairSpec
CONSTANTS
  Tasks = {t1}
  Adders = {a1}
  NULL = NULL
  Junk = Junk
  MinThr = 1
  MaxThr = 1
  QueueMax = 1
  MinWaitTaskNum = 1
  ThreadVary = 1
  WaitExitInit <- NothingSpare
  MallocFill <- FreshHeap
  ZombieAlive = FALSE
  Spurious = FALSE
  MayDestroy = TRUE
  Overlap = FALSE
CHECK_DEADLOCK FALSE
PROPERTY DestroyReturns
