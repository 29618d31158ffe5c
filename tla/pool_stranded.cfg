SPECIFICATION FairSpec
CONSTANTS
  Tasks = {t1, t2, t3}
  Adders = {a1}
  NULL = NULL
  Junk = Junk
  MinThr = 1
  MaxThr = 2
  QueueMax = 2
  MinWaitTaskNum = 2
  ThreadVary = 2
  WaitExitInit <- NothingSpare
  MallocFill <- FreshHeap
  ZombieAlive = FALSE
  Spurious = FALSE
  MayDestroy = FALSE
  Overlap = FALSE
CHECK_DEADLOCK FALSE
PROPERTY AddedTasksFinish
