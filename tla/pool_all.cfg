SPECIFICATION Spec
CONSTANTS
  Tasks = {t1, t2, t3}
  Adders = {a1, a2}
  NULL = NULL
  Junk = Junk
  MinThr = 1
  MaxThr = 3
  QueueMax = 2
  MinWaitTaskNum = 2
  ThreadVary = 2
  WaitExitInit <- NothingSpare
  MallocFill <- UsedHeap
  ZombieAlive = FALSE
  Spurious = TRUE
  MayDestroy = TRUE
  Overlap = TRUE
SYMMETRY Symmetry
\* threadPool_destroy ends the pool, or blocks for ever (run pool_destroy_hangs).
CHECK_DEADLOCK FALSE
INVARIANTS TypeOK ThreadCount BusyCount NoAdderForgotten ArgFreedOnce CanGrowBack
PROPERTY TaskQueueUntilShutdown
