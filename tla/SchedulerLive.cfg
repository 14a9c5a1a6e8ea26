CONSTANTS
  w0 = w0  w1 = w1  t1 = t1  t2 = t2  t3 = t3  f1 = f1
  Nobody = Nobody  NoJob = NoJob  NoWord = NoWord  NoLimit = NoLimit
  Workers <- MCWorkers
  Main = w0
  Threads <- MCTwoThreads
  Boot = t1
  Group <- MCGroup
  Words = {f1}
  ClearTid <- MCClearTid
  Blocking = {"sleep", "poll", "futex"}
  Limits = {1}
  Counts = {0, 1}
  MaxTime = 2
  CanPanic = TRUE
SPECIFICATION FairSpec
INVARIANTS CountsJobs InKernelHoldsMutex
PROPERTIES JobsExclude RunnableRuns DeadlinesFire AllDeadEnds
