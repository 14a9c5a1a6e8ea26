CONSTANTS
  w0 = w0  w1 = w1  t1 = t1  t2 = t2  t3 = t3  f1 = f1
  Nobody = Nobody  NoJob = NoJob  NoWord = NoWord  NoLimit = NoLimit
  Workers <- MCWorkers
  Main = w0
  Threads <- MCThreads
  Boot = t1
  Group <- MCGroup
  Words = {f1}
  ClearTid <- MCClearTid
  Blocking = {"vm"}
  Limits = {}
  Counts = {1}
  MaxTime = 1
  CanPanic = FALSE
SPECIFICATION Spec
PROPERTIES VerifyUnblock
