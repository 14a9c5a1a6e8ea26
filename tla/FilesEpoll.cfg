CONSTANTS
  None = None
  Processes = {"p", "q"}
  Threads = {"t1", "t2", "t3"}
  ProcessOf <- MCProcessOf
  First = "p"
  MaxFd = 2
  Addresses = {1, 2, 3}
  Nodes = {4, 5}
  Names = {"a", "b"}
  OnHost = {"a"}
  MaxBytes = 1
  MaxEpolls = 1
  Programs <- MCOnlyWatched
SPECIFICATION Spec
INVARIANT AddsOnce
CHECK_DEADLOCK FALSE
