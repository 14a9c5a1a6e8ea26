SPECIFICATION Spec
CONSTANTS
  Threads = {t1}
  Addrs = {"main", "ask", "lib"}
  Ends <- MCFixed
  Dests <- MCFixedDests
  After <- MCFixedAfter
  Starts = {"main"}
  MaxDepth = 1
  Absent = Absent
  MaxMade = 2
  Null = Null
  MaxNative = 3
  Compilable = {}
  Library = {"lib"}
  Chaining = TRUE
  CallChaining = TRUE
INVARIANTS VerifySlots
CHECK_DEADLOCK FALSE
