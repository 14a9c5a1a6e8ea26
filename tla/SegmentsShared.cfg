SPECIFICATION Spec
CONSTANTS
  Threads = {t1, t2}
  Addrs = {"main", "loop", "ask", "lib", "fail"}
  Ends <- MCPointer
  Dests <- MCPointerDests
  After <- MCAfter
  Starts = {"main"}
  MaxDepth = 1
  Absent = Absent
  MaxMade = 2
  Null = Null
  MaxNative = 2
  Compilable = {"main", "loop", "lib"}
  Library = {"lib"}
  Chaining = TRUE
  CallChaining = TRUE
INVARIANTS GraphIsExact ReturnsFollow
SYMMETRY MCSymmetry
CHECK_DEADLOCK FALSE
