SPECIFICATION Spec
CONSTANTS
  Threads = {t1}
  Addrs = {"main", "loop", "ask", "stub", "lib", "fail"}
  Ends <- MCStub
  Dests <- MCStubDests
  After <- MCAfter
  Starts = {"main"}
  MaxDepth = 1
  Absent = Absent
  MaxMade = 2
  Null = Null
  MaxNative = 3
  Compilable = {"main", "loop", "stub", "lib"}
  Library = {"lib"}
  Chaining = TRUE
  CallChaining = TRUE
INVARIANTS CodeIsCurrent
PROPERTIES RunsTheProgram
CHECK_DEADLOCK FALSE
