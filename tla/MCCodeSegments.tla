--------------------------- MODULE MCCodeSegments ---------------------------
(* A loop that calls a function, asks for a system call and starts again,  *)
(* and a library that is mapped again between two calls.                   *)
EXTENDS CodeSegments, TLC
MCAfter == [a \in Addrs |-> CASE a = "main" -> "loop" [] a = "loop" -> "ask"
              [] a = "ask" -> "main" [] OTHER -> a]
MCSymmetry == Permutations(Threads)

(* the library is called through a pointer, and may leave by longjmp *)
MCPointer == [main |-> "icall", loop |-> "jcc", ask |-> "syscall",
              lib |-> "ret", fail |-> "longjmp"]
MCPointerDests == [a \in Addrs |-> CASE a = "main" -> {"lib", "fail"}
                     [] a = "loop" -> {"main"} [] OTHER -> {}]

(* it is called through a stub, like those of a procedure linkage table *)
MCStub == [main |-> "call", loop |-> "jcc", ask |-> "syscall", stub |-> "ijmp",
           lib |-> "ret", fail |-> "longjmp"]
MCStubDests == [a \in Addrs |-> CASE a = "main" -> {"stub"} [] a = "loop" -> {"main"}
                  [] a = "stub" -> {"lib", "fail"} [] OTHER -> {}]

(* it is jumped to, and jumps back, at fixed addresses *)
MCFixed == [main |-> "jcc", ask |-> "syscall", lib |-> "jmp"]
MCFixedDests == [a \in Addrs |-> CASE a = "main" -> {"lib"} [] a = "lib" -> {"ask"}
                   [] OTHER -> {}]
MCFixedAfter == [a \in Addrs |-> IF a = "main" THEN "ask" ELSE "main"]

(* The programs of the runs are linked at run time.  MCFixed is not, and   *)
(* SegmentsSlots.cfg shows what becomes of the graph then.                 *)
ASSUME MCLinked == Ends = MCFixed \/ LinkedAtRunTime
=============================================================================
