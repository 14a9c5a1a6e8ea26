------------------------------ MODULE MCFiles ------------------------------
(* Two processes; the first has two threads.                               *)
EXTENDS Files, TLC

MCProcessOf == "t1" :> "p" @@ "t2" :> "p" @@ "t3" :> "q"

(* Files with a name; pipes over two processes; epoll; and what a thread   *)
(* may do to the descriptors that another one waits for.                   *)
MCNamed == [calls |-> {"open", "close", "memfd", "rename", "unlink"},
            threads |-> {"t1"}]
MCInherited == [calls |-> {"open", "close", "unlink", "fork", "exit"},
                threads |-> {"t1", "t3"}]
MCPiped == [calls |-> {"pipe", "close", "nonblock", "read", "write", "fork",
                       "exit", "kill"},
            threads |-> {"t1", "t3"}]
MCMoved == [calls |-> {"pipe", "close", "dup", "dup2", "read", "write"},
            threads |-> {"t1", "t2"}]
MCWatched == [calls |-> {"pipe", "close", "write", "epoll", "ctl", "wait"},
              threads |-> {"t1"}]
MCPolled == [calls |-> {"pipe", "close", "dup2", "write", "poll", "select"},
             threads |-> {"t1", "t2"}]
MCOnlyWatched == {MCWatched}
MCPrograms == {MCNamed, MCInherited, MCPiped, MCMoved, MCWatched, MCPolled}
=============================================================================
