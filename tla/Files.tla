------------------------------- MODULE Files -------------------------------
(***************************************************************************)
(* The open files of the emulated kernel (kernel/linux/fs): the descriptor *)
(* table of each process, the open file descriptions the tables share, the *)
(* files below them with the references counted in each, the directory     *)
(* that names some of them and the orphans it does not, the pipes, the     *)
(* interest lists of epoll, and the threads that threadblocker.cpp keeps   *)
(* waiting for a descriptor.                                               *)
(*                                                                         *)
(* A system call has the emulated machine alone (a property of module      *)
(* Scheduler), so a call is one step, and so is the visit of a blocker by  *)
(* tryUnblockThreads: what can happen between two steps is that another    *)
(* thread of the process changes the table a blocked thread will look its  *)
(* descriptor up in.                                                       *)
(*                                                                         *)
(* The bytes of a pipe are counted, those of a file are left out; a        *)
(* directory keeps the entries of each name in their order, since that of  *)
(* two names makes no difference.  Nobody closes the standard streams: the *)
(* descriptors are those behind them.                                      *)
(***************************************************************************)
EXTENDS Naturals, FiniteSets, Sequences

CONSTANTS
  Processes, Threads,
  ProcessOf,    \* ProcessOf[t]: the process of thread t
  First,        \* the process that runs at first
  MaxFd,        \* bound on the descriptors of a process
  Addresses,    \* what `new OpenFileDescription` can return
  Nodes,        \* the files with a name
  Names,        \* the paths
  OnHost,       \* the paths of files of the host
  MaxBytes,     \* bound on the bytes in a pipe
  MaxEpolls,    \* bound on the epoll instances
  Programs,     \* what a run may be about: system calls, and who makes them
  None          \* a null pointer

Fds == 0..MaxFd

(* A file that has no entry in the directory has one description: it is    *)
(* known by the address of that.                                           *)
FileIds == Addresses \cup Nodes
AllCalls == {"open", "close", "dup", "dup2", "pipe", "memfd", "epoll", "ctl",
             "rename", "unlink", "nonblock", "fork", "exit", "kill", "read",
             "write", "poll", "select", "wait"}

ASSUME ThreadsAssumption == /\ ProcessOf \in [Threads -> Processes]
                            /\ First \in Processes
ASSUME ProcessesAssumption == IsFiniteSet(Processes)
ASSUME BoundsAssumption == /\ MaxFd \in Nat /\ MaxBytes \in Nat
                           /\ MaxEpolls \in Nat
ASSUME PoolsAssumption ==
  /\ Addresses \subseteq Nat /\ Nodes \subseteq Nat
  /\ Addresses \cap Nodes = {}
  /\ None \notin FileIds /\ None \notin Names
ASSUME CallsAssumption == /\ OnHost \subseteq Names
                          /\ Programs \subseteq
                               [calls : SUBSET AllCalls, threads : SUBSET Threads]

VARIABLES
  program,    \* the one of Programs that this run is about
  table,      \* table[p][fd]: fileDescriptors_ of p, the address or None
  ofds,       \* the OpenFileDescriptions, by their addresses
  fs,         \* the FS: its files, directory, orphanFiles_ and pipes_
  running,    \* the processes with a thread
  blocked,    \* blocked[t]: the blocker of thread t, or None
  panicked,   \* the verify that failed, or None
  crowded,    \* history: two files have had one path
  stale       \* history: the entries of interest lists that outlived what
              \* they were added for

vars == <<program, table, ofds, fs, running, blocked, panicked, crowded,
          stale>>

Ends == {"reader", "writer"}
Kinds == Ends \cup {"shadow", "host", "memfd", "epoll"}
Panics == {"poll", "epollAdd", "epollReused", "epollMod", "epollWait", "notPollable",
           "notImplemented", "dangling"}
Waits == {"read", "poll", "select", "wait"}

(* The type of each variable. *)
File == [kind : Kinds, name : Names \cup {None}, refs : Nat, doomed : BOOLEAN,
         pipe : Addresses \cup {None}, interest : SUBSET (Addresses \cup {None})]
Pipe == [bytes : 0..MaxBytes, readers : SUBSET Addresses,
         writers : SUBSET Addresses]
TypeOK ==
  /\ program \in Programs
  /\ table \in [Processes -> [Fds -> Addresses \cup {None}]]
  /\ DOMAIN ofds \subseteq Addresses
  /\ \A a \in DOMAIN ofds : ofds[a] \in [file : FileIds, nonblock : BOOLEAN]
  /\ DOMAIN fs.files \subseteq FileIds /\ DOMAIN fs.pipes \subseteq Addresses
  /\ \A f \in DOMAIN fs.files : fs.files[f] \in File
  /\ \A i \in DOMAIN fs.pipes : fs.pipes[i] \in Pipe
  /\ fs.entries \in [Names -> Seq(Nodes)]
  /\ fs.orphans \subseteq Addresses
  /\ running \subseteq Processes
  /\ blocked \in [Threads -> [kind : Waits, fd : Fds] \cup {None}]
  /\ panicked \in Panics \cup {None} /\ crowded \in BOOLEAN
  /\ stale \subseteq Addresses \X Addresses

(***************************************************************************)
(* The file system                                                         *)
(***************************************************************************)
Least(S) == CHOOSE x \in S : \A y \in S : x <= y
Without(f, x) == [y \in DOMAIN f \ {x} |-> f[y]]
With(f, x, v) == [y \in DOMAIN f \cup {x} |-> IF y = x THEN v ELSE f[y]]

Named(s, n) == IF n = None \/ s.entries[n] = <<>> THEN None
               ELSE Head(s.entries[n])

(* A file without a path is out of reach of FS::unlink; its name,          *)
(* _anonymous_file_, is one that no program is assumed to use.             *)
NewFile(kind, name, pipe) ==
  [kind |-> kind, name |-> name, refs |-> 0, doomed |-> kind = "memfd",
   pipe |-> pipe, interest |-> {}]

InDirectory(s, f, kind, n) ==
  [s EXCEPT !.files = With(@, f, NewFile(kind, n, None)),
            !.entries[n] = Append(@, f)]
InOrphans(s, f, kind, n, pipe) ==
  [s EXCEPT !.files = With(@, f, NewFile(kind, n, pipe)),
            !.orphans = @ \cup {f}]
Ref(s, f) == [s EXCEPT !.files[f].refs = @ + 1]

(* FS::unlink: the name of a file that is open stays, to go when the file  *)
(* is closed.                                                              *)
Unlinked(s, n) ==
  LET f == Named(s, n) IN
    IF f = None THEN s
    ELSE IF s.files[f].refs > 0 THEN [s EXCEPT !.files[f].doomed = TRUE]
    ELSE [s EXCEPT !.files = Without(@, f), !.entries[n] = Tail(@)]

RemovedFromOrphans_Nothing(s, f) == s
RemovedFromOrphans(s, f) ==
  IF f \notin s.orphans THEN s
  ELSE [s EXCEPT !.files = Without(@, f), !.orphans = @ \ {f}]

(* File::close, of the endpoints of pipes, and removeClosedPipes.          *)
ClosedEndpoint_KeepsWriter(s, f) ==
  IF s.files[f].kind \notin Ends THEN s
  ELSE LET i == s.files[f].pipe
           q == [s.pipes[i] EXCEPT !.readers = @ \ {f}]
       IN IF q.readers = {} /\ q.writers = {}
          THEN [s EXCEPT !.pipes = Without(@, i)]
          ELSE [s EXCEPT !.pipes[i] = q]
ClosedEndpoint_EitherEnd(s, f) ==
  IF s.files[f].kind \notin Ends THEN s
  ELSE LET i == s.files[f].pipe
           q == [s.pipes[i] EXCEPT !.readers = @ \ {f}, !.writers = @ \ {f}]
       IN IF q.readers = {} \/ q.writers = {}
          THEN [s EXCEPT !.pipes = Without(@, i)]
          ELSE [s EXCEPT !.pipes[i] = q]
ClosedEndpoint(s, f) ==
  IF s.files[f].kind \notin Ends THEN s
  ELSE LET i == s.files[f].pipe
           q == [s.pipes[i] EXCEPT !.readers = @ \ {f}, !.writers = @ \ {f}]
       IN IF q.readers = {} /\ q.writers = {}
          THEN [s EXCEPT !.pipes = Without(@, i)]
          ELSE [s EXCEPT !.pipes[i] = q]

KeptAfterClose(s, f) == s.files[f].kind \in {"shadow", "memfd"}

(* FS::close, for a descriptor of file f.                                  *)
Closed_EndsFirst(s, f) ==
  LET u == [s EXCEPT !.files[f].refs = @ - 1]
      c == ClosedEndpoint(u, f)
  IN IF u.files[f].refs > 0 THEN c
     ELSE IF KeptAfterClose(c, f) /\ ~c.files[f].doomed THEN c
     ELSE RemovedFromOrphans(Unlinked(c, c.files[f].name), f)
Closed(s, f) ==
  LET u == [s EXCEPT !.files[f].refs = @ - 1]
      c == ClosedEndpoint(u, f)
  IN IF u.files[f].refs > 0 THEN u
     ELSE IF KeptAfterClose(c, f) /\ ~c.files[f].doomed THEN c
     ELSE RemovedFromOrphans(Unlinked(c, c.files[f].name), f)

(***************************************************************************)
(* The descriptors                                                         *)
(***************************************************************************)
Can(t, call) == /\ call \in program.calls /\ t \in program.threads
                /\ panicked = None
                /\ ProcessOf[t] \in running /\ blocked[t] = None
FdsOf(t) == table[ProcessOf[t]]
FileAt(t, fd) == fs.files[ofds[FdsOf(t)[fd]].file]

FreeFds(t) == {fd \in Fds : FdsOf(t)[fd] = None}
FreeNodes(s) == Nodes \ DOMAIN s.files

(* An address that no interest list remembers is as good as any other.     *)
Remembered == UNION {fs.files[f].interest : f \in DOMAIN fs.files}
FreeAddresses == Addresses \ DOMAIN ofds
NewAddress(a, free) ==
  /\ a \in free
  /\ a \in Remembered \/ \A b \in free \ Remembered : a <= b

(* A shared_ptr keeps an OpenFileDescription while a table refers to it.   *)
Referred(tab) == {tab[x[1]][x[2]] : x \in Processes \X Fds}
Live(o, tab) == [a \in DOMAIN o \cap Referred(tab) |-> o[a]]

(* The files that a path stands for: its entries, and the orphans that were *)
(* given the path for a name.                                              *)
Paths(s, n) == {s.entries[n][i] : i \in DOMAIN s.entries[n]}
               \cup {f \in s.orphans : s.files[f].name = n}
Crowded(s) == \E n \in Names : Cardinality(Paths(s, n)) > 1

(* The outcome of a call on the files and the tables; the descriptions     *)
(* that no table refers to any more are freed.                             *)
Becomes(s, tab, o) ==
  /\ fs' = s /\ table' = tab /\ ofds' = Live(o, tab)
  /\ crowded' = (crowded \/ Crowded(s))
  /\ stale' = {x \in Addresses \X Addresses :
                 /\ x[1] \in DOMAIN s.files /\ x[2] \in s.files[x[1]].interest
                 /\ x \in stale \/ x[2] \notin Referred(tab)}
  /\ UNCHANGED program
Same == UNCHANGED <<program, table, ofds, fs, crowded, stale>>

Init ==
  /\ program \in Programs
  /\ table = [p \in Processes |-> [fd \in Fds |-> None]]
  /\ ofds = <<>>
  /\ fs = [files |-> <<>>, entries |-> [n \in Names |-> <<>>],
           orphans |-> {}, pipes |-> <<>>]
  /\ running = {First}
  /\ blocked = [t \in Threads |-> None]
  /\ panicked = None /\ crowded = FALSE /\ stale = {}

(* openNode, then allocateFd: the description at address a of file f of s  *)
(* in the first slot that is free.                                         *)
Opened(t, s, f, a) ==
  /\ FreeFds(t) # {} /\ NewAddress(a, FreeAddresses)
  /\ Becomes(Ref(s, f),
             [table EXCEPT ![ProcessOf[t]][Least(FreeFds(t))] = a],
             With(ofds, a, [file |-> f, nonblock |-> FALSE]))

(* FS::open: a file that has the name, whether or not it is to go; else    *)
(* one of the host, when it is only read, or a shadow of it, or a new one. *)
Open(t) ==
  /\ Can(t, "open")
  /\ \E n \in Names, writing, create \in BOOLEAN, a \in Addresses :
       LET known == Named(fs, n)
           kind == IF writing \/ create THEN "shadow" ELSE "host"
       IN IF known # None THEN Opened(t, fs, known, a)
          ELSE /\ n \in OnHost \/ create
               /\ FreeNodes(fs) # {}
               /\ LET f == Least(FreeNodes(fs)) IN
                    Opened(t, InDirectory(fs, f, kind, n), f, a)
  /\ UNCHANGED <<running, blocked, panicked>>

(* insertNode                                                              *)
MemfdCreate(t) ==
  /\ Can(t, "memfd")
  /\ \E n \in Names, a \in Addresses :
       Opened(t, InOrphans(fs, a, "memfd", n, None), a, a)
  /\ UNCHANGED <<running, blocked, panicked>>

EpollCreate(t) ==
  /\ Can(t, "epoll")
  /\ Cardinality({f \in fs.orphans : fs.files[f].kind = "epoll"}) < MaxEpolls
  /\ \E a \in Addresses : Opened(t, InOrphans(fs, a, "epoll", None, None), a, a)
  /\ UNCHANGED <<running, blocked, panicked>>

(* FileDescriptors::pipe2: the reader takes the first free slot.           *)
Pipe2(t) ==
  /\ Can(t, "pipe") /\ Cardinality(FreeFds(t)) > 1
  /\ Addresses \ DOMAIN fs.pipes # {}
  /\ \E nonblock \in {b \in BOOLEAN : b => "nonblock" \in program.calls},
        r, w \in Addresses :
       LET i == Least(Addresses \ DOMAIN fs.pipes)
           in == Least(FreeFds(t))
           out == Least(FreeFds(t) \ {in})
           s == InOrphans(InOrphans(fs, r, "reader", None, i),
                          w, "writer", None, i)
           pipe == [bytes |-> 0, readers |-> {r}, writers |-> {w}]
       IN /\ NewAddress(r, FreeAddresses)
          /\ NewAddress(w, FreeAddresses \ {r})
          /\ Becomes([Ref(Ref(s, r), w) EXCEPT !.pipes = With(@, i, pipe)],
                     [table EXCEPT ![ProcessOf[t]][in] = r,
                                   ![ProcessOf[t]][out] = w],
                     With(With(ofds, r, [file |-> r, nonblock |-> nonblock]),
                          w, [file |-> w, nonblock |-> nonblock]))
  /\ UNCHANGED <<running, blocked, panicked>>

CloseFd(t) ==
  /\ Can(t, "close")
  /\ \E fd \in Fds \ FreeFds(t) :
       Becomes(Closed(fs, ofds[FdsOf(t)[fd]].file),
               [table EXCEPT ![ProcessOf[t]][fd] = None], ofds)
  /\ UNCHANGED <<running, blocked, panicked>>

Dup_NoRef(t) ==
  /\ Can(t, "dup") /\ FreeFds(t) # {}
  /\ \E fd \in Fds \ FreeFds(t) :
       Becomes(fs,
               [table EXCEPT ![ProcessOf[t]][Least(FreeFds(t))] =
                               FdsOf(t)[fd]], ofds)
  /\ UNCHANGED <<running, blocked, panicked>>
Dup(t) ==
  /\ Can(t, "dup") /\ FreeFds(t) # {}
  /\ \E fd \in Fds \ FreeFds(t) :
       Becomes(Ref(fs, ofds[FdsOf(t)[fd]].file),
               [table EXCEPT ![ProcessOf[t]][Least(FreeFds(t))] =
                               FdsOf(t)[fd]], ofds)
  /\ UNCHANGED <<running, blocked, panicked>>

(* dup2 and dup3 close what the new descriptor was before the reference    *)
(* is taken; they differ when the two are the same.                        *)
Dup2(t) ==
  /\ Can(t, "dup2")
  /\ \E old \in Fds \ FreeFds(t) : \E new \in Fds \ {old} :
       LET s == IF new \in FreeFds(t) THEN fs
                ELSE Closed(fs, ofds[FdsOf(t)[new]].file)
       IN Becomes(Ref(s, ofds[FdsOf(t)[old]].file),
                  [table EXCEPT ![ProcessOf[t]][new] = FdsOf(t)[old]], ofds)
  /\ UNCHANGED <<running, blocked, panicked>>

(* FS::rename: the entry goes behind those that have the new name already. *)
Rename_KeepsName(t) ==
  /\ Can(t, "rename")
  /\ \E old, new \in Names :
       /\ Named(fs, old) # None
       /\ LET f == Named(fs, old)
              taken == [fs EXCEPT !.entries[old] = Tail(@)]
          IN Becomes([taken EXCEPT !.entries[new] = Append(@, f)],
                     table, ofds)
  /\ UNCHANGED <<running, blocked, panicked>>
Rename(t) ==
  /\ Can(t, "rename")
  /\ \E old, new \in Names :
       /\ Named(fs, old) # None
       /\ LET f == Named(fs, old)
              taken == [fs EXCEPT !.entries[old] = Tail(@)]
          IN Becomes([taken EXCEPT !.entries[new] = Append(@, f),
                                   !.files[f].name = new], table, ofds)
  /\ UNCHANGED <<running, blocked, panicked>>

Unlink(t) ==
  /\ Can(t, "unlink")
  /\ \E n \in Names : Named(fs, n) # None /\ Becomes(Unlinked(fs, n), table, ofds)
  /\ UNCHANGED <<running, blocked, panicked>>

(* fcntl(F_SETFL): the file is asked as well, and a shadow file or an      *)
(* epoll instance has no answer.                                           *)
SetNonblock(t) ==
  /\ Can(t, "nonblock")
  /\ \E fd \in Fds \ FreeFds(t), nonblock \in BOOLEAN :
       LET a == FdsOf(t)[fd]
           answers == fs.files[ofds[a].file].kind \in Ends \cup {"host"}
       IN /\ ofds' = [ofds EXCEPT ![a].nonblock = nonblock]
          /\ panicked' = IF answers THEN None ELSE "notImplemented"
  /\ UNCHANGED <<program, table, fs, crowded, stale, running, blocked>>

(* Process::clone copies the table, and with it a reference for each slot. *)
Slots(p) == {fd \in Fds : table[p][fd] # None}
Referring(p, f) == {fd \in Slots(p) : ofds[table[p][fd]].file = f}
RefsCopied(p) ==
  [f \in DOMAIN fs.files |->
     [fs.files[f] EXCEPT !.refs = @ + Cardinality(Referring(p, f))]]
Fork(t) ==
  /\ Can(t, "fork")
  /\ LET p == ProcessOf[t] IN
     \E c \in Processes \ running :
       /\ Slots(c) = {}
       /\ running' = running \cup {c}
       /\ Becomes([fs EXCEPT !.files = RefsCopied(p)],
                  [table EXCEPT ![c] = table[p]], ofds)
  /\ UNCHANGED <<blocked, panicked>>

(* FileDescriptors::closeAll, in the order of the slots.                   *)
ClosedSlot(s, p, fd) ==
  IF table[p][fd] = None THEN s ELSE Closed(s, ofds[table[p][fd]].file)
ClosedBefore(p) ==
  LET to[i \in 0..MaxFd + 1] ==
        IF i = 0 THEN fs ELSE ClosedSlot(to[i - 1], p, i - 1)
  IN to
ClosedAll(p) == ClosedBefore(p)[MaxFd + 1]
NobodyOf(p) == [t \in Threads |-> IF ProcessOf[t] = p THEN None ELSE blocked[t]]

(* exit_group and Process::notifyExit.                                     *)
Exit(t) ==
  /\ Can(t, "exit")
  /\ LET p == ProcessOf[t] IN
       /\ running' = running \ {p}
       /\ blocked' = NobodyOf(p)
       /\ Becomes(ClosedAll(p), [table EXCEPT ![p] = [fd \in Fds |-> None]],
                  ofds)
  /\ UNCHANGED panicked

(* tgkill and exit end a thread, this one or another, and the last of a   *)
(* process does not come to notifyExit: the table keeps what it refers to. *)
Kill(t) ==
  /\ Can(t, "kill")
  /\ \E p \in running :
       running' = running \ {p} /\ blocked' = NobodyOf(p)
  /\ Same /\ UNCHANGED panicked

(***************************************************************************)
(* Pipes, and the threads that wait for them                               *)
(***************************************************************************)
PipeOf(f) == fs.files[f].pipe
BytesOf(f) == fs.pipes[PipeOf(f)].bytes

(* FS::read, whichever end of the pipe it is given: Pipe::read.            *)
ReadOutcome(a) ==
  IF a = None THEN "error"
  ELSE LET f == ofds[a].file IN
    CASE fs.files[f].kind = "epoll" -> "panic"
      [] fs.files[f].kind \notin Ends \cup {"epoll"} -> "file"
      [] fs.files[f].kind \in Ends ->
           IF BytesOf(f) > 0 THEN "bytes"
           ELSE IF fs.pipes[PipeOf(f)].writers = {} THEN "end"
           ELSE IF ofds[a].nonblock THEN "again" ELSE "block"

Taking_TooMuch(a) ==
  \E k \in 1..BytesOf(ofds[a].file) + 1 :
    fs' = [fs EXCEPT !.pipes[PipeOf(ofds[a].file)].bytes = @ - k]
Taking(a) ==
  \E k \in 1..BytesOf(ofds[a].file) :
    fs' = [fs EXCEPT !.pipes[PipeOf(ofds[a].file)].bytes = @ - k]

Read(t) ==
  /\ Can(t, "read")
  /\ \E fd \in Fds \ FreeFds(t) :
       LET a == FdsOf(t)[fd] IN
         \/ /\ ReadOutcome(a) = "bytes" /\ Taking(a)
            /\ UNCHANGED <<blocked, panicked>>
         \/ /\ ReadOutcome(a) = "block"
            /\ blocked' = [blocked EXCEPT ![t] = [kind |-> "read", fd |-> fd]]
            /\ UNCHANGED <<fs, panicked>>
         \/ /\ ReadOutcome(a) = "panic" /\ panicked' = "notImplemented"
            /\ UNCHANGED <<fs, blocked>>
  /\ UNCHANGED <<program, table, ofds, crowded, stale, running>>

(* Pipe::write: whoever may read it.                                       *)
Write(t) ==
  /\ Can(t, "write")
  /\ \E fd \in Fds \ FreeFds(t) :
       LET f == ofds[FdsOf(t)[fd]].file IN
         /\ fs.files[f].kind = "writer" /\ BytesOf(f) < MaxBytes
         /\ fs' = [fs EXCEPT !.pipes[PipeOf(f)].bytes = @ + 1]
  /\ UNCHANGED <<program, table, ofds, crowded, stale, running, blocked,
                 panicked>>

(* Epoll::addEntry, changeEntry and deleteEntry: an entry is an address,   *)
(* the null pointer for a descriptor that is not open.                     *)
EpollCtl(t) ==
  /\ Can(t, "ctl")
  /\ \E epfd \in Fds \ FreeFds(t), fd \in Fds, op \in {"add", "mod", "del"} :
       LET e == ofds[FdsOf(t)[epfd]].file
           a == FdsOf(t)[fd]
           present == a \in fs.files[e].interest
       IN /\ fs.files[e].kind = "epoll"
          /\ \/ /\ op = "add" /\ ~present
                /\ fs' = [fs EXCEPT !.files[e].interest = @ \cup {a}]
                /\ UNCHANGED panicked
             \/ /\ op = "add" /\ present
                /\ panicked' = IF <<e, a>> \in stale THEN "epollReused"
                               ELSE "epollAdd"
                /\ UNCHANGED fs
             \/ /\ op = "mod" /\ ~present /\ panicked' = "epollMod"
                /\ UNCHANGED fs
             \/ /\ op = "del" /\ present
                /\ fs' = [fs EXCEPT !.files[e].interest = @ \ {a}]
                /\ UNCHANGED panicked
          /\ stale' = IF op = "del" THEN stale \ {<<e, a>>} ELSE stale
  /\ UNCHANGED <<program, table, ofds, crowded, running, blocked>>

(* canRead; a file of the host can always be read.                         *)
Pollable(f) == fs.files[f].kind \in Ends \cup {"host"}
CanRead(f) == fs.files[f].kind = "host" \/ BytesOf(f) > 0

(* FS::doPoll, and FS::selectImmediate, which answers EBADF where the      *)
(* other fails.                                                            *)
PollOutcomes(kind, a) ==
  IF a = None THEN IF kind = "poll" THEN {"poll"} ELSE {"event"}
  ELSE LET f == ofds[a].file IN
    IF ~Pollable(f) THEN {"notPollable"}
    ELSE IF CanRead(f) THEN {"event"} ELSE {"none"}

(* FS::doEpollWait.  What an entry whose description has been freed leads  *)
(* to is left open.                                                        *)
WaitOutcomes(a) ==
  IF a = None \/ fs.files[ofds[a].file].kind # "epoll" THEN {"epollWait"}
  ELSE LET entries == fs.files[ofds[a].file].interest
           live == {ofds[b].file : b \in entries \cap DOMAIN ofds}
           freed == entries \ (DOMAIN ofds \cup {None})
       IN IF \E f \in live : ~Pollable(f) THEN {"notPollable"}
          ELSE (IF freed # {} THEN {"event", "dangling"} ELSE {})
               \cup (IF None \in entries \/ \E f \in live : CanRead(f)
                     THEN {"event"} ELSE {"none"})
Outcomes(b, a) == IF b.kind = "wait" THEN WaitOutcomes(a)
                  ELSE PollOutcomes(b.kind, a)

(* poll, select and epoll_wait with a timeout other than zero.             *)
Wait(t) ==
  /\ \E kind \in {"poll", "select", "wait"}, fd \in Fds :
       /\ Can(t, kind)
       /\ blocked' = [blocked EXCEPT ![t] = [kind |-> kind, fd |-> fd]]
  /\ Same /\ UNCHANGED <<running, panicked>>

(* ReadBlocker::tryUnblock: the descriptor is looked up again.             *)
TryRead(t) ==
  /\ panicked = None /\ blocked[t] # None /\ blocked[t].kind = "read"
  /\ LET a == FdsOf(t)[blocked[t].fd] IN
       \/ /\ ReadOutcome(a) = "bytes" /\ Taking(a)
          /\ blocked' = [blocked EXCEPT ![t] = None]
          /\ UNCHANGED panicked
       \/ /\ ReadOutcome(a) \in {"error", "file", "end", "again"}
          /\ blocked' = [blocked EXCEPT ![t] = None]
          /\ UNCHANGED <<fs, panicked>>
       \/ /\ ReadOutcome(a) = "panic" /\ panicked' = "notImplemented"
          /\ UNCHANGED <<fs, blocked>>
  /\ UNCHANGED <<program, table, ofds, crowded, stale, running>>

(* PollBlocker, SelectBlocker and EpollWaitBlocker::tryUnblock: without an *)
(* event the thread goes on when its time limit has passed.                *)
TryWait(t) ==
  /\ panicked = None /\ blocked[t] # None /\ blocked[t].kind # "read"
  /\ LET outcomes == Outcomes(blocked[t], FdsOf(t)[blocked[t].fd]) IN
       \/ /\ outcomes \cap {"event", "none"} # {}
          /\ blocked' = [blocked EXCEPT ![t] = None]
          /\ UNCHANGED panicked
       \/ /\ panicked' \in outcomes \cap Panics
          /\ UNCHANGED blocked
  /\ Same /\ UNCHANGED running

Call(t) == \/ Open(t) \/ MemfdCreate(t) \/ EpollCreate(t) \/ Pipe2(t)
           \/ CloseFd(t) \/ Dup(t) \/ Dup2(t) \/ Rename(t) \/ Unlink(t)
           \/ SetNonblock(t) \/ Fork(t) \/ Exit(t) \/ Kill(t)
           \/ Read(t) \/ Write(t) \/ EpollCtl(t) \/ Wait(t)
Next == \E t \in Threads : Call(t) \/ TryRead(t) \/ TryWait(t)

Spec == Init /\ [][Next]_vars

(* Worker 0 passes over the blockers again and again (module Scheduler).   *)
Fairness == \A t \in Threads : WF_vars(TryRead(t))
FairSpec == Spec /\ Fairness

(***************************************************************************)
(* What the file system promises                                           *)
(***************************************************************************)
Descriptors(f) == {x \in Processes \X Fds :
                     /\ table[x[1]][x[2]] # None
                     /\ ofds[table[x[1]][x[2]]].file = f}

(* The count of a file is the number of descriptors, of all processes and  *)
(* whatever their descriptions, that refer to it: the assertion that is    *)
(* commented out in FS::checkFileRefCount.  dup, dup2, clone, close and    *)
(* closeAll keep it up by hand.                                            *)
RefCountsAreExact ==
  \A f \in DOMAIN fs.files : fs.files[f].refs = Cardinality(Descriptors(f))

(* Nothing that is referred to by a raw pointer has been destroyed: the    *)
(* file of a description (file_) and the pipe of an endpoint (pipe_).      *)
NothingIsDestroyedInUse ==
  /\ \A a \in DOMAIN ofds : ofds[a].file \in DOMAIN fs.files
  /\ \A f \in DOMAIN fs.files :
       fs.files[f].kind \in Ends => fs.files[f].pipe \in DOMAIN fs.pipes

(* What cannot be opened again is kept only while it is open: an orphan    *)
(* has a descriptor, a pipe an end, and every other file an entry, of its  *)
(* own name and no other.                                                  *)
EntriesOf(f) == UNION {{<<n, i>> : i \in {j \in DOMAIN fs.entries[n] :
                                              fs.entries[n][j] = f}} : n \in Names}
NothingIsLeaked ==
  /\ \A f \in fs.orphans : f \in DOMAIN fs.files /\ fs.files[f].refs > 0
  /\ \A f \in DOMAIN fs.files \ fs.orphans :
       \E x \in EntriesOf(f) : EntriesOf(f) = {x} /\ x[1] = fs.files[f].name
  /\ \A n \in Names : \A i \in DOMAIN fs.entries[n] :
       fs.entries[n][i] \in DOMAIN fs.files \ fs.orphans
  /\ \A i \in DOMAIN fs.pipes :
       fs.pipes[i].readers \cup fs.pipes[i].writers # {}

(* A pipe knows which of its ends are open, in whichever process: what it  *)
(* answers end of file by ("Reader will see EOF", test_forkpipe.cpp:43).   *)
OpenEnds(i, kind) == {f \in DOMAIN fs.files :
                        /\ fs.files[f].kind = kind /\ fs.files[f].pipe = i
                        /\ Descriptors(f) # {}}
PipesKnowTheirEnds ==
  \A i \in DOMAIN fs.pipes :
    /\ fs.pipes[i].readers = OpenEnds(i, "reader")
    /\ fs.pipes[i].writers = OpenEnds(i, "writer")

(* As long as no two files have had one path, a file that was unlinked     *)
(* while it was open leaves the directory with its last descriptor, and    *)
(* so does a file of the host.                                             *)
UnlinkedFilesGo ==
  ~crowded =>
    \A f \in DOMAIN fs.files \ fs.orphans :
      fs.files[f].doomed \/ fs.files[f].kind = "host" => fs.files[f].refs > 0

(* A file is kept no longer than something can reach it.                   *)
NothingStays == NothingIsLeaked /\ UnlinkedFilesGo

(* And a call removes no other file than the one that it closes, or that   *)
(* it unlinks: close removes by the path.                                  *)
ClosesItsOwn ==
  [][~crowded' =>
       \A f \in DOMAIN fs.files \ DOMAIN fs'.files :
         \/ Descriptors(f) # {}
         \/ \E n \in Names : Named(fs, n) = f /\ Named(fs', n) = None
              /\ table' = table]_vars

(* A read that is given the end of a pipe is given the last word: no byte  *)
(* comes after it.                                                         *)
EndIsFinal ==
  [][\A i \in DOMAIN fs.pipes \cap DOMAIN fs'.pipes :
       fs.pipes[i].writers = {} /\ OpenEnds(i, "reader") # {} =>
         fs'.pipes[i].bytes <= fs.pipes[i].bytes]_vars

(* No thread waits for ever in read for a pipe that no descriptor can      *)
(* write to.                                                               *)
WaitsAtTheEnd(t) ==
  /\ panicked = None /\ blocked[t] # None /\ blocked[t].kind = "read"
  /\ LET a == FdsOf(t)[blocked[t].fd] IN
       /\ a # None /\ fs.files[ofds[a].file].kind \in Ends
       /\ OpenEnds(PipeOf(ofds[a].file), "writer") = {}
ReadersSeeTheEnd == \A t \in Threads : []<>~WaitsAtTheEnd(t)

(* A description is not added to a list that has it already, unless the    *)
(* program adds a descriptor twice ("Epoll::addEntry: ofd already exists   *)
(* in interest list", epoll.cpp).                                          *)
AddsOnce == panicked # "epollReused"
=============================================================================
