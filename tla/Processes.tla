------------------------------ MODULE Processes ------------------------------
(***************************************************************************)
(* The process table of the emulated kernel: clone, fork, vfork, execve,   *)
(* exit, exit_group, tgkill and wait4 (kernel/linux/syscalls.cpp), the     *)
(* family each Process keeps (process.cpp), the ids (processtable.cpp) and *)
(* the two kinds of blocked threads that this concerns, the waiters of     *)
(* wait4 and the parents that vfork suspends (threadblocker.cpp).          *)
(*                                                                         *)
(* A system call has the emulated machine alone, and worker 0 looks for a  *)
(* job only after tryUnblockThreads has found nothing to unblock (both are *)
(* properties of module Scheduler).  So a call is one step, and between    *)
(* two calls the scheduler passes over the blockers, one step for each,    *)
(* until a pass unblocks nothing.                                          *)
(*                                                                         *)
(* The vectors are sets with the order of insertion beside them, as in     *)
(* Scheduler.  A Process is known by its pid, since none is ever removed   *)
(* from the table; a Thread by its pid, its tid and the number of times    *)
(* its process had called execve when it was created.                      *)
(***************************************************************************)
EXTENDS Integers, FiniteSets

CONSTANTS
  MaxId,      \* bound on the ids handed out
  MaxExecs,   \* bound on the execve calls of each process
  NoParent,   \* parent_ of the first process
  NoThread,   \* nobody is suspended for this process
  Calls,      \* the system calls the programs make
  Targets,    \* the pids they pass to wait4: a pid, AnyChild, or a group
  Options     \* the options they pass to wait4

Ids == 1..MaxId
Root == 1
AnyChild == -1
AllCalls == {"thread", "fork", "vm", "vfork", "refused", "exec", "exit",
             "exit_group", "tgkill", "wait4"}
Threads == [pid : Ids, tid : Ids, image : 0..MaxExecs]

ASSUME BoundsAssumption == MaxId \in Nat \ {0} /\ MaxExecs \in Nat
ASSUME ValuesAssumption ==
  /\ NoParent \notin Ids /\ NoThread \notin Threads
  /\ Calls \subseteq AllCalls /\ Targets \subseteq Int
  /\ Options \subseteq {"none", "nohang", "untraced"}

VARIABLES
  lastUsedPid, lastUsedTid,   \* of the ProcessTable
  processes,     \* processes_
  parent,        \* parent[p]: parent_
  children,      \* children[p]: children_
  exited,        \* exited[p]: exitedChildren_
  before,        \* the order of the exits that are not reported yet
  space,         \* space[p]: the processes that share addressSpace_ with p
  execs,         \* how often p has called execve
  threads,       \* threads_ of the scheduler
  waiting,       \* waitBlockers_
  suspended,     \* the threads of vmReleaseBlockers_
  since,         \* the order of the entries of either list
  pass,          \* what the pass of tryUnblockThreads has yet to visit
  hit,           \* didUnblock
  panicked,      \* a verify has failed: Kernel::hasPanicked_
  spawner        \* history: spawner[p] is the thread whose vfork created p

ids == <<lastUsedPid, lastUsedTid>>
family == <<parent, children, exited, before>>
passVars == <<pass, hit>>
vars == <<ids, processes, family, space, execs, threads, waiting, suspended,
          since, passVars, panicked, spawner>>

-----------------------------------------------------------------------------
Main(p, n) == [pid |-> p, tid |-> p, image |-> n]
ThreadsOf(p) == {t \in threads : t.pid = p}
Zombies == UNION {exited[p] : p \in Ids}
Among(order, S) == order \cap (S \X S)
Waiters(W) == {b.thread : b \in W}

Init ==
  /\ lastUsedPid = Root /\ lastUsedTid = Root
  /\ processes = {Root}
  /\ parent = [p \in Ids |-> NoParent]
  /\ children = [p \in Ids |-> {}]
  /\ exited = [p \in Ids |-> {}]
  /\ before = {}
  /\ space = [p \in Ids |-> {p}]
  /\ execs = [p \in Ids |-> 0]
  /\ threads = {Main(Root, 0)}
  /\ waiting = {} /\ suspended = {} /\ since = {}
  /\ pass = {} /\ hit = FALSE
  /\ panicked = FALSE
  /\ spawner = [p \in Ids |-> NoThread]

(* A thread that no blocker holds may call, between two passes.            *)
Calling(t, call) ==
  /\ call \in Calls /\ ~panicked /\ pass = {}
  /\ t \in threads \ (Waiters(waiting) \cup suspended)

(* The scheduler looks at every blocker once the call returns.             *)
ThenPass == pass' = Waiters(waiting') \cup suspended' /\ hit' = FALSE

(* The verify fails: the job ends and no worker takes another.             *)
Panic == panicked' = TRUE

-----------------------------------------------------------------------------
(* clone, fork and vfork. *)

(* Faulty: the two counters are not kept together. *)
AllocatedTid_Alone == lastUsedTid' = lastUsedTid + 1 /\ UNCHANGED lastUsedPid

AllocatedPid == lastUsedPid' = lastUsedPid + 1 /\ lastUsedTid' = lastUsedTid + 1
AllocatedTid == lastUsedPid' = lastUsedPid + 1 /\ lastUsedTid' = lastUsedTid + 1
NewPid == lastUsedPid + 1
NewTid == lastUsedTid + 1
IdsLeft == lastUsedPid < MaxId /\ lastUsedTid < MaxId

(* clone with CLONE_THREAD. *)
CloneThread(t) ==
  /\ Calling(t, "thread") /\ IdsLeft
  /\ AllocatedTid
  /\ threads' = threads \cup
       {[pid |-> t.pid, tid |-> NewTid, image |-> execs[t.pid]]}
  /\ UNCHANGED <<processes, family, space, execs, waiting, suspended, since,
                 panicked, spawner>>
  /\ ThenPass

(* Process::clone: the child is in children_ and in processes_ before the  *)
(* remaining flags are looked at.                                          *)
CloneProcess(p, shared) ==
  /\ IdsLeft
  /\ AllocatedPid
  /\ processes' = processes \cup {NewPid}
  /\ parent' = [parent EXCEPT ![NewPid] = p]
  /\ children' = [children EXCEPT ![p] = @ \cup {NewPid}]
  /\ space' = IF ~shared THEN space
              ELSE [q \in Ids |-> IF q \in space[p] \cup {NewPid}
                                  THEN space[p] \cup {NewPid} ELSE space[q]]
  /\ UNCHANGED <<exited, before>>

(* suspendUntilVmReleased: the entry at the back of the list. *)
Suspend(t) ==
  /\ suspended' = suspended \cup {t}
  /\ since' = since \cup ((Waiters(waiting) \cup suspended) \X {t})

(* fork; with CLONE_VM the address space is shared, with CLONE_VFORK the   *)
(* caller is suspended.                                                    *)
Fork(t) ==
  /\ \E shared, vfork \in BOOLEAN :
       /\ Calling(t, IF vfork THEN "vfork" ELSE IF shared THEN "vm" ELSE "fork")
       /\ CloneProcess(t.pid, shared)
       /\ IF vfork
            THEN Suspend(t) /\ spawner' = [spawner EXCEPT ![NewPid] = t]
            ELSE UNCHANGED <<suspended, since, spawner>>
  /\ threads' = threads \cup {Main(NewPid, 0)}
  /\ UNCHANGED <<execs, waiting, panicked>>
  /\ ThenPass

(* checkCloneFlagsFork rejects the flags: ENOTSUP. *)
CloneRefused(t) ==
  /\ Calling(t, "refused")
  /\ \E shared \in BOOLEAN : CloneProcess(t.pid, shared)
  /\ UNCHANGED <<execs, threads, waiting, suspended, since, panicked, spawner>>
  /\ ThenPass

-----------------------------------------------------------------------------
(* exit, tgkill, exit_group and execve. *)

(* terminate: the thread leaves waitBlockers_, not vmReleaseBlockers_.     *)
Terminate(dead) ==
  /\ threads' = threads \ dead
  /\ waiting' = {b \in waiting : b.thread \notin dead}
  /\ since' = Among(since, Waiters(waiting') \cup suspended)
  /\ UNCHANGED suspended

(* exit ends the thread, tgkill any thread: no parent is told.             *)
Exit(t) ==
  /\ Calling(t, "exit")
  /\ Terminate({t})
  /\ UNCHANGED <<ids, processes, family, space, execs, panicked, spawner>>
  /\ ThenPass

Tgkill(t) ==
  /\ Calling(t, "tgkill")
  /\ \E u \in threads : Terminate({u})
  /\ UNCHANGED <<ids, processes, family, space, execs, panicked, spawner>>
  /\ ThenPass

(* notifyExit and the notifyChildExited of the parent, which verifies that *)
(* it still knows the child.                                               *)
NotifyExit(p) ==
  IF parent[p] = NoParent THEN UNCHANGED <<exited, before, panicked>>
  ELSE IF p \notin children[parent[p]] THEN Panic /\ UNCHANGED <<exited, before>>
  ELSE /\ exited' = [exited EXCEPT ![parent[p]] = @ \cup {p}]
       /\ before' = before \cup (Zombies \X {p})
       /\ UNCHANGED panicked

ExitGroup(t) ==
  /\ Calling(t, "exit_group")
  /\ Terminate(ThreadsOf(t.pid))
  /\ NotifyExit(t.pid)
  /\ UNCHANGED <<ids, processes, parent, children, space, execs, spawner>>
  /\ ThenPass

(* Faulty: the children are forgotten, their exits are not.                *)
ForgetChildren_NotExits(p) ==
  children' = [children EXCEPT ![p] = {}] /\ UNCHANGED <<exited, before>>

(* The last two lines of prepareExec: parent_ of the children remains.     *)
ForgetChildren(p) ==
  /\ children' = [children EXCEPT ![p] = {}]
  /\ exited' = [exited EXCEPT ![p] = {}]
  /\ before' = Among(before, Zombies \ exited[p])

(* execve that finds its program. *)
Exec(t) ==
  /\ Calling(t, "exec") /\ execs[t.pid] < MaxExecs
  /\ waiting' = {b \in waiting : b.thread.pid # t.pid}
  /\ since' = Among(since, Waiters(waiting') \cup suspended)
  /\ execs' = [execs EXCEPT ![t.pid] = @ + 1]
  /\ threads' = (threads \ ThreadsOf(t.pid)) \cup {Main(t.pid, execs[t.pid] + 1)}
  /\ space' = [q \in Ids |-> IF q = t.pid THEN {q} ELSE space[q] \ {t.pid}]
  /\ ForgetChildren(t.pid)
  /\ UNCHANGED <<ids, processes, parent, suspended, panicked, spawner>>
  /\ ThenPass

-----------------------------------------------------------------------------
(* wait4. *)

(* tryRetrieveExitedChild, when it finds c. *)
Retrieve(p, c) ==
  /\ children' = [children EXCEPT ![p] = @ \ {c}]
  /\ exited' = [exited EXCEPT ![p] = @ \ {c}]
  /\ before' = Among(before, Zombies \ {c})

FirstExited(p, c) == c \in exited[p] /\ \A d \in exited[p] : <<d, c>> \notin before

(* WUNTRACED: the first exited child is reported whatever the pid asked    *)
(* for.  Otherwise the call waits, unless WNOHANG finds no exited child.   *)
Wait4(t) ==
  /\ Calling(t, "wait4")
  /\ children[t.pid] # {}
  /\ \E pid \in Targets, opt \in Options :
       IF opt = "untraced" /\ exited[t.pid] # {}
       THEN /\ \E c \in Ids : FirstExited(t.pid, c) /\ Retrieve(t.pid, c)
            /\ UNCHANGED <<waiting, since>>
       ELSE /\ ~(opt = "nohang" /\ exited[t.pid] = {})
            /\ waiting' = waiting \cup {[thread |-> t, pid |-> pid]}
            /\ since' = since \cup ((Waiters(waiting) \cup suspended) \X {t})
            /\ UNCHANGED <<children, exited, before>>
  /\ UNCHANGED <<ids, processes, parent, space, execs, threads, suspended,
                 panicked, spawner>>
  /\ ThenPass

-----------------------------------------------------------------------------
(* The pass of tryUnblockThreads. *)

(* Faulty: the lists are visited from the back.                            *)
Earlier_Newest(t, u) == <<u, t>> \in since

(* waitBlockers_ is visited before vmReleaseBlockers_, each in its order.  *)
Earlier(t, u) ==
  IF t \in suspended THEN u \in suspended /\ <<t, u>> \in since
  ELSE u \in suspended \/ <<t, u>> \in since
Visiting(t) ==
  /\ ~panicked
  /\ t \in pass /\ \A u \in pass : ~Earlier(u, t)

(* Faulty: the pass stops at the first thread that can be unblocked; or a  *)
(* visit alone asks for another pass.                                      *)
Advance_FirstOnly(t, unblocked) ==
  pass' = (IF unblocked THEN {} ELSE pass \ {t}) /\ UNCHANGED hit
Advance_Always(t, unblocked) ==
  IF pass = {t} THEN pass' = Waiters(waiting') \cup suspended' /\ UNCHANGED hit
                ELSE pass' = pass \ {t} /\ UNCHANGED hit

(* The visit is over.  A pass that has unblocked a thread is followed by   *)
(* another (tryPickNext returns TRY_AGAIN).                                *)
Advance(t, unblocked) ==
  IF pass = {t} /\ (hit \/ unblocked)
  THEN ThenPass
  ELSE pass' = pass \ {t} /\ hit' = (hit \/ unblocked)

Leaves(t) ==
  /\ waiting' = {b \in waiting : b.thread # t}
  /\ suspended' = suspended \ {t}
  /\ since' = Among(since, Waiters(waiting') \cup suspended')

(* What WaitBlocker::tryUnblock retrieves, and when it fails to verify.    *)
Answers(b, c) ==
  \/ b.pid > 0 /\ c = b.pid /\ c \in exited[b.thread.pid] \cap children[b.thread.pid]
  \/ b.pid = AnyChild /\ FirstExited(b.thread.pid, c)
Unverified(b) == \/ b.pid > 0 /\ b.pid \notin children[b.thread.pid]
                 \/ b.pid <= 0 /\ b.pid # AnyChild

(* Faulty: the address space is taken for free while another has it.       *)
Released_Two(p) == Cardinality(space[p]) <= 2

(* addressSpaceRefCount() == 1. *)
Released(p) == Cardinality(space[p]) = 1

VisitAnswered(t) ==
  /\ Visiting(t)
  /\ \E b \in waiting, c \in Ids :
       b.thread = t /\ Answers(b, c) /\ Retrieve(t.pid, c)
  /\ Leaves(t)
  /\ UNCHANGED <<ids, processes, parent, space, execs, threads, panicked, spawner>>
  /\ Advance(t, TRUE)

VisitReleased(t) ==
  /\ Visiting(t)
  /\ t \in suspended \cap threads /\ Released(t.pid)
  /\ Leaves(t)
  /\ UNCHANGED <<ids, processes, family, space, execs, threads, panicked, spawner>>
  /\ Advance(t, TRUE)

(* Nothing to unblock. *)
VisitInVain(t) ==
  /\ Visiting(t)
  /\ \/ \E b \in waiting :
          b.thread = t /\ ~Unverified(b) /\ \A c \in Ids : ~Answers(b, c)
     \/ t \in suspended /\ ~Released(t.pid)
  /\ UNCHANGED <<ids, processes, family, space, execs, threads, waiting,
                 suspended, since, panicked, spawner>>
  /\ Advance(t, FALSE)

(* The verifies of tryRetrieveExitedChild, of tryUnblock and of unblock,   *)
(* whose thread has been terminated.                                       *)
VisitFails(t) ==
  /\ Visiting(t)
  /\ \/ \E b \in waiting : b.thread = t /\ Unverified(b)
     \/ t \in suspended \ threads /\ Released(t.pid)
  /\ Panic
  /\ UNCHANGED <<ids, processes, family, space, execs, threads, waiting,
                 suspended, since, passVars, spawner>>

-----------------------------------------------------------------------------
Call(t) == \/ CloneThread(t) \/ Fork(t) \/ CloneRefused(t) \/ Exec(t)
           \/ Exit(t) \/ Tgkill(t) \/ ExitGroup(t) \/ Wait4(t)
Visit(t) == VisitAnswered(t) \/ VisitReleased(t) \/ VisitInVain(t) \/ VisitFails(t)

(* Nothing is left to run: the scheduler panics or its workers return.     *)
Ended ==
  /\ pass = {} \/ panicked
  /\ threads \subseteq Waiters(waiting) \cup suspended \/ panicked
  /\ UNCHANGED vars

Next == Ended \/ (\E t \in threads : Call(t)) \/ (\E t \in pass : Visit(t))

Spec == Init /\ [][Next]_vars

(* tryPickNext loops until nothing is left to unblock. *)
FairSpec == Spec /\ WF_vars(\E t \in pass : Visit(t))

-----------------------------------------------------------------------------
(* Properties. *)

Waits == [thread : Threads, pid : Int]

(* The process table, the families and the blockers have their types. *)
TypeOK ==
  /\ lastUsedPid \in Ids /\ lastUsedTid \in Ids
  /\ processes \subseteq Ids
  /\ parent \in [Ids -> Ids \cup {NoParent}]
  /\ children \in [Ids -> SUBSET processes]
  /\ exited \in [Ids -> SUBSET processes] /\ before \subseteq Ids \X Ids
  /\ space \in [Ids -> SUBSET Ids]
  /\ execs \in [Ids -> 0..MaxExecs]
  /\ threads \subseteq Threads
  /\ waiting \subseteq Waits /\ suspended \subseteq Threads
  /\ since \subseteq Threads \X Threads
  /\ pass \subseteq Waiters(waiting) \cup suspended /\ hit \in BOOLEAN
  /\ panicked \in BOOLEAN
  /\ spawner \in [Ids -> Threads \cup {NoThread}]

(* tryRetrieveExitedChild() verifies that the child whose exit it takes is *)
(* still in children_ ("Cannot find exited child process"): what fork,     *)
(* exit_group, wait4 and execve do to the two vectors keeps them together. *)
ExitedAreChildren == \A p \in Ids : exited[p] \subseteq children[p]

(* Two live threads never have the same tid, though execve gives the pid   *)
(* of the process again to its new thread and pids and tids come from two  *)
(* counters: tgkill and the futex owner words name one thread.             *)
TidsAreUnique == \A t, u \in threads : t.tid = u.tid => t = u

(* While a child that vfork created still uses the memory of its parent,   *)
(* the thread that called vfork does not run: both are on one stack.       *)
ParentIsSuspended ==
  \A c \in Ids :
    /\ spawner[c] \in threads
    /\ c \in space[spawner[c].pid] /\ c # spawner[c].pid
    => spawner[c] \in suspended

(* When the passes are over no thread waits for what has already happened: *)
(* a child that has exited, or an address space that is its own again,     *)
(* whatever other waiter the same pass has served.                         *)
Quiet(t) ==
  /\ \A b \in waiting : b.thread = t =>
       ~Unverified(b) /\ \A c \in Ids : ~Answers(b, c)
  /\ t \in suspended => ~Released(t.pid)
NobodyIsForgotten ==
  pass = {} /\ ~panicked => \A t \in Waiters(waiting) \cup suspended : Quiet(t)

(* No waiter is served in the place of one that has waited longer for any  *)
(* child.                                                                  *)
OldestServedFirst ==
  [][\A b, d \in waiting :
       /\ b \notin waiting' /\ d \in waiting' /\ threads' = threads
       /\ b.thread.pid = d.thread.pid /\ b.pid = AnyChild /\ d.pid = AnyChild
       => <<b.thread, d.thread>> \in since]_vars

(* The passes between two calls come to an end. *)
PassesEnd == pass # {} ~> pass = {} \/ panicked

(* notifyChildExited verifies that the parent knows the child ("Cannot     *)
(* find child process"): exit_group never brings the emulator down.        *)
VerifyChildKnown ==
  [][\A t \in threads : ExitGroup(t) => ~panicked']_vars

(* A thread waits for the release of the memory only while some live       *)
(* thread of another process uses it.                                      *)
SuspendedForAReason ==
  pass = {} /\ ~panicked =>
    \A t \in suspended : \E u \in threads : u.pid \in space[t.pid] /\ u.pid # t.pid

(* The table keeps the promise of ChildLife.                               *)
Life == [p \in Ids |-> IF p \notin processes THEN "unborn"
                       ELSE IF parent[p] = NoParent THEN "running"
                       ELSE IF p \in exited[parent[p]] THEN "zombie"
                       ELSE IF p \in children[parent[p]] THEN "running" ELSE "gone"]
Promise == INSTANCE ChildLife WITH life <- Life
ChildrenLive == Promise!Spec
=============================================================================
