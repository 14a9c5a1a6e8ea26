------------------------------ MODULE Scheduler ------------------------------
(***************************************************************************)
(* The scheduler of the emulated kernel (kernel/linux/scheduler.cpp) in    *)
(* its multi-core build.  Worker threads of the host take jobs, emulated   *)
(* threads, out of one queue protected by one mutex and run them: as plain *)
(* userspace code outside the mutex, as a userspace slice that must run    *)
(* alone (an atomic instruction), or as a system call.  The last two hold  *)
(* the mutex for the whole job and are reserved to worker 0.               *)
(*                                                                         *)
(* A deque or a list is the set of its members with the relation "is in    *)
(* front of": `ahead` for runnableThreads_, `since` for the blocker lists. *)
(* Every system call is reduced to what it does to the scheduler; what     *)
(* makes a file ready, a child exit or an address space free is external   *)
(* to this module and may or may not hold whenever it is looked at.        *)
(***************************************************************************)
EXTENDS Integers, FiniteSets

CONSTANTS
  Workers,    \* the host threads running runOnWorkerThread
  Main,       \* worker 0, the one that may run syscalls and atomic slices
  Nobody,     \* the mutex is free
  NoJob,      \* a worker has no job
  Threads,    \* the emulated threads that may exist in one execution
  Boot,       \* the first one, created by exec before Scheduler::run
  Group,      \* Group[t]: the process thread t belongs to
  Words,      \* the futex words
  ClearTid,   \* ClearTid[t]: the word its exit clears and wakes, or NoWord
  NoWord,
  Blocking,   \* the kinds of blocking call the programs make
  Limits,     \* the deadlines they wait for: future ones, past ones, NoLimit
  NoLimit,    \* a wait without timeout
  Counts,     \* how many waiters a futex wake asks for
  MaxTime,    \* bound on currentTime_ (one unit is the millisecond of WAIT)
  CanPanic    \* TRUE: a verify may fail while a job runs

Kinds == {"sleep", "poll", "futex", "wait", "read", "vm"}
Modes == {"user", "atomic", "kernel"}

ASSUME WorkersAssumption ==
  IsFiniteSet(Workers) /\ Main \in Workers /\ Nobody \notin Workers
ASSUME ThreadsAssumption ==
  /\ Boot \in Threads
  /\ ClearTid \in [Threads -> Words \cup {NoWord}]
  /\ NoWord \notin Words
  /\ NoJob \notin [thread : Threads, mode : Modes]
ASSUME TimeAssumption ==
  /\ MaxTime \in Nat
  /\ NoLimit \notin Nat
  /\ Limits \subseteq Nat \cup {NoLimit}
  /\ \A l \in Limits : l # NoLimit => l < MaxTime
ASSUME SwitchesAssumption == CanPanic \in BOOLEAN /\ Blocking \subseteq Kinds

VARIABLES
  pc,           \* where each worker is
  job,          \* the job it was given
  mutex,        \* schedulerMutex_: its holder
  created,      \* the threads that exist or existed
  threads,      \* threads_
  runningJobs,  \* runningJobs_
  runnable, ahead,   \* runnableThreads_ and its order
  blocked,      \* blockedThreads_
  blockers, since,   \* the eight blocker lists and the order of their entries
  numRunningJobs,    \* numRunningJobs_
  inKernel,     \* inKernel_
  clock,        \* currentTime_
  ns,           \* ThreadTime::ns() of the thread in each worker's slice
  wants,        \* what the thread's two request flags ask for
  doomed,       \* the threads the syscall in progress still has to terminate
  newborn,      \* the threads it adds before it returns
  panicked      \* Kernel::hasPanicked_

queues == <<threads, runningJobs, runnable, ahead, blocked, blockers, since>>
syscallVars == <<created, doomed, newborn>>
timeVars == <<clock, ns>>
(* What a step that only moves a worker, and one inside a syscall, keep.   *)
allButPc == <<job, mutex, queues, numRunningJobs, inKernel, timeVars, wants,
              syscallVars, panicked>>
vars == <<pc, allButPc>>
outOfCall == <<job, mutex, numRunningJobs, inKernel, timeVars, wants, panicked>>

-----------------------------------------------------------------------------
(* Jobs and queues. *)

RunningAs(m) == {j \in runningJobs : j.mode = m}
RunnableAs(m) == {t \in runnable : wants[t] = m}
IsRunning(t) == \E j \in runningJobs : j.thread = t

AllThreadsBlocked == runningJobs = {} /\ runnable = {}
AllThreadsDead == AllThreadsBlocked /\ blocked = {}

(* Faulty: a syscall does not wait for the userspace jobs to stop.         *)
HasRunnableThread_KernelTooEarly(w) ==
  \/ w = Main /\ RunnableAs("kernel") # {}
  \/ /\ RunnableAs("kernel") \cup RunnableAs("atomic") = {}
     /\ RunningAs("kernel") \cup RunningAs("atomic") = {}
     /\ RunnableAs("user") # {}

(* Kernel work excludes everything and goes first, atomic slices come next *)
(* and exclude userspace, and both need worker 0.                          *)
HasRunnableThread(w) ==
  \/ /\ w = Main
     /\ RunnableAs("kernel") # {}
     /\ RunningAs("user") \cup RunningAs("atomic") = {}
  \/ /\ w = Main
     /\ RunnableAs("kernel") \cup RunningAs("kernel") = {}
     /\ RunnableAs("atomic") # {}
     /\ RunningAs("user") = {}
  \/ /\ RunnableAs("kernel") \cup RunnableAs("atomic") = {}
     /\ RunningAs("kernel") \cup RunningAs("atomic") = {}
     /\ RunnableAs("user") # {}

(* The members of S in front of all the others in runnableThreads_. *)
FirstOf(S) == {t \in S : \A u \in S : <<u, t>> \notin ahead}

(* The search of tryPickNext: a thread asking for a syscall if the worker  *)
(* may run one, else one asking for an atomic slice, else any other.       *)
Candidates(w) ==
  LET K == IF w = Main THEN RunnableAs("kernel") ELSE {}
      A == RunnableAs("atomic")
  IN  {t \in runnable :
         \/ t \in FirstOf(K)
         \/ K = {} /\ t \in FirstOf(A)
         \/ K = {} /\ A = {} /\ t \in FirstOf(RunnableAs("user"))}

(* Take `gone` out of the queue, push `come` at its back, in order `rank`. *)
Requeue(gone, come, rank) ==
  LET kept == runnable \ gone
  IN  /\ runnable' = kept \cup come
      /\ ahead' = (ahead \cap (kept \X kept)) \cup (kept \X come)
                    \cup (rank \cap (come \X come))

-----------------------------------------------------------------------------
(* Blockers. *)

ThreadsOf(B) == {b.thread : b \in B}

(* SleepBlocker compares now < target, the others now > timeLimit. *)
Expired(b) ==
  /\ b.limit # NoLimit
  /\ IF b.kind = "sleep" THEN b.limit <= clock ELSE b.limit < clock

(* Files becoming readable, children exiting, address spaces released: a   *)
(* blocker of these kinds may find its condition true at any time.         *)
External == {b \in blockers : b.kind \in {"poll", "wait", "read", "vm"}}

(* tryUnblockThreads goes through the lists in this order. *)
ListRank == [k \in Kinds |->
  CASE k = "sleep" -> 1 [] k = "poll" -> 2 [] k = "futex" -> 3
    [] k = "wait" -> 4 [] k = "read" -> 5 [] k = "vm" -> 6]

UnblockOrder(B) ==
  {<<p[1].thread, p[2].thread>> : p \in
    {q \in B \X B : \/ ListRank[q[1].kind] < ListRank[q[2].kind]
                    \/ /\ q[1].kind = q[2].kind
                       /\ <<q[1].thread, q[2].thread>> \in since}}

(* FutexBlocker::tryUnblock: the word matches, or the time limit passed. *)
Wakeable(B, word) ==
  {b \in B : b.kind = "futex" /\ (b.addr = word \/ Expired(b))}

(* wake stops after the n-th waiter, oldest first; it tests the count      *)
(* after a wake-up, so it wakes one even for n = 0.                        *)
WokenBy(B, word, n) ==
  {b \in Wakeable(B, word) :
     LET older == {c \in Wakeable(B, word) : <<c.thread, b.thread>> \in since}
     IN  Cardinality(older) < (IF n = 0 THEN 1 ELSE n)}

(* Erase the entries of the blocker lists that are not in B. *)
KeepBlockers(B) ==
  /\ blockers' = B
  /\ since' = since \cap (ThreadsOf(B) \X ThreadsOf(B))

(* unblock for every entry of B, each list oldest first. *)
UnblockAll(B, rank) ==
  /\ blocked' = blocked \ ThreadsOf(B)
  /\ Requeue({}, ThreadsOf(B), rank)
  /\ KeepBlockers(blockers \ B)

-----------------------------------------------------------------------------
Init ==
  /\ pc = [w \in Workers |-> "pick"]
  /\ job = [w \in Workers |-> NoJob]
  /\ mutex = Nobody
  /\ created = {Boot}
  /\ threads = {Boot}
  /\ runningJobs = {}
  /\ runnable = {Boot} /\ ahead = {}
  /\ blocked = {}
  /\ blockers = {} /\ since = {}
  /\ numRunningJobs = 0
  /\ inKernel = FALSE
  /\ clock = 0
  /\ ns = [w \in Workers |-> 0]
  /\ wants = [t \in Threads |-> "user"]
  /\ doomed = {} /\ newborn = {}
  /\ panicked = FALSE

Goto(w, p) == pc' = [pc EXCEPT ![w] = p]

(* Faulty: the sleepers stay asleep. *)
AfterNotify_Nobody(p) == p

(* notify_all: the sleepers evaluate their predicate again. *)
AfterNotify(p) == [v \in Workers |-> IF p[v] = "cv" THEN "pick" ELSE p[v]]

-----------------------------------------------------------------------------
(* tryPickNext. *)

(* Faulty: a worker sleeps although all threads are blocked. *)
CanWake_NotWhenBlocked(w) == panicked \/ HasRunnableThread(w)

CanWake(w) == panicked \/ HasRunnableThread(w) \/ AllThreadsBlocked

(* The wait finds its predicate false: the mutex is still held... *)
Doze(w) ==
  /\ pc[w] = "pick" /\ mutex = Nobody /\ ~CanWake(w)
  /\ Goto(w, "doze")
  /\ mutex' = w
  /\ UNCHANGED <<job, queues, numRunningJobs, inKernel, timeVars, wants,
                 syscallVars, panicked>>

(* ... until the worker is in the wait set of the condition variable. *)
Sleep(w) ==
  /\ pc[w] = "doze"
  /\ Goto(w, "cv")
  /\ mutex' = Nobody
  /\ UNCHANGED <<job, queues, numRunningJobs, inKernel, timeVars, wants,
                 syscallVars, panicked>>

(* A condition variable may wake up on its own. *)
SpuriousWake(w) ==
  /\ pc[w] = "cv"
  /\ Goto(w, "pick")
  /\ UNCHANGED allButPc

Picking(w) == pc[w] = "pick" /\ mutex = Nobody /\ CanWake(w)

PickAbort(w) ==
  /\ Picking(w) /\ panicked
  /\ Goto(w, "exited")
  /\ UNCHANGED allButPc

(* tryUnblockThreads finds the blockers B ready and moves their threads to *)
(* the run queue; AGAIN, and nobody is notified.                           *)
PickUnblock(w) ==
  /\ Picking(w) /\ ~panicked
  /\ \E E \in SUBSET External :
       LET B == E \cup {b \in blockers : Expired(b)}
       IN  /\ B # {} /\ ThreadsOf(B) \subseteq blocked
           /\ UnblockAll(B, UnblockOrder(B))
  /\ UNCHANGED <<outOfCall, pc, threads, runningJobs, syscallVars>>

(* A ready blocker of the last list belongs to a thread that is not in     *)
(* blockedThreads_: the lists before it are done, then a verify fails.     *)
PickCrash(w) ==
  /\ Picking(w) /\ ~panicked
  /\ \E E \in SUBSET External :
       LET B == E \cup {b \in blockers : Expired(b)}
           done == {b \in B : b.kind # "vm"}
       IN  /\ ~(ThreadsOf(B) \subseteq blocked)
           /\ UnblockAll(done, UnblockOrder(done))
  /\ Goto(w, "panic")
  /\ UNCHANGED <<outOfCall, threads, runningJobs, syscallVars>>

(* Faulty: blockers are looked at only when there is nothing to run. *)
NothingDue_WhenIdle == runnable # {} \/ \A b \in blockers : ~Expired(b)
NothingDue == \A b \in blockers : ~Expired(b)

DeadlockDetected ==
  /\ AllThreadsBlocked
  /\ blocked # {}
  /\ blocked \subseteq
       ThreadsOf({b \in blockers : b.kind = "futex" /\ b.limit = NoLimit})

(* verify(!deadlock) throws out of tryPickNext. *)
PickDeadlock(w) ==
  /\ Picking(w) /\ ~panicked /\ NothingDue /\ DeadlockDetected
  /\ Goto(w, "panic")
  /\ UNCHANGED allButPc

PickExit(w) ==
  /\ Picking(w) /\ ~panicked /\ NothingDue /\ AllThreadsDead
  /\ pc' = AfterNotify([pc EXCEPT ![w] = "exited"])
  /\ UNCHANGED allButPc

(* Faulty: waits with a timeout are forgotten. *)
NeedsTime_SleepersOnly == \E b \in blockers : b.kind = "sleep"
NeedsTime == \E b \in blockers : b.limit # NoLimit

(* Nothing to run: time advances if somebody waits for it. *)
PickWait(w) ==
  /\ Picking(w) /\ ~panicked /\ NothingDue
  /\ ~DeadlockDetected /\ ~AllThreadsDead /\ Candidates(w) = {}
  /\ clock' = IF NeedsTime /\ clock < MaxTime THEN clock + 1 ELSE clock
  /\ UNCHANGED <<pc, job, mutex, queues, numRunningJobs, inKernel, ns, wants,
                 syscallVars, panicked>>

PickRun(w) ==
  /\ Picking(w) /\ ~panicked /\ NothingDue
  /\ \E t \in Candidates(w) :
       LET j == [thread |-> t, mode |-> wants[t]]
       IN  /\ Requeue({t}, {}, {})
           /\ runningJobs' = runningJobs \cup {j}
           /\ job' = [job EXCEPT ![w] = j]
  /\ Goto(w, "start")
  /\ UNCHANGED <<mutex, threads, blocked, blockers, since, numRunningJobs,
                 inKernel, timeVars, wants, syscallVars, panicked>>

-----------------------------------------------------------------------------
(* The end of a job: stopRunningThread puts the thread back in the queue   *)
(* unless the job blocked or terminated it.                                *)

Self(w) == job[w].thread

(* Faulty: the thread is put back even if it blocked or died. *)
StopRunning_AlwaysBack(w, fresh) ==
  /\ runningJobs' = {j \in runningJobs : j.thread # Self(w)}
  /\ Requeue({}, fresh \cup {Self(w)}, fresh \X {Self(w)})

(* The members of `fresh` are pushed before the thread itself.             *)
StopRunning(w, fresh) ==
  LET back == IF IsRunning(Self(w)) THEN {Self(w)} ELSE {}
  IN  /\ runningJobs' = {j \in runningJobs : j.thread # Self(w)}
      /\ Requeue({}, fresh \cup back, fresh \X back)

(* The guards of the run functions notify after the unlock.                *)
Notify(w) ==
  /\ pc[w] \in {"notify", "alarm"}
  /\ pc' = AfterNotify([pc EXCEPT ![w] = IF @ = "notify" THEN "pick" ELSE "panic"])
  /\ UNCHANGED allButPc

(* Kernel::panic sets the flag, then notifies, without the mutex.          *)
SetPanicked(w) ==
  /\ pc[w] = "panic"
  /\ panicked' = TRUE
  /\ Goto(w, "raise")
  /\ UNCHANGED <<job, mutex, queues, numRunningJobs, inKernel, timeVars, wants,
                 syscallVars>>

RaisePanic(w) ==
  /\ pc[w] = "raise"
  /\ pc' = AfterNotify([pc EXCEPT ![w] = "exited"])
  /\ UNCHANGED allButPc

-----------------------------------------------------------------------------
(* runUserspace: the job runs without the mutex. *)

Starting(w, m) == pc[w] = "start" /\ job[w].mode = m

StartUser(w) ==
  /\ Starting(w, "user")
  /\ numRunningJobs' = numRunningJobs + 1
  /\ ns' = [ns EXCEPT ![w] = clock]
  /\ Goto(w, "user")
  /\ UNCHANGED <<job, mutex, queues, inKernel, clock, wants, syscallVars, panicked>>

(* If the slice ends, it ends earlier with a request for a syscall or an   *)
(* atomic slice, or when its millisecond is used up.  The loop of          *)
(* VM::execute looks at isStopAsked (vm.cpp:130) when native code comes    *)
(* back to it: blocks that jump to each other let the slice last longer.   *)
UserRun(w) ==
  /\ pc[w] = "user"
  /\ \E r \in Modes, d \in 0..MaxTime :
       /\ r = "user" => d > 0 \/ ns[w] = MaxTime
       /\ ns[w] + d <= MaxTime
       /\ ns' = [ns EXCEPT ![w] = @ + d]
       /\ wants' = [wants EXCEPT ![Self(w)] = r]
  /\ Goto(w, "stop")
  /\ UNCHANGED <<job, mutex, queues, numRunningJobs, inKernel, clock, syscallVars,
                 panicked>>

UserFault(w) ==
  /\ CanPanic /\ pc[w] = "user"
  /\ Goto(w, "fault")
  /\ UNCHANGED allButPc

(* Faulty: the slice is added to the clock. *)
Synced_Added(w) == clock + ns[w]

(* syncThreadTimeSlice. *)
Synced(w) == IF clock < ns[w] THEN ns[w] ELSE clock

UserStop(w) ==
  /\ pc[w] \in {"stop", "fault"} /\ mutex = Nobody
  /\ StopRunning(w, {})
  /\ clock' = Synced(w)
  /\ ns' = [ns EXCEPT ![w] = 0]
  /\ numRunningJobs' = numRunningJobs - 1
  /\ job' = [job EXCEPT ![w] = NoJob]
  /\ Goto(w, IF pc[w] = "stop" THEN "notify" ELSE "alarm")
  /\ UNCHANGED <<mutex, threads, blocked, blockers, since, inKernel, wants,
                 syscallVars, panicked>>

(* runUserspaceAtomic: the mutex is held from start to stop. *)

StartAtomic(w) ==
  /\ Starting(w, "atomic") /\ mutex = Nobody
  /\ mutex' = w
  /\ numRunningJobs' = numRunningJobs + 1
  /\ Goto(w, "atomic")
  /\ UNCHANGED <<job, queues, inKernel, timeVars, wants, syscallVars, panicked>>

(* The slice of 100 ns is short on the scale of the clock.  It may end     *)
(* with a syscall request; the atomic one is reset, unless it throws.      *)
AtomicRun(w) ==
  /\ pc[w] = "atomic"
  /\ \/ /\ \E r \in {"user", "kernel"} : wants' = [wants EXCEPT ![Self(w)] = r]
        /\ Goto(w, "notify")
     \/ CanPanic /\ UNCHANGED wants /\ Goto(w, "alarm")
  /\ StopRunning(w, {})
  /\ mutex' = Nobody
  /\ numRunningJobs' = numRunningJobs - 1
  /\ job' = [job EXCEPT ![w] = NoJob]
  /\ UNCHANGED <<threads, blocked, blockers, since, inKernel, timeVars,
                 syscallVars, panicked>>

-----------------------------------------------------------------------------
(* runKernel: the mutex is held and inKernel_ is set for the whole call.   *)

StartKernel(w) ==
  /\ Starting(w, "kernel") /\ mutex = Nobody
  /\ mutex' = w
  /\ numRunningJobs' = numRunningJobs + 1
  /\ inKernel' = TRUE
  /\ Goto(w, "kernel")
  /\ UNCHANGED <<job, queues, timeVars, wants, syscallVars, panicked>>

(* A system call of worker w is entered once. *)
Syscall(w) == pc[w] = "kernel" /\ Goto(w, "leave")

(* One that changes nothing the scheduler looks at. *)
SysReturn(w) ==
  /\ Syscall(w)
  /\ UNCHANGED allButPc

Create(n) == n \in Threads \ created /\ created' = created \cup {n} /\ newborn' = {n}
NewProcess(n) == \A u \in created : Group[u] # Group[n]

(* block of a running thread: the entry at the back of its list.           *)
BlockSelf(w, b) ==
  /\ blockers' = blockers \cup {b}
  /\ since' = since \cup (ThreadsOf(blockers) \X {Self(w)})
  /\ runningJobs' = {j \in runningJobs : j.thread # Self(w)}
  /\ blocked' = blocked \cup {Self(w)}

Blocker(t, k, word, limit) == [thread |-> t, kind |-> k, addr |-> word, limit |-> limit]

(* clone with CLONE_THREAD, or fork.                                       *)
SysClone(w) ==
  /\ Syscall(w)
  /\ \E n \in Threads :
       Create(n) /\ (Group[n] = Group[Self(w)] \/ NewProcess(n))
  /\ UNCHANGED <<outOfCall, queues, doomed>>

(* clone with CLONE_VM and CLONE_VFORK: suspendUntilVmReleased.            *)
SysVfork(w) ==
  /\ Syscall(w) /\ "vm" \in Blocking
  /\ \E n \in Threads : Create(n) /\ NewProcess(n)
  /\ BlockSelf(w, Blocker(Self(w), "vm", NoWord, NoLimit))
  /\ UNCHANGED <<outOfCall, threads, runnable, ahead, doomed>>

(* sleep, poll, select, epoll_wait, read, wait, waitBitset, wait4.         *)
SysBlock(w) ==
  /\ Syscall(w)
  /\ \E k \in Blocking \ {"vm"}, word \in Words \cup {NoWord},
        limit \in Limits \cup {NoLimit} :
       /\ (k = "futex") = (word # NoWord)
       /\ k = "sleep" => limit # NoLimit
       /\ k \in {"wait", "read"} => limit = NoLimit
       /\ BlockSelf(w, Blocker(Self(w), k, word, limit))
  /\ UNCHANGED <<outOfCall, threads, runnable, ahead, syscallVars>>

(* futex FUTEX_WAKE. *)
SysWake(w) ==
  /\ Syscall(w)
  /\ \E word \in Words, n \in Counts : UnblockAll(WokenBy(blockers, word, n), since)
  /\ UNCHANGED <<outOfCall, threads, runningJobs, syscallVars>>

(* futex FUTEX_WAKE_OP: the waiters of one word, then maybe of another.    *)
SysWakeOp(w) ==
  /\ Syscall(w)
  /\ \E word, word2 \in Words, n, n2 \in Counts, cmp \in BOOLEAN :
       LET W == WokenBy(blockers, word, n)
           W2 == IF cmp THEN WokenBy(blockers \ W, word2, n2) ELSE {}
           later == ThreadsOf(W2) \X ThreadsOf(W)
       IN  UnblockAll(W \cup W2,
                      (since \ later) \cup (ThreadsOf(W) \X ThreadsOf(W2)))
  /\ UNCHANGED <<outOfCall, threads, runningJobs, syscallVars>>

(* exit, exit_group, tgkill: the threads to terminate. *)
SysEnd(w) ==
  /\ Syscall(w)
  /\ \/ doomed' = {Self(w)}
     \/ doomed' = {u \in threads : Group[u] = Group[Self(w)]}
     \/ \E u \in threads : doomed' = {u}
  /\ UNCHANGED <<outOfCall, queues, created, newborn>>

(* execve: the whole group goes, and the process gets a new main thread.   *)
SysExec(w) ==
  /\ Syscall(w)
  /\ doomed' = {u \in threads : Group[u] = Group[Self(w)]}
  /\ \E n \in Threads : Create(n) /\ Group[n] = Group[Self(w)]
  /\ UNCHANGED <<outOfCall, queues>>

(* Faulty: a thread that is terminated while it waits stays in the lists.  *)
Survivors_All(u) == blockers
Survivors(u) == {b \in blockers : b.thread # u \/ b.kind = "vm"}

(* terminate, for one thread of the list: it leaves every queue and every  *)
(* blocker list but vmReleaseBlockers_, and its exit wakes a waiter.       *)
Terminate(w, u) ==
  LET left == Survivors(u)
      woken == IF ClearTid[u] = NoWord THEN {} ELSE WokenBy(left, ClearTid[u], 1)
  IN  /\ pc[w] = "leave" /\ u \in doomed
      /\ doomed' = doomed \ {u}
      /\ threads' = threads \ {u}
      /\ runningJobs' = {j \in runningJobs : j.thread # u}
      /\ blocked' = blocked \ ({u} \cup ThreadsOf(woken))
      /\ Requeue({u}, ThreadsOf(woken), since)
      /\ KeepBlockers(left \ woken)
      /\ UNCHANGED <<outOfCall, pc, created, newborn>>

(* Faulty: the count, or the flag, is not restored. *)
LeaveKernel_KeepCount(w) ==
  /\ inKernel' = FALSE
  /\ mutex' = Nobody
  /\ job' = [job EXCEPT ![w] = NoJob]
  /\ UNCHANGED <<numRunningJobs, blocked, blockers, since, timeVars, created, panicked>>

LeaveKernel_StayInKernel(w) ==
  /\ numRunningJobs' = numRunningJobs - 1
  /\ mutex' = Nobody
  /\ job' = [job EXCEPT ![w] = NoJob]
  /\ UNCHANGED <<inKernel, blocked, blockers, since, timeVars, created, panicked>>

(* The guard of runKernel. *)
LeaveKernel(w) ==
  /\ inKernel' = FALSE
  /\ numRunningJobs' = numRunningJobs - 1
  /\ mutex' = Nobody
  /\ job' = [job EXCEPT ![w] = NoJob]
  /\ UNCHANGED <<blocked, blockers, since, timeVars, created, panicked>>

(* addThread for the new thread, resetSyscallRequest, then the guard.      *)
KernelDone(w) ==
  /\ pc[w] = "leave" /\ doomed = {}
  /\ threads' = threads \cup newborn
  /\ newborn' = {}
  /\ StopRunning(w, newborn)
  /\ wants' = [wants EXCEPT ![Self(w)] = "user"]
  /\ Goto(w, "notify")
  /\ LeaveKernel(w)
  /\ UNCHANGED doomed

(* A verify fails in the syscall: only the guard runs. *)
KernelFault(w) ==
  /\ CanPanic /\ pc[w] \in {"kernel", "leave"}
  /\ doomed' = {} /\ newborn' = {}
  /\ StopRunning(w, {})
  /\ Goto(w, "alarm")
  /\ LeaveKernel(w)
  /\ UNCHANGED <<threads, wants>>

-----------------------------------------------------------------------------
Pick(w) == \/ PickAbort(w) \/ PickUnblock(w) \/ PickCrash(w) \/ PickDeadlock(w)
           \/ PickExit(w) \/ PickWait(w) \/ PickRun(w)

AnySyscall(w) == \/ SysReturn(w) \/ SysClone(w) \/ SysVfork(w) \/ SysBlock(w)
                 \/ SysWake(w) \/ SysWakeOp(w) \/ SysEnd(w) \/ SysExec(w)

(* The steps that take the mutex, and those that do not need it. *)
Locking(w) == Doze(w) \/ Pick(w) \/ UserStop(w) \/ StartAtomic(w) \/ StartKernel(w)

Running(w) ==
  \/ Sleep(w) \/ Notify(w) \/ SetPanicked(w) \/ RaisePanic(w)
  \/ StartUser(w) \/ UserRun(w) \/ UserFault(w) \/ AtomicRun(w)
  \/ AnySyscall(w) \/ (\E u \in Threads : Terminate(w, u))
  \/ KernelDone(w) \/ KernelFault(w)

(* Scheduler::run joins the workers. *)
Joined ==
  /\ \A w \in Workers : pc[w] = "exited"
  /\ UNCHANGED vars

Next == Joined \/ \E w \in Workers : Locking(w) \/ Running(w) \/ SpuriousWake(w)

Spec == Init /\ [][Next]_vars

(* The host runs every worker that can run, and its mutex starves nobody.  *)
(* A worker in a slice of userspace owes nothing: native code that stays   *)
(* in patched jumps counts its ticks (compiler.cpp:5812) and goes on       *)
(* (compiler.cpp:5863), and never comes back to the loop that would stop.  *)
Scheduled(w) == pc[w] # "user" /\ Running(w)

(* Every instruction counts for a nanosecond: when slices end again and    *)
(* again, emulated time passes every bound.                                *)
TimePasses ==
  \/ <>[][\A w \in Workers : ~UserRun(w)]_vars
  \/ <>(clock = MaxTime)

FairSpec ==
  /\ Spec
  /\ \A w \in Workers : SF_vars(Locking(w)) /\ WF_vars(Scheduled(w))
  /\ TimePasses

-----------------------------------------------------------------------------
(* Properties. *)

PCs == {"pick", "doze", "cv", "start", "user", "stop", "fault", "atomic",
        "kernel", "leave", "notify", "alarm", "panic", "raise", "exited"}
Jobs == [thread : Threads, mode : Modes]
Blockers == [thread : Threads, kind : Kinds, addr : Words \cup {NoWord},
             limit : Nat \cup {NoLimit}]

(* The members of the scheduler have their types. *)
TypeOK ==
  /\ pc \in [Workers -> PCs]
  /\ job \in [Workers -> Jobs \cup {NoJob}]
  /\ mutex \in Workers \cup {Nobody}
  /\ created \subseteq Threads /\ threads \subseteq Threads
  /\ runningJobs \subseteq Jobs
  /\ runnable \subseteq Threads /\ ahead \subseteq Threads \X Threads
  /\ blocked \subseteq Threads
  /\ blockers \subseteq Blockers /\ since \subseteq Threads \X Threads
  /\ numRunningJobs \in Int
  /\ inKernel \in BOOLEAN
  /\ clock \in 0..MaxTime /\ ns \in [Workers -> 0..MaxTime]
  /\ wants \in [Threads -> Modes]
  /\ doomed \subseteq Threads /\ newborn \subseteq Threads
  /\ panicked \in BOOLEAN

(* runUserspaceAtomic and runKernel verify numRunningJobs_ == 0 once they  *)
(* have the mutex ("jobs running while atomic", "... while in kernel").    *)
(* The job was chosen under an earlier hold of the mutex: whatever the     *)
(* other workers did since then, the verify may not fail.                  *)
VerifyRunAlone ==
  \A w \in Workers :
    (Starting(w, "atomic") \/ Starting(w, "kernel")) /\ mutex = Nobody
      => numRunningJobs = 0

(* While a worker runs a syscall or an atomic slice, no other worker runs  *)
(* emulated code or is about to.                                           *)
InJob(w) == pc[w] \in {"start", "user", "stop", "fault", "atomic", "kernel", "leave"}
RunsAlone ==
  \A v, w \in Workers :
    InJob(v) /\ InJob(w) /\ job[w].mode # "user" => v = w

(* numRunningJobs_ is the number of jobs between their ++ and their --,    *)
(* although runUserspace increments it without the mutex.                  *)
Counted(w) == InJob(w) /\ pc[w] # "start"
CountsJobs == numRunningJobs = Cardinality({w \in Workers : Counted(w)})

(* Only worker 0 runs syscalls and atomic slices, and inKernel_, which the *)
(* scheduler's entry points verify instead of the lock, says that a worker *)
(* that holds the mutex is in a syscall.                                   *)
InKernelHoldsMutex ==
  /\ inKernel <=> mutex = Main /\ pc[Main] \in {"kernel", "leave"}
  /\ \A w \in Workers : pc[w] \in {"kernel", "leave", "atomic"} => w = Main /\ mutex = w

(* Outside a syscall every live thread is in exactly one of the queues,    *)
(* once: block, unblock, terminate and stopRunningThread move it around,   *)
(* each with its own test of where it may be.                              *)
InOneQueue ==
  LET running == {j.thread : j \in runningJobs}
  IN  /\ runnable \cap blocked = {}
      /\ running \cap (runnable \cup blocked) = {}
      /\ \A i, j \in runningJobs : i.thread = j.thread => i = j
      /\ \A t, u \in runnable : t # u => (<<t, u>> \in ahead) # (<<u, t>> \in ahead)
      /\ ~inKernel => threads = runnable \cup blocked \cup running

(* A blocked thread has exactly one blocker, so that something may unblock *)
(* it, and only one thing: a second blocker would fail the verify of       *)
(* unblock or leave a thread that was resumed to be resumed again.         *)
OneBlockerEach ==
  /\ \A t \in blocked : \E b \in blockers : b.thread = t
  /\ \A b, c \in blockers : b.thread = c.thread => b = c
  /\ \A b \in blockers : b.kind # "vm" => b.thread \in blocked

(* wake tests the deadline of every futex waiter it passes and counts the  *)
(* expired ones as woken.  A timed-out waiter must not use up a wake-up    *)
(* meant for another: none has expired when a syscall starts, since the    *)
(* worker that picked it had just unblocked them all.                      *)
NoWakeWasted ==
  \A w \in Workers : pc[w] \in {"start", "kernel"} /\ job[w].mode = "kernel" =>
    \A b \in blockers : b.kind = "futex" => ~Expired(b)

(* Emulated time never goes back, whatever the order in which the workers  *)
(* synchronise the slices they ran concurrently.                           *)
TimeIsMonotone == [][clock' >= clock]_vars

(* A terminated thread never comes back to a queue.                        *)
TerminatedForGood ==
  [][\A t \in created \ threads :
       t \notin newborn => t \notin threads' /\ t \notin runnable']_vars

(* A thread leaves the blocked queue only together with its blocker.       *)
UnblockTakesBlocker ==
  [][\A b \in blockers : b.thread \in blocked \ blocked' /\ b.kind # "vm"
       => b \notin blockers']_vars

(* unblock verifies that the thread is in blockedThreads_.                 *)
VerifyUnblock == [][\A w \in Workers : ~PickCrash(w)]_vars

(* Some worker never comes back from a slice of userspace.                 *)
Endless == \E w \in Workers : <>[](pc[w] = "user")

EveryoneRuns ==
  \A t \in Threads : t \in runnable ~> IsRunning(t) \/ t \notin threads \/ panicked
EveryDeadlineFires ==
  \A t \in Threads :
    (\E b \in blockers : b.thread = t /\ b.limit # NoLimit) ~>
      (\A b \in blockers : b.thread # t) \/ panicked

(* A runnable thread is run, or terminated, unless the kernel panics: the  *)
(* priority of syscalls and atomic slices starves nobody.  That slices end *)
(* is an assumption on the guest, not a promise of the code: one that does *)
(* not keeps its job, and no syscall starts.                               *)
RunnableRuns == Endless \/ EveryoneRuns

(* A wait with a deadline ends, unless a slice is endless: nothing but the *)
(* end of a job makes the sleeping workers look at the blockers again.     *)
DeadlinesFire == Endless \/ EveryDeadlineFires

(* When all threads are dead (after the syscall that killed the last one,  *)
(* which may be an exec about to add another) the workers return, and run  *)
(* joins them.                                                             *)
AllDeadEnds ==
  AllThreadsDead /\ ~inKernel ~> (\A w \in Workers : pc[w] = "exited") \/ panicked

(* tryPickNext gives up when "something bad happened": after a panic every *)
(* worker returns, if slices end.                                          *)
PanicEnds == Endless \/ (panicked ~> (\A w \in Workers : pc[w] = "exited"))

(* The jobs follow the reader-writer discipline of JobExclusion.           *)
Alone == INSTANCE JobExclusion WITH
  active <- [w \in Workers |-> IF InJob(w) THEN job[w].mode ELSE "idle"]
JobsExclude == Alone!Spec
=============================================================================
