--------------------------- MODULE SchedulerProofs ---------------------------
(* Theorems about the scheduler for any number of workers, threads and     *)
(* words, any blocking calls and any deadlines.                            *)
EXTENDS Scheduler, FiniteSetTheorems, TLAPS

(* Updates of the run queue and of the blocker lists keep their types.     *)
LEMMA RequeueType ==
  ASSUME runnable \subseteq Threads, ahead \subseteq Threads \X Threads,
         NEW gone, NEW come, come \subseteq Threads, NEW rank,
         Requeue(gone, come, rank)
  PROVE  runnable' \subseteq Threads /\ ahead' \subseteq Threads \X Threads
BY DEF Requeue

LEMMA BlockersType ==
  ASSUME blockers \subseteq Blockers, since \subseteq Threads \X Threads,
         NEW B, B \subseteq blockers
  PROVE  /\ ThreadsOf(B) \subseteq Threads
         /\ KeepBlockers(B) => /\ blockers' \subseteq Blockers
                               /\ since' \subseteq Threads \X Threads
BY DEF KeepBlockers, ThreadsOf, Blockers

LEMMA UnblockType ==
  ASSUME TypeOK, NEW B, B \subseteq blockers, NEW rank, UnblockAll(B, rank)
  PROVE  /\ runnable' \subseteq Threads /\ ahead' \subseteq Threads \X Threads
         /\ blocked' \subseteq Threads
         /\ blockers' \subseteq Blockers /\ since' \subseteq Threads \X Threads
<1>1. ThreadsOf(B) \subseteq Threads
  BY BlockersType DEF TypeOK
<1>2. runnable' \subseteq Threads /\ ahead' \subseteq Threads \X Threads
  BY <1>1, RequeueType DEF TypeOK, UnblockAll
<1>3. blockers' \subseteq Blockers /\ since' \subseteq Threads \X Threads
  BY BlockersType DEF TypeOK, UnblockAll
<1> QED BY <1>2, <1>3 DEF TypeOK, UnblockAll

LEMMA WokenAreBlockers ==
  ASSUME NEW B, NEW word, NEW n
  PROVE  WokenBy(B, word, n) \subseteq B
BY DEF WokenBy, Wakeable

-----------------------------------------------------------------------------
(* The inductive invariant.                                                *)

Holding == {"doze", "atomic", "kernel", "leave"}
Busy(w) == InJob(w) /\ pc[w] # "leave"
RunningThreads == {j.thread : j \in runningJobs}

(* What a worker's job is at each place, and who holds the mutex.          *)
WorkersInv ==
  /\ \A w \in Workers : InJob(w) => job[w] \in Jobs
  /\ \A w \in Workers : pc[w] \in {"user", "stop", "fault"} => job[w].mode = "user"
  /\ \A w \in Workers : pc[w] = "atomic" => job[w].mode = "atomic"
  /\ \A w \in Workers : pc[w] \in {"kernel", "leave"} => job[w].mode = "kernel"
  /\ \A w \in Workers : pc[w] \in Holding <=> mutex = w
  /\ \A w \in Workers : InJob(w) /\ job[w].mode # "user" => w = Main
  /\ inKernel <=> pc[Main] \in {"kernel", "leave"}

(* The jobs of the workers are the running jobs, except that the thread of *)
(* a syscall may have left them; two workers have two threads.             *)
JobsInv ==
  /\ \A w \in Workers : Busy(w) => job[w] \in runningJobs
  /\ \A j \in runningJobs : \E w \in Workers : InJob(w) /\ job[w] = j
  /\ \A v, w \in Workers :
       InJob(v) /\ InJob(w) /\ job[v].thread = job[w].thread => v = w

(* The queues share no thread and hold all live threads; what a syscall in *)
(* progress adds or terminates is accounted for.                           *)
QueuesInv ==
  /\ threads = runnable \cup blocked \cup RunningThreads
  /\ runnable \cap blocked = {}
  /\ RunningThreads \cap (runnable \cup blocked) = {}
  /\ threads \subseteq created
  /\ newborn \subseteq created \ threads
  /\ \A w \in Workers : InJob(w) =>
       /\ Self(w) \in created \ newborn
       /\ Self(w) \notin runnable
       /\ Self(w) \in blocked => pc[w] = "leave" /\ doomed = {}
  /\ doomed \cup newborn # {} => pc[Main] = "leave"

(* OneBlockerEach, and where the threads of the entries are.               *)
BlockersInv ==
  /\ OneBlockerEach
  /\ \A b \in blockers :
       b.thread \in blocked \/ (b.kind = "vm" /\ b.thread \in created \ (threads \cup newborn))

IInv == TypeOK /\ WorkersInv /\ RunsAlone /\ JobsInv /\ QueuesInv /\ BlockersInv

-----------------------------------------------------------------------------
(* Type correctness. *)

LEMMA NotifyType ==
  ASSUME NEW p \in [Workers -> PCs]
  PROVE  AfterNotify(p) \in [Workers -> PCs]
BY DEF AfterNotify, PCs

LEMMA GotoType ==
  ASSUME pc \in [Workers -> PCs], NEW w \in Workers, NEW p \in PCs, Goto(w, p)
  PROVE  pc' \in [Workers -> PCs]
BY DEF Goto

LEMMA BlockType ==
  ASSUME TypeOK, NEW w \in Workers, Self(w) \in Threads,
         NEW k \in Kinds, NEW word \in Words \cup {NoWord}, NEW limit \in Nat \cup {NoLimit},
         BlockSelf(w, Blocker(Self(w), k, word, limit))
  PROVE  /\ runningJobs' \subseteq Jobs /\ blocked' \subseteq Threads
         /\ blockers' \subseteq Blockers /\ since' \subseteq Threads \X Threads
<1>1. Blocker(Self(w), k, word, limit) \in Blockers
  BY DEF Blocker, Blockers
<1>2. ThreadsOf(blockers) \subseteq Threads
  BY BlockersType DEF TypeOK
<1> QED BY <1>1, <1>2 DEF TypeOK, BlockSelf

LEMMA StopType ==
  ASSUME TypeOK, NEW w \in Workers, NEW fresh, fresh \subseteq Threads,
         StopRunning(w, fresh)
  PROVE  /\ runningJobs' \subseteq Jobs
         /\ runnable' \subseteq Threads /\ ahead' \subseteq Threads \X Threads
<1> DEFINE back == IF IsRunning(Self(w)) THEN {Self(w)} ELSE {}
<1>1. back \subseteq Threads
  BY DEF TypeOK, IsRunning, Jobs
<1>2. Requeue({}, fresh \cup back, fresh \X back)
  BY DEF StopRunning
<1>3. runnable' \subseteq Threads /\ ahead' \subseteq Threads \X Threads
  <2> HIDE DEF back
  <2> QED BY <1>1, <1>2, RequeueType DEF TypeOK
<1> QED BY <1>3 DEF TypeOK, StopRunning

LEMMA PickType ==
  ASSUME TypeOK, NEW w \in Workers, Doze(w) \/ Pick(w)
  PROVE  TypeOK'
<1>1. CASE Doze(w)
  BY <1>1 DEF Doze, TypeOK, Goto, PCs, allButPc, queues, timeVars, syscallVars
<1>2. CASE PickAbort(w)
  BY <1>2 DEF PickAbort, TypeOK, Goto, PCs, allButPc, queues, timeVars, syscallVars
<1>3. CASE PickUnblock(w)
  <2>1. PICK E \in SUBSET External :
          UnblockAll(E \cup {b \in blockers : Expired(b)},
                     UnblockOrder(E \cup {b \in blockers : Expired(b)}))
    BY <1>3 DEF PickUnblock
  <2>2. E \cup {b \in blockers : Expired(b)} \subseteq blockers
    BY DEF External
  <2>3. /\ runnable' \subseteq Threads /\ ahead' \subseteq Threads \X Threads
        /\ blocked' \subseteq Threads
        /\ blockers' \subseteq Blockers /\ since' \subseteq Threads \X Threads
    BY <2>1, <2>2, UnblockType
  <2> QED BY <1>3, <2>3 DEF PickUnblock, TypeOK, outOfCall, timeVars, syscallVars
<1>4. CASE PickCrash(w)
  <2>1. PICK E \in SUBSET External :
          LET done == {b \in E \cup {b \in blockers : Expired(b)} : b.kind # "vm"}
          IN  UnblockAll(done, UnblockOrder(done))
    BY <1>4 DEF PickCrash
  <2>2. {b \in E \cup {b \in blockers : Expired(b)} : b.kind # "vm"} \subseteq blockers
    BY DEF External
  <2>3. /\ runnable' \subseteq Threads /\ ahead' \subseteq Threads \X Threads
        /\ blocked' \subseteq Threads
        /\ blockers' \subseteq Blockers /\ since' \subseteq Threads \X Threads
    BY <2>1, <2>2, UnblockType
  <2> QED BY <1>4, <2>3 DEF PickCrash, TypeOK, Goto, PCs, outOfCall, timeVars, syscallVars
<1>5. CASE PickDeadlock(w)
  BY <1>5 DEF PickDeadlock, TypeOK, Goto, PCs, allButPc, queues, timeVars, syscallVars
<1>6. CASE PickExit(w)
  <2>1. [pc EXCEPT ![w] = "exited"] \in [Workers -> PCs]
    BY DEF TypeOK, PCs
  <2>2. pc' \in [Workers -> PCs]
    BY <1>6, <2>1, NotifyType DEF PickExit
  <2> QED BY <1>6, <2>2 DEF PickExit, TypeOK, allButPc, queues, timeVars, syscallVars
<1>7. CASE PickWait(w)
  <2>1. clock' \in 0..MaxTime
    BY <1>7, TimeAssumption DEF PickWait, TypeOK
  <2> QED BY <1>7, <2>1 DEF PickWait, TypeOK, queues, syscallVars
<1>8. CASE PickRun(w)
  <2>1. PICK t \in Candidates(w) :
          /\ Requeue({t}, {}, {})
          /\ runningJobs' = runningJobs \cup {[thread |-> t, mode |-> wants[t]]}
          /\ job' = [job EXCEPT ![w] = [thread |-> t, mode |-> wants[t]]]
    BY <1>8 DEF PickRun
  <2>2. [thread |-> t, mode |-> wants[t]] \in Jobs
    BY DEF TypeOK, Candidates, Jobs
  <2>3. runnable' \subseteq Threads /\ ahead' \subseteq Threads \X Threads
    BY <2>1, RequeueType DEF TypeOK
  <2> QED BY <1>8, <2>1, <2>2, <2>3 DEF PickRun, TypeOK, Goto, PCs, timeVars, syscallVars
<1> QED BY <1>1, <1>2, <1>3, <1>4, <1>5, <1>6, <1>7, <1>8 DEF Pick

LEMMA JobType ==
  ASSUME TypeOK, WorkersInv, NEW w \in Workers,
         UserStop(w) \/ StartAtomic(w) \/ StartKernel(w) \/ Sleep(w) \/ SpuriousWake(w)
         \/ Notify(w) \/ SetPanicked(w) \/ RaisePanic(w) \/ StartUser(w) \/ UserRun(w)
         \/ UserFault(w) \/ AtomicRun(w)
  PROVE  TypeOK'
<1> USE DEF allButPc, queues, timeVars, syscallVars
<1>1. CASE UserStop(w)
  <2>1. /\ runningJobs' \subseteq Jobs
        /\ runnable' \subseteq Threads /\ ahead' \subseteq Threads \X Threads
    BY <1>1, StopType DEF UserStop
  <2>2. clock' \in 0..MaxTime /\ ns' \in [Workers -> 0..MaxTime]
    BY <1>1, TimeAssumption DEF UserStop, Synced, TypeOK
  <2>3. pc' \in [Workers -> PCs]
    BY <1>1 DEF UserStop, Goto, PCs, TypeOK
  <2> QED BY <1>1, <2>1, <2>2, <2>3 DEF UserStop, TypeOK
<1>2. CASE StartAtomic(w)
  BY <1>2 DEF StartAtomic, TypeOK, Goto, PCs
<1>3. CASE StartKernel(w)
  BY <1>3 DEF StartKernel, TypeOK, Goto, PCs
<1>4. CASE Sleep(w) \/ SpuriousWake(w) \/ SetPanicked(w) \/ UserFault(w)
  BY <1>4 DEF Sleep, SpuriousWake, SetPanicked, UserFault, TypeOK, Goto, PCs
<1>5. CASE Notify(w) \/ RaisePanic(w)
  <2>1. /\ [pc EXCEPT ![w] = IF @ = "notify" THEN "pick" ELSE "panic"] \in [Workers -> PCs]
        /\ [pc EXCEPT ![w] = "exited"] \in [Workers -> PCs]
    BY DEF TypeOK, PCs
  <2>2. pc' \in [Workers -> PCs]
    BY <1>5, <2>1, NotifyType DEF Notify, RaisePanic
  <2> QED BY <1>5, <2>2 DEF Notify, RaisePanic, TypeOK
<1>6. CASE StartUser(w)
  BY <1>6 DEF StartUser, TypeOK, Goto, PCs
<1>7. CASE UserRun(w)
  <2>1. PICK r \in Modes, d \in 0..MaxTime :
          /\ ns[w] + d <= MaxTime
          /\ ns' = [ns EXCEPT ![w] = @ + d]
          /\ wants' = [wants EXCEPT ![Self(w)] = r]
    BY <1>7 DEF UserRun
  <2>2. ns' \in [Workers -> 0..MaxTime] /\ wants' \in [Threads -> Modes]
    <3>1. ns[w] + d \in 0..MaxTime
      BY <2>1, TimeAssumption DEF TypeOK
    <3> QED BY <2>1, <3>1 DEF TypeOK
  <2>3. pc' \in [Workers -> PCs]
    BY <1>7 DEF UserRun, TypeOK, Goto, PCs
  <2> QED BY <1>7, <2>2, <2>3 DEF UserRun, TypeOK
<1>8. CASE AtomicRun(w)
  <2>1. /\ runningJobs' \subseteq Jobs
        /\ runnable' \subseteq Threads /\ ahead' \subseteq Threads \X Threads
    BY <1>8, StopType DEF AtomicRun
  <2>2. pc' \in [Workers -> PCs] /\ wants' \in [Threads -> Modes]
    BY <1>8 DEF AtomicRun, TypeOK, Goto, PCs, Modes
  <2>3. job' \in [Workers -> Jobs \cup {NoJob}] /\ numRunningJobs' \in Int
    BY <1>8 DEF AtomicRun, TypeOK
  <2> QED BY <1>8, <2>1, <2>2, <2>3 DEF AtomicRun, TypeOK
<1> QED BY <1>1, <1>2, <1>3, <1>4, <1>5, <1>6, <1>7, <1>8

LEMMA KernelType ==
  ASSUME TypeOK, WorkersInv, NEW w \in Workers,
         AnySyscall(w) \/ (\E u \in Threads : Terminate(w, u)) \/ KernelDone(w)
         \/ KernelFault(w)
  PROVE  TypeOK'
<1> USE DEF allButPc, outOfCall, queues, timeVars, syscallVars
<1>1. Syscall(w) => Self(w) \in Threads /\ pc' \in [Workers -> PCs]
  BY DEF Syscall, Goto, WorkersInv, InJob, Self, Jobs, TypeOK, PCs
<1>2. CASE SysReturn(w) \/ SysEnd(w) \/ SysExec(w) \/ SysClone(w)
  BY <1>1, <1>2 DEF SysReturn, SysEnd, SysExec, SysClone, Create, TypeOK
<1>3. CASE SysVfork(w)
  <2>1. BlockSelf(w, Blocker(Self(w), "vm", NoWord, NoLimit)) /\ Self(w) \in Threads
    BY <1>1, <1>3 DEF SysVfork
  <2>2. /\ runningJobs' \subseteq Jobs /\ blocked' \subseteq Threads
        /\ blockers' \subseteq Blockers /\ since' \subseteq Threads \X Threads
    BY <2>1, BlockType DEF Kinds
  <2> QED BY <1>1, <1>3, <2>2 DEF SysVfork, Create, TypeOK
<1>4. CASE SysBlock(w)
  <2>1. PICK k \in Blocking \ {"vm"}, word \in Words \cup {NoWord},
             limit \in Limits \cup {NoLimit} :
          BlockSelf(w, Blocker(Self(w), k, word, limit))
    BY <1>4 DEF SysBlock
  <2>2. k \in Kinds /\ limit \in Nat \cup {NoLimit} /\ Self(w) \in Threads
    BY <1>1, <1>4, SwitchesAssumption, TimeAssumption DEF SysBlock
  <2>3. /\ runningJobs' \subseteq Jobs /\ blocked' \subseteq Threads
        /\ blockers' \subseteq Blockers /\ since' \subseteq Threads \X Threads
    BY <2>1, <2>2, BlockType
  <2> QED BY <1>1, <1>4, <2>3 DEF SysBlock, TypeOK
<1>5. CASE SysWake(w) \/ SysWakeOp(w)
  <2>1. PICK W, rank : W \subseteq blockers /\ UnblockAll(W, rank)
    <3>1. CASE SysWake(w)
      BY <3>1, WokenAreBlockers DEF SysWake
    <3>2. CASE SysWakeOp(w)
      <4>1. PICK word \in Words, word2 \in Words, n \in Counts, n2 \in Counts,
                 cmp \in BOOLEAN :
              LET W == WokenBy(blockers, word, n)
                  W2 == IF cmp THEN WokenBy(blockers \ W, word2, n2) ELSE {}
                  later == ThreadsOf(W2) \X ThreadsOf(W)
              IN  UnblockAll(W \cup W2,
                             (since \ later) \cup (ThreadsOf(W) \X ThreadsOf(W2)))
        BY <3>2 DEF SysWakeOp
      <4> DEFINE W == WokenBy(blockers, word, n)
                 W2 == IF cmp THEN WokenBy(blockers \ W, word2, n2) ELSE {}
      <4>2. W \subseteq blockers /\ W2 \subseteq blockers
        BY WokenAreBlockers
      <4>3. W \cup W2 \subseteq blockers
        BY <4>2
      <4> QED BY <4>1, <4>3
    <3> QED BY <1>5, <3>1, <3>2
  <2>2. /\ runnable' \subseteq Threads /\ ahead' \subseteq Threads \X Threads
        /\ blocked' \subseteq Threads
        /\ blockers' \subseteq Blockers /\ since' \subseteq Threads \X Threads
    BY <2>1, UnblockType
  <2>3. Syscall(w) /\ UNCHANGED <<outOfCall, threads, runningJobs, syscallVars>>
    BY <1>5 DEF SysWake, SysWakeOp
  <2> QED BY <1>1, <2>2, <2>3 DEF TypeOK
<1>6. CASE \E u \in Threads : Terminate(w, u)
  <2>1. PICK u \in Threads : Terminate(w, u)
    BY <1>6
  <2> DEFINE left == Survivors(u)
             woken == IF ClearTid[u] = NoWord THEN {} ELSE WokenBy(left, ClearTid[u], 1)
  <2>2. left \subseteq blockers /\ woken \subseteq left
    BY WokenAreBlockers DEF Survivors
  <2>3. ThreadsOf(woken) \subseteq Threads
    BY <2>2, BlockersType DEF TypeOK
  <2>4. /\ Requeue({u}, ThreadsOf(woken), since) /\ KeepBlockers(left \ woken)
        /\ blocked' = blocked \ ({u} \cup ThreadsOf(woken))
    BY <2>1 DEF Terminate
  <2>5. runnable' \subseteq Threads /\ ahead' \subseteq Threads \X Threads
    <3> HIDE DEF woken
    <3> QED BY <2>3, <2>4, RequeueType DEF TypeOK
  <2>6. blockers' \subseteq Blockers /\ since' \subseteq Threads \X Threads
    <3> HIDE DEF left, woken
    <3>1. left \ woken \subseteq blockers
      BY <2>2
    <3> QED BY <3>1, <2>4, BlockersType DEF TypeOK
  <2>7. blocked' \subseteq Threads
    BY <2>4 DEF TypeOK
  <2> QED BY <2>1, <2>5, <2>6, <2>7 DEF Terminate, TypeOK
<1>7. CASE KernelDone(w)
  <2>1. /\ runningJobs' \subseteq Jobs
        /\ runnable' \subseteq Threads /\ ahead' \subseteq Threads \X Threads
    BY <1>7, StopType DEF KernelDone, TypeOK
  <2>2. wants' \in [Threads -> Modes] /\ pc' \in [Workers -> PCs]
    BY <1>7 DEF KernelDone, TypeOK, Goto, PCs, Modes
  <2>3. LeaveKernel(w)
    BY <1>7 DEF KernelDone
  <2>5. job' \in [Workers -> Jobs \cup {NoJob}]
    BY <2>3 DEF LeaveKernel, TypeOK
  <2>6. inKernel' = FALSE /\ numRunningJobs' \in Int /\ mutex' = Nobody
    BY <2>3 DEF LeaveKernel, TypeOK
  <2>4. threads' \subseteq Threads /\ newborn' \subseteq Threads /\ doomed' \subseteq Threads
    BY <1>7 DEF KernelDone, TypeOK
  <2> QED BY <1>7, <2>1, <2>2, <2>3, <2>4, <2>5, <2>6 DEF KernelDone, LeaveKernel, TypeOK
<1>8. CASE KernelFault(w)
  <2>1. /\ runningJobs' \subseteq Jobs
        /\ runnable' \subseteq Threads /\ ahead' \subseteq Threads \X Threads
    BY <1>8, StopType DEF KernelFault
  <2>2. pc' \in [Workers -> PCs]
    BY <1>8 DEF KernelFault, TypeOK, Goto, PCs
  <2>3. LeaveKernel(w)
    BY <1>8 DEF KernelFault
  <2>5. job' \in [Workers -> Jobs \cup {NoJob}]
    BY <2>3 DEF LeaveKernel, TypeOK
  <2>6. inKernel' = FALSE /\ numRunningJobs' \in Int /\ mutex' = Nobody
    BY <2>3 DEF LeaveKernel, TypeOK
  <2>4. newborn' \subseteq Threads /\ doomed' \subseteq Threads
    BY <1>8 DEF KernelFault, TypeOK
  <2> QED BY <1>8, <2>1, <2>2, <2>3, <2>4, <2>5, <2>6 DEF KernelFault, LeaveKernel, TypeOK
<1> QED BY <1>2, <1>3, <1>4, <1>5, <1>6, <1>7, <1>8 DEF AnySyscall

LEMMA TypeStep == TypeOK /\ WorkersInv /\ [Next]_vars => TypeOK'
<1> SUFFICES ASSUME TypeOK, WorkersInv, [Next]_vars PROVE TypeOK'
  OBVIOUS
<1>1. CASE UNCHANGED vars
  BY <1>1 DEF TypeOK, vars, allButPc, queues, timeVars, syscallVars
<1>2. CASE Joined
  BY <1>1, <1>2 DEF Joined
<1>3. CASE \E w \in Workers : Locking(w) \/ Running(w) \/ SpuriousWake(w)
  BY <1>3, PickType, JobType, KernelType DEF Locking, Running
<1> QED BY <1>1, <1>2, <1>3 DEF Next

-----------------------------------------------------------------------------
(* What tryPickNext chooses. *)

(* The predicate a worker waits for and the search it makes afterwards     *)
(* agree: an exclusive job is chosen by worker 0 only and when nothing     *)
(* runs, a userspace job when no exclusive one runs.                       *)
LEMMA PickedJob ==
  ASSUME IInv, NEW w \in Workers, Picking(w), ~panicked, NEW t \in Candidates(w)
  PROVE  /\ t \in runnable /\ t \in Threads /\ wants[t] \in Modes
         /\ wants[t] # "user" => w = Main /\ runningJobs = {}
         /\ \A j \in runningJobs : j.mode = "user"
<1>1. t \in runnable /\ t \in Threads /\ wants[t] \in Modes
  BY DEF Candidates, IInv, TypeOK
<1>2. HasRunnableThread(w)
  BY <1>1 DEF Picking, CanWake, AllThreadsBlocked
<1>3. ~InJob(w)
  BY DEF Picking, InJob
<1>4. w = Main => \A j \in runningJobs : j.mode = "user"
  BY <1>3 DEF IInv, JobsInv, WorkersInv
<1>5. \A j \in runningJobs : j.mode \in Modes
  BY DEF IInv, TypeOK, Jobs
<1>6. CASE w # Main
  <2>1. RunnableAs("atomic") = {} /\ RunningAs("kernel") \cup RunningAs("atomic") = {}
    BY <1>2, <1>6 DEF HasRunnableThread
  <2>2. wants[t] = "user"
    BY <1>6, <2>1 DEF Candidates, FirstOf, RunnableAs
  <2> QED BY <1>1, <1>5, <2>1, <2>2 DEF RunningAs, Modes
<1>7. CASE w = Main
  <2>1. wants[t] # "user" => RunningAs("user") = {}
    BY <1>2, <1>7 DEF HasRunnableThread, Candidates, FirstOf, RunnableAs
  <2> QED BY <1>1, <1>4, <1>7, <2>1 DEF RunningAs
<1> QED BY <1>6, <1>7

(* Nobody is in a job that excludes the others when the mutex is free and  *)
(* a worker picks.                                                         *)
LEMMA PickerAlone ==
  ASSUME IInv, NEW w \in Workers, Picking(w), ~panicked, NEW t \in Candidates(w),
         NEW v \in Workers, InJob(v)
  PROVE  job[v].mode = "user" /\ wants[t] = "user"
<1>1. Busy(v)
  BY WorkersAssumption DEF IInv, WorkersInv, Picking, Busy, Holding
<1>2. job[v] \in runningJobs
  BY <1>1 DEF IInv, JobsInv
<1> QED BY <1>2, PickedJob

-----------------------------------------------------------------------------
(* Steps that move no worker into, out of or through a job. *)

JobPCs == {"start", "user", "stop", "fault", "atomic", "kernel", "leave"}

LEMMA QuietStep ==
  ASSUME IInv, TypeOK', UNCHANGED <<job, queues, syscallVars, inKernel>>,
         \A v \in Workers : pc'[v] = pc[v] \/ (pc[v] \notin JobPCs /\ pc'[v] \notin JobPCs),
         \A v \in Workers : pc'[v] \in Holding <=> mutex' = v
  PROVE  IInv'
<1>1. \A v \in Workers :
        /\ InJob(v)' <=> InJob(v)
        /\ InJob(v) => pc'[v] = pc[v]
        /\ \A p \in JobPCs : pc'[v] = p <=> pc[v] = p
  BY DEF InJob, JobPCs
<1>2. WorkersInv'
  <2>1. \A v \in Workers : InJob(v)' => job'[v] \in Jobs /\ (job'[v].mode # "user" => v = Main)
    BY <1>1 DEF IInv, WorkersInv
  <2>2. \A v \in Workers :
          /\ pc'[v] \in {"user", "stop", "fault"} => job'[v].mode = "user"
          /\ pc'[v] = "atomic" => job'[v].mode = "atomic"
          /\ pc'[v] \in {"kernel", "leave"} => job'[v].mode = "kernel"
    BY DEF IInv, WorkersInv, JobPCs
  <2>3. inKernel' <=> pc'[Main] \in {"kernel", "leave"}
    BY <1>1, WorkersAssumption DEF IInv, WorkersInv, JobPCs
  <2> QED BY <2>1, <2>2, <2>3 DEF WorkersInv
<1>3. RunsAlone'
  BY <1>1 DEF IInv, RunsAlone
<1>4. JobsInv'
  BY <1>1 DEF IInv, JobsInv, Busy, queues
<1>5. QueuesInv'
  <2>1. /\ \A v \in Workers : InJob(v)' =>
             /\ Self(v)' \in created' \ newborn'
             /\ Self(v)' \notin runnable'
             /\ Self(v)' \in blocked' => pc'[v] = "leave" /\ doomed' = {}
    BY <1>1 DEF IInv, QueuesInv, queues, syscallVars, Self
  <2>2. doomed' \cup newborn' # {} => pc'[Main] = "leave"
    BY <1>1, WorkersAssumption DEF IInv, QueuesInv, syscallVars, JobPCs
  <2> QED BY <2>1, <2>2 DEF IInv, QueuesInv, RunningThreads, queues, syscallVars
<1>6. BlockersInv'
  BY DEF IInv, BlockersInv, OneBlockerEach, queues, syscallVars
<1> QED BY <1>2, <1>3, <1>4, <1>5, <1>6 DEF IInv

LEMMA QuietActions ==
  ASSUME IInv, TypeOK', NEW w \in Workers,
         \/ Doze(w) \/ PickAbort(w) \/ PickDeadlock(w) \/ PickExit(w) \/ PickWait(w)
         \/ Sleep(w) \/ SpuriousWake(w) \/ Notify(w) \/ SetPanicked(w) \/ RaisePanic(w)
  PROVE  IInv'
<1> USE DEF allButPc, queues, timeVars, syscallVars
<1>1. UNCHANGED <<job, queues, syscallVars, inKernel>>
  BY DEF Doze, PickAbort, PickDeadlock, PickExit, PickWait, Sleep, SpuriousWake, Notify,
         SetPanicked, RaisePanic
<1>2. \A v \in Workers : pc[v] \in Holding <=> mutex = v
  BY DEF IInv, WorkersInv
<1>3. pc \in [Workers -> PCs]
  BY DEF IInv, TypeOK
<1>4. /\ \A v \in Workers : pc'[v] = pc[v] \/ (pc[v] \notin JobPCs /\ pc'[v] \notin JobPCs)
      /\ \A v \in Workers : pc'[v] \in Holding <=> mutex' = v
  <2>1. CASE Doze(w)
    BY <1>2, <1>3, <2>1, WorkersAssumption DEF Doze, Goto, JobPCs, Holding
  <2>2. CASE Sleep(w)
    BY <1>2, <1>3, <2>2, WorkersAssumption DEF Sleep, Goto, JobPCs, Holding
  <2>3. CASE PickAbort(w) \/ PickDeadlock(w) \/ SpuriousWake(w) \/ SetPanicked(w)
    BY <1>2, <1>3, <2>3
    DEF PickAbort, PickDeadlock, SpuriousWake, SetPanicked, Picking, Goto, JobPCs, Holding
  <2>4. CASE PickExit(w)
    BY <1>2, <1>3, <2>4 DEF PickExit, Picking, AfterNotify, JobPCs, Holding
  <2>5. CASE Notify(w)
    BY <1>2, <1>3, <2>5 DEF Notify, AfterNotify, JobPCs, Holding
  <2>6. CASE RaisePanic(w)
    BY <1>2, <1>3, <2>6 DEF RaisePanic, AfterNotify, JobPCs, Holding
  <2>7. CASE PickWait(w)
    BY <1>2, <2>7 DEF PickWait
  <2> QED BY <2>1, <2>2, <2>3, <2>4, <2>5, <2>6, <2>7
<1> QED BY <1>1, <1>4, QuietStep

-----------------------------------------------------------------------------
(* Steps of a worker inside its job that leave the queues alone. *)

LEMMA JobStep ==
  ASSUME IInv, TypeOK', NEW w \in Workers,
         StartUser(w) \/ UserRun(w) \/ UserFault(w) \/ StartAtomic(w) \/ StartKernel(w)
  PROVE  IInv'
<1> USE DEF allButPc, queues, timeVars, syscallVars
<1>1. /\ UNCHANGED <<job, queues, syscallVars>>
      /\ pc \in [Workers -> PCs]
      /\ InJob(w) /\ pc[w] \in {"start", "user"}
      /\ pc' = [pc EXCEPT ![w] = pc'[w]]
  BY DEF StartUser, UserRun, UserFault, StartAtomic, StartKernel, Starting, Goto, InJob,
         IInv, TypeOK
<1>2. \/ mutex' = mutex /\ inKernel' = inKernel /\ pc'[w] \in {"user", "stop", "fault"}
         /\ job[w].mode = "user"
      \/ mutex = Nobody /\ mutex' = w /\ inKernel' = inKernel /\ pc'[w] = "atomic"
         /\ job[w].mode = "atomic"
      \/ mutex = Nobody /\ mutex' = w /\ inKernel' = TRUE /\ pc'[w] = "kernel"
         /\ job[w].mode = "kernel"
  BY <1>1 DEF StartUser, UserRun, UserFault, StartAtomic, StartKernel, Starting, Goto,
     IInv, WorkersInv
<1>3. \A v \in Workers :
        /\ InJob(v)' <=> InJob(v)
        /\ Busy(v)' <=> Busy(v)
        /\ v # w => pc'[v] = pc[v]
        /\ pc'[v] = "leave" <=> pc[v] = "leave"
  BY <1>1, <1>2 DEF InJob, Busy
<1>4. WorkersInv'
  <2>1. \A v \in Workers : InJob(v)' => job'[v] \in Jobs /\ (job'[v].mode # "user" => v = Main)
    BY <1>1, <1>3 DEF IInv, WorkersInv
  <2>2. \A v \in Workers :
          /\ pc'[v] \in {"user", "stop", "fault"} => job'[v].mode = "user"
          /\ pc'[v] = "atomic" => job'[v].mode = "atomic"
          /\ pc'[v] \in {"kernel", "leave"} => job'[v].mode = "kernel"
    BY <1>1, <1>2, <1>3 DEF IInv, WorkersInv
  <2>3. \A v \in Workers : pc'[v] \in Holding <=> mutex' = v
    BY <1>1, <1>2, <1>3, WorkersAssumption DEF IInv, WorkersInv, Holding
  <2>4. job[w].mode # "user" => w = Main
    BY <1>1 DEF IInv, WorkersInv
  <2>5. inKernel' <=> pc'[Main] \in {"kernel", "leave"}
    <3>1. CASE w = Main
      BY <1>1, <1>2, <3>1 DEF IInv, WorkersInv
    <3>2. CASE w # Main
      BY <1>2, <1>3, <2>4, <3>2, WorkersAssumption DEF IInv, WorkersInv
    <3> QED BY <3>1, <3>2
  <2> QED BY <2>1, <2>2, <2>3, <2>5 DEF WorkersInv
<1>5. RunsAlone'
  BY <1>1, <1>3 DEF IInv, RunsAlone
<1>6. JobsInv'
  BY <1>1, <1>3 DEF IInv, JobsInv
<1>7. QueuesInv'
  <2>1. \A v \in Workers : InJob(v)' =>
             /\ Self(v)' \in created' \ newborn'
             /\ Self(v)' \notin runnable'
             /\ Self(v)' \in blocked' => pc'[v] = "leave" /\ doomed' = {}
    BY <1>1, <1>3 DEF IInv, QueuesInv, Self
  <2>2. doomed' \cup newborn' # {} => pc'[Main] = "leave"
    BY <1>1, <1>3, WorkersAssumption DEF IInv, QueuesInv
  <2> QED BY <1>1, <2>1, <2>2 DEF IInv, QueuesInv, RunningThreads
<1>8. BlockersInv'
  BY <1>1 DEF IInv, BlockersInv, OneBlockerEach
<1> QED BY <1>4, <1>5, <1>6, <1>7, <1>8 DEF IInv

-----------------------------------------------------------------------------
(* A worker takes a thread of the run queue. *)

LEMMA PickRunStep ==
  ASSUME IInv, TypeOK', NEW w \in Workers, PickRun(w)
  PROVE  IInv'
<1>1. PICK t \in Candidates(w) :
        /\ Requeue({t}, {}, {})
        /\ runningJobs' = runningJobs \cup {[thread |-> t, mode |-> wants[t]]}
        /\ job' = [job EXCEPT ![w] = [thread |-> t, mode |-> wants[t]]]
  BY DEF PickRun
<1> DEFINE j == [thread |-> t, mode |-> wants[t]]
<1>2. /\ Picking(w) /\ ~panicked
      /\ pc' = [pc EXCEPT ![w] = "start"]
      /\ UNCHANGED <<mutex, inKernel, threads, blocked, blockers, created, doomed, newborn>>
  BY DEF PickRun, Goto, timeVars, syscallVars
<1>3. /\ t \in runnable /\ j \in Jobs /\ j.thread = t
      /\ j.mode # "user" => w = Main /\ runningJobs = {}
  BY <1>1, <1>2, PickedJob DEF Jobs
<1>4. runnable' = runnable \ {t}
  BY <1>1 DEF Requeue
<1>5. /\ pc \in [Workers -> PCs] /\ pc'[w] = "start" /\ pc[w] = "pick"
      /\ job \in [Workers -> Jobs \cup {NoJob}] /\ job'[w] = j
      /\ \A v \in Workers : v # w => pc'[v] = pc[v] /\ job'[v] = job[v]
  BY <1>1, <1>2 DEF IInv, TypeOK, Picking
<1>6. \A v \in Workers : v # w =>
        /\ InJob(v)' <=> InJob(v)
        /\ Busy(v)' <=> Busy(v)
  BY <1>5 DEF InJob, Busy
<1>7. InJob(w)' /\ Busy(w)' /\ ~InJob(w)
  BY <1>5 DEF InJob, Busy
<1>8. \A v \in Workers : InJob(v) => job[v].mode = "user" /\ j.mode = "user" /\ Busy(v)
  BY <1>1, <1>2, PickerAlone, WorkersAssumption
  DEF IInv, WorkersInv, Picking, Busy, Holding
<1>9. WorkersInv'
  <2>1. \A v \in Workers : InJob(v)' => job'[v] \in Jobs /\ (job'[v].mode # "user" => v = Main)
    BY <1>3, <1>5, <1>6 DEF IInv, WorkersInv
  <2>2. \A v \in Workers :
          /\ pc'[v] \in {"user", "stop", "fault"} => job'[v].mode = "user"
          /\ pc'[v] = "atomic" => job'[v].mode = "atomic"
          /\ pc'[v] \in {"kernel", "leave"} => job'[v].mode = "kernel"
    BY <1>5 DEF IInv, WorkersInv
  <2>3. \A v \in Workers : pc'[v] \in Holding <=> mutex' = v
    BY <1>2, <1>5 DEF IInv, WorkersInv, Holding
  <2>4. inKernel' <=> pc'[Main] \in {"kernel", "leave"}
    BY <1>2, <1>5, WorkersAssumption DEF IInv, WorkersInv
  <2> QED BY <2>1, <2>2, <2>3, <2>4 DEF WorkersInv
<1>10. RunsAlone'
  BY <1>5, <1>6, <1>7, <1>8 DEF RunsAlone
<1>11. JobsInv'
  <2>1. \A v \in Workers : Busy(v)' => job'[v] \in runningJobs'
    BY <1>1, <1>5, <1>6 DEF IInv, JobsInv
  <2>2. \A i \in runningJobs' : \E v \in Workers : InJob(v)' /\ job'[v] = i
    <3>1. \A i \in runningJobs : \E v \in Workers : v # w /\ InJob(v) /\ job[v] = i
      BY <1>7 DEF IInv, JobsInv
    <3> QED BY <1>1, <1>5, <1>6, <1>7, <3>1
  <2>3. \A v \in Workers : InJob(v) => job[v].thread # t
    BY <1>3 DEF IInv, QueuesInv, Self
  <2>4. \A u, v \in Workers :
          InJob(u)' /\ InJob(v)' /\ job'[u].thread = job'[v].thread => u = v
    BY <1>3, <1>5, <1>6, <1>7, <2>3 DEF IInv, JobsInv
  <2> QED BY <2>1, <2>2, <2>4 DEF JobsInv
<1>12. QueuesInv'
  <2>1. RunningThreads' = RunningThreads \cup {t}
    <3>1. runningJobs' = runningJobs \cup {j} /\ j.thread = t
      BY <1>1
    <3> QED BY <3>1, Zenon DEF RunningThreads
  <2>2. \A v \in Workers : InJob(v)' =>
             /\ Self(v)' \in created' \ newborn'
             /\ Self(v)' \notin runnable'
             /\ Self(v)' \in blocked' => pc'[v] = "leave" /\ doomed' = {}
    BY <1>2, <1>3, <1>4, <1>5, <1>6 DEF IInv, QueuesInv, Self
  <2>3. doomed' \cup newborn' # {} => pc'[Main] = "leave"
    BY <1>2, <1>5, WorkersAssumption DEF IInv, QueuesInv
  <2> QED BY <1>2, <1>3, <1>4, <2>1, <2>2, <2>3 DEF IInv, QueuesInv
<1>13. BlockersInv'
  BY <1>2 DEF IInv, BlockersInv, OneBlockerEach
<1> QED BY <1>9, <1>10, <1>11, <1>12, <1>13 DEF IInv

-----------------------------------------------------------------------------
(* A worker ends its job. *)

LEMMA StopStep ==
  ASSUME IInv, TypeOK', NEW w \in Workers, InJob(w), NEW fresh,
         StopRunning(w, fresh),
         pc' = [pc EXCEPT ![w] = pc'[w]], pc'[w] \in {"notify", "alarm"},
         job' = [job EXCEPT ![w] = NoJob],
         mutex' = Nobody, mutex \in {w, Nobody}, inKernel' = FALSE,
         UNCHANGED <<blocked, blockers, created>>, doomed' = {}, newborn' = {},
         (fresh = newborn /\ threads' = threads \cup newborn)
           \/ (fresh = {} /\ threads' = threads)
  PROVE  IInv'
<1>1. /\ pc \in [Workers -> PCs] /\ job \in [Workers -> Jobs \cup {NoJob}]
      /\ \A v \in Workers : v # w => pc'[v] = pc[v] /\ job'[v] = job[v]
  BY DEF IInv, TypeOK
<1>2. /\ ~InJob(w)'
      /\ \A v \in Workers : v # w =>
           /\ InJob(v)' <=> InJob(v)
           /\ Busy(v)' <=> Busy(v)
  BY <1>1 DEF InJob, Busy
<1>3. runningJobs' = {j \in runningJobs : j.thread # Self(w)}
  BY DEF StopRunning
<1>4. RunningThreads' = RunningThreads \ {Self(w)}
  BY <1>3 DEF RunningThreads
<1>5. runnable' = runnable \cup fresh \cup (RunningThreads \cap {Self(w)})
  BY DEF StopRunning, Requeue, IsRunning, RunningThreads
<1>6. \A v \in Workers : v # w => pc[v] \notin Holding
  BY WorkersAssumption DEF IInv, WorkersInv
<1>7. WorkersInv'
  <2>1. \A v \in Workers : InJob(v)' => job'[v] \in Jobs /\ (job'[v].mode # "user" => v = Main)
    BY <1>1, <1>2 DEF IInv, WorkersInv
  <2>2. \A v \in Workers :
          /\ pc'[v] \in {"user", "stop", "fault"} => job'[v].mode = "user"
          /\ pc'[v] = "atomic" => job'[v].mode = "atomic"
          /\ pc'[v] \in {"kernel", "leave"} => job'[v].mode = "kernel"
    BY <1>1 DEF IInv, WorkersInv
  <2>3. \A v \in Workers : pc'[v] \notin Holding
    BY <1>1, <1>6 DEF Holding
  <2> QED BY <2>1, <2>2, <2>3, WorkersAssumption DEF WorkersInv, Holding
<1>8. RunsAlone'
  BY <1>1, <1>2 DEF IInv, RunsAlone
<1>9. \A v \in Workers : v # w /\ InJob(v) => job[v].thread # Self(w)
  BY DEF IInv, JobsInv, Self
<1>10. JobsInv'
  <2>1. \A v \in Workers : Busy(v)' => job'[v] \in runningJobs'
    BY <1>1, <1>2, <1>3, <1>9 DEF IInv, JobsInv, Busy
  <2>2. \A i \in runningJobs' : \E v \in Workers : InJob(v)' /\ job'[v] = i
    <3>1. \A i \in runningJobs' : \E v \in Workers : v # w /\ InJob(v) /\ job[v] = i
      BY <1>3 DEF IInv, JobsInv, Self
    <3> QED BY <1>1, <1>2, <3>1
  <2>3. \A u, v \in Workers :
          InJob(u)' /\ InJob(v)' /\ job'[u].thread = job'[v].thread => u = v
    BY <1>1, <1>2 DEF IInv, JobsInv
  <2> QED BY <2>1, <2>2, <2>3 DEF JobsInv
<1>11. QueuesInv'
  <2>1. \A v \in Workers : InJob(v)' =>
             /\ Self(v)' \in created' \ newborn'
             /\ Self(v)' \notin runnable'
             /\ Self(v)' \notin blocked'
    <3> SUFFICES ASSUME NEW v \in Workers, InJob(v)'
                 PROVE  /\ job[v].thread \in created
                        /\ job[v].thread \notin runnable'
                        /\ job[v].thread \notin blocked
      BY <1>1, <1>2 DEF Self
    <3>1. v # w /\ InJob(v) /\ pc[v] # "leave"
      BY <1>2, <1>6 DEF Holding
    <3>2. job[v].thread \notin fresh /\ job[v].thread # Self(w)
      BY <1>9, <3>1 DEF IInv, QueuesInv, Self
    <3> QED BY <1>5, <3>1, <3>2 DEF IInv, QueuesInv, Self
  <2>2. /\ threads' = runnable' \cup blocked' \cup RunningThreads'
        /\ runnable' \cap blocked' = {}
        /\ RunningThreads' \cap (runnable' \cup blocked') = {}
        /\ threads' \subseteq created'
    <3>1. fresh \subseteq newborn
      OBVIOUS
    <3>2. fresh \cap threads = {} /\ newborn \subseteq created
      BY <3>1 DEF IInv, QueuesInv
    <3> QED BY <1>4, <1>5, <3>1, <3>2 DEF IInv, QueuesInv
  <2> QED BY <2>1, <2>2 DEF QueuesInv
<1>12. BlockersInv'
  BY DEF IInv, BlockersInv, OneBlockerEach
<1> QED BY <1>7, <1>8, <1>10, <1>11, <1>12 DEF IInv

LEMMA StopActions ==
  ASSUME IInv, TypeOK', NEW w \in Workers,
         UserStop(w) \/ AtomicRun(w) \/ KernelDone(w) \/ KernelFault(w)
  PROVE  IInv'
<1> USE DEF queues, timeVars, syscallVars
<1>1. /\ InJob(w) /\ pc \in [Workers -> PCs]
      /\ pc[w] \in Holding <=> mutex = w
  BY DEF UserStop, AtomicRun, KernelDone, KernelFault, InJob, IInv, TypeOK, WorkersInv
<1>2. CASE UserStop(w)
  <2>1. /\ StopRunning(w, {}) /\ pc' = [pc EXCEPT ![w] = pc'[w]] /\ pc'[w] \in {"notify", "alarm"}
        /\ job' = [job EXCEPT ![w] = NoJob]
        /\ mutex' = Nobody /\ mutex = Nobody
        /\ UNCHANGED <<inKernel, blocked, blockers, created, doomed, newborn, threads>>
    BY <1>1, <1>2 DEF UserStop, Goto
  <2>2. inKernel = FALSE /\ doomed = {} /\ newborn = {}
    BY <2>1, WorkersAssumption DEF IInv, TypeOK, WorkersInv, QueuesInv, Holding
  <2> QED BY <1>1, <2>1, <2>2, StopStep
<1>3. CASE AtomicRun(w)
  <2>1. /\ StopRunning(w, {}) /\ pc' = [pc EXCEPT ![w] = pc'[w]] /\ pc'[w] \in {"notify", "alarm"}
        /\ job' = [job EXCEPT ![w] = NoJob]
        /\ mutex' = Nobody /\ mutex = w /\ pc[w] = "atomic"
        /\ UNCHANGED <<inKernel, blocked, blockers, created, doomed, newborn, threads>>
    BY <1>1, <1>3 DEF AtomicRun, Goto, Holding
  <2>2. w = Main
    BY <1>1, <2>1 DEF IInv, WorkersInv
  <2>3. inKernel = FALSE /\ doomed = {} /\ newborn = {}
    BY <2>1, <2>2 DEF IInv, TypeOK, WorkersInv, QueuesInv
  <2> QED BY <1>1, <2>1, <2>3, StopStep
<1>4. CASE KernelDone(w)
  <2>1. /\ StopRunning(w, newborn) /\ pc' = [pc EXCEPT ![w] = pc'[w]] /\ pc'[w] = "notify"
        /\ job' = [job EXCEPT ![w] = NoJob]
        /\ mutex' = Nobody /\ mutex = w /\ inKernel' = FALSE
        /\ UNCHANGED <<blocked, blockers, created>> /\ doomed' = {} /\ newborn' = {}
        /\ threads' = threads \cup newborn
    BY <1>1, <1>4 DEF KernelDone, LeaveKernel, Goto, Holding
  <2> QED BY <1>1, <2>1, StopStep
<1>5. CASE KernelFault(w)
  <2>1. /\ StopRunning(w, {}) /\ pc' = [pc EXCEPT ![w] = pc'[w]] /\ pc'[w] = "alarm"
        /\ job' = [job EXCEPT ![w] = NoJob]
        /\ mutex' = Nobody /\ mutex = w /\ inKernel' = FALSE
        /\ UNCHANGED <<blocked, blockers, created>> /\ doomed' = {} /\ newborn' = {}
        /\ threads' = threads
    BY <1>1, <1>5 DEF KernelFault, LeaveKernel, Goto, Holding
  <2> QED BY <1>1, <2>1, StopStep
<1> QED BY <1>2, <1>3, <1>4, <1>5

-----------------------------------------------------------------------------
(* Threads are resumed together with their blockers. *)

LEMMA UnblockStep ==
  ASSUME IInv, NEW B, B \subseteq blockers, ThreadsOf(B) \subseteq blocked,
         NEW rank, UnblockAll(B, rank),
         UNCHANGED <<job, threads, runningJobs, created, newborn, doomed>>,
         \A v \in Workers : InJob(v)' => InJob(v) /\ Self(v) \notin blocked,
         doomed \cup newborn # {} => pc'[Main] = "leave"
  PROVE  QueuesInv' /\ BlockersInv'
<1>1. /\ blocked' = blocked \ ThreadsOf(B)
      /\ runnable' = runnable \cup ThreadsOf(B)
      /\ blockers' = blockers \ B
  BY DEF UnblockAll, Requeue, KeepBlockers
<1>2. QueuesInv'
  <2>1. \A v \in Workers : InJob(v)' =>
             /\ Self(v)' \in created' \ newborn'
             /\ Self(v)' \notin runnable'
             /\ Self(v)' \notin blocked'
    BY <1>1 DEF IInv, QueuesInv, Self
  <2>2. /\ threads' = runnable' \cup blocked' \cup RunningThreads'
        /\ runnable' \cap blocked' = {}
        /\ RunningThreads' \cap (runnable' \cup blocked') = {}
    BY <1>1 DEF IInv, QueuesInv, RunningThreads
  <2> QED BY <2>1, <2>2 DEF IInv, QueuesInv
<1>3. BlockersInv'
  <2>1. \A b, c \in blockers : b.thread = c.thread => b = c
    BY DEF IInv, BlockersInv, OneBlockerEach
  <2>2. \A b \in blockers' : b.thread \notin ThreadsOf(B)
    BY <1>1, <2>1 DEF ThreadsOf
  <2>3. \A t \in blocked' : \E b \in blockers' : b.thread = t
    BY <1>1 DEF IInv, BlockersInv, OneBlockerEach, ThreadsOf
  <2> QED BY <1>1, <2>1, <2>2, <2>3 DEF IInv, BlockersInv, OneBlockerEach
<1> QED BY <1>2, <1>3

LEMMA PickUnblockStep ==
  ASSUME IInv, TypeOK', NEW w \in Workers, PickUnblock(w) \/ PickCrash(w)
  PROVE  IInv'
<1> USE DEF outOfCall, timeVars, syscallVars
<1>1. /\ Picking(w)
      /\ UNCHANGED <<job, mutex, inKernel, threads, runningJobs, created, newborn, doomed>>
      /\ pc' = pc \/ pc' = [pc EXCEPT ![w] = "panic"]
      /\ pc \in [Workers -> PCs]
  BY DEF PickUnblock, PickCrash, Goto, IInv, TypeOK
<1>2. PICK B, rank : B \subseteq blockers /\ ThreadsOf(B) \subseteq blocked /\ UnblockAll(B, rank)
  <2>1. CASE PickUnblock(w)
    <3>1. PICK E \in SUBSET External :
            /\ ThreadsOf(E \cup {b \in blockers : Expired(b)}) \subseteq blocked
            /\ UnblockAll(E \cup {b \in blockers : Expired(b)},
                          UnblockOrder(E \cup {b \in blockers : Expired(b)}))
      BY <2>1 DEF PickUnblock
    <3>2. E \cup {b \in blockers : Expired(b)} \subseteq blockers
      BY DEF External
    <3> QED BY <3>1, <3>2
  <2>2. CASE PickCrash(w)
    <3>1. PICK E \in SUBSET External :
            LET done == {b \in E \cup {b \in blockers : Expired(b)} : b.kind # "vm"}
            IN  UnblockAll(done, UnblockOrder(done))
      BY <2>2 DEF PickCrash
    <3> DEFINE done == {b \in E \cup {b \in blockers : Expired(b)} : b.kind # "vm"}
    <3>2. done \subseteq blockers
      BY DEF External
    <3>3. ThreadsOf(done) \subseteq blocked
      BY <3>2 DEF ThreadsOf, IInv, BlockersInv
    <3> QED BY <3>1, <3>2, <3>3
  <2> QED BY <2>1, <2>2
<1>3. \A v \in Workers : pc[v] \notin Holding
  BY <1>1, WorkersAssumption DEF Picking, IInv, WorkersInv
<1>4. \A v \in Workers :
        /\ InJob(v)' <=> InJob(v)
        /\ InJob(v) => pc'[v] = pc[v]
        /\ pc'[v] \notin Holding
        /\ \A p \in JobPCs : pc'[v] = p <=> pc[v] = p
  BY <1>1, <1>3 DEF Picking, InJob, JobPCs, Holding
<1>5. WorkersInv'
  <2>1. \A v \in Workers : InJob(v)' => job'[v] \in Jobs /\ (job'[v].mode # "user" => v = Main)
    BY <1>1, <1>4 DEF IInv, WorkersInv
  <2>2. \A v \in Workers :
          /\ pc'[v] \in {"user", "stop", "fault"} => job'[v].mode = "user"
          /\ pc'[v] = "atomic" => job'[v].mode = "atomic"
          /\ pc'[v] \in {"kernel", "leave"} => job'[v].mode = "kernel"
    BY <1>1, <1>4 DEF IInv, WorkersInv, JobPCs
  <2>3. \A v \in Workers : pc'[v] \in Holding <=> mutex' = v
    BY <1>1, <1>4, WorkersAssumption DEF Picking
  <2>4. inKernel' <=> pc'[Main] \in {"kernel", "leave"}
    BY <1>1, <1>4, WorkersAssumption DEF IInv, WorkersInv, JobPCs
  <2> QED BY <2>1, <2>2, <2>3, <2>4 DEF WorkersInv
<1>6. RunsAlone' /\ JobsInv'
  BY <1>1, <1>4 DEF IInv, RunsAlone, JobsInv, Busy
<1>7. doomed \cup newborn = {}
  BY <1>3, WorkersAssumption DEF IInv, QueuesInv, Holding
<1>8. \A v \in Workers : InJob(v)' => InJob(v) /\ Self(v) \notin blocked
  BY <1>3, <1>4 DEF IInv, QueuesInv, Holding
<1>9. QueuesInv' /\ BlockersInv'
  BY <1>1, <1>2, <1>7, <1>8, UnblockStep
<1> QED BY <1>5, <1>6, <1>9 DEF IInv

-----------------------------------------------------------------------------
(* System calls. *)

(* A syscall runs with no other worker in a job.                           *)
LEMMA KernelAlone ==
  ASSUME IInv, NEW w \in Workers, pc[w] \in {"kernel", "leave"}
  PROVE  /\ w = Main /\ mutex = w /\ InJob(w) /\ job[w].mode = "kernel"
         /\ \A v \in Workers : InJob(v) => v = w
         /\ \A j \in runningJobs : j = job[w]
<1>1. w = Main /\ mutex = w /\ InJob(w) /\ job[w].mode = "kernel"
  BY DEF IInv, WorkersInv, InJob, Holding
<1>2. \A v \in Workers : InJob(v) => v = w
  BY <1>1 DEF IInv, RunsAlone
<1> QED BY <1>1, <1>2 DEF IInv, JobsInv

(* The worker's part of entering a syscall.                                *)
LEMMA SyscallStep ==
  ASSUME IInv, NEW w \in Workers, Syscall(w), UNCHANGED outOfCall,
         runningJobs' \subseteq runningJobs
  PROVE  /\ WorkersInv' /\ RunsAlone' /\ JobsInv'
         /\ \A v \in Workers : InJob(v)' <=> v = w
         /\ w = Main /\ pc[w] = "kernel" /\ pc'[w] = "leave" /\ job' = job
         /\ Self(w) \notin blocked /\ Self(w) \in RunningThreads /\ Self(w) \in created
         /\ doomed = {} /\ newborn = {}
<1>1. /\ pc[w] = "kernel" /\ pc' = [pc EXCEPT ![w] = "leave"] /\ pc \in [Workers -> PCs]
      /\ UNCHANGED <<job, mutex, inKernel>>
  BY DEF Syscall, Goto, IInv, TypeOK, outOfCall
<1>2. /\ w = Main /\ mutex = w /\ InJob(w) /\ job[w].mode = "kernel"
      /\ \A v \in Workers : InJob(v) => v = w
      /\ \A j \in runningJobs : j = job[w]
  BY <1>1, KernelAlone
<1>3. \A v \in Workers : InJob(v)' <=> v = w
  BY <1>1, <1>2 DEF InJob
<1>4. \A v \in Workers : v # w => pc'[v] = pc[v] /\ pc[v] \notin JobPCs /\ pc[v] \notin Holding
  BY <1>1, <1>2, WorkersAssumption DEF InJob, JobPCs, IInv, WorkersInv
<1>5. WorkersInv'
  <2>1. \A v \in Workers : InJob(v)' => job'[v] \in Jobs /\ (job'[v].mode # "user" => v = Main)
    BY <1>1, <1>2, <1>3 DEF IInv, WorkersInv
  <2>2. \A v \in Workers :
          /\ pc'[v] \in {"user", "stop", "fault"} => job'[v].mode = "user"
          /\ pc'[v] = "atomic" => job'[v].mode = "atomic"
          /\ pc'[v] \in {"kernel", "leave"} => job'[v].mode = "kernel"
    BY <1>1, <1>2, <1>4 DEF JobPCs
  <2>3. \A v \in Workers : pc'[v] \in Holding <=> mutex' = v
    BY <1>1, <1>2, <1>4 DEF Holding
  <2>4. inKernel' <=> pc'[Main] \in {"kernel", "leave"}
    BY <1>1, <1>2 DEF IInv, WorkersInv
  <2> QED BY <2>1, <2>2, <2>3, <2>4 DEF WorkersInv
<1>6. RunsAlone'
  BY <1>3 DEF RunsAlone
<1>7. JobsInv'
  BY <1>1, <1>2, <1>3 DEF JobsInv, Busy
<1>8. /\ Self(w) \notin blocked /\ Self(w) \in RunningThreads /\ Self(w) \in created
      /\ doomed = {} /\ newborn = {}
  BY <1>1, <1>2 DEF IInv, QueuesInv, JobsInv, Busy, RunningThreads, Self
<1> QED BY <1>1, <1>2, <1>3, <1>5, <1>6, <1>7, <1>8

(* Calls that only name the threads to add or to terminate.                *)
LEMMA PlanStep ==
  ASSUME IInv, TypeOK', NEW w \in Workers, Syscall(w), UNCHANGED <<outOfCall, queues>>,
         \/ created' = created /\ newborn' = newborn
         \/ \E n \in Threads \ created : created' = created \cup {n} /\ newborn' = {n}
  PROVE  IInv'
<1>1. /\ WorkersInv' /\ RunsAlone' /\ JobsInv'
      /\ \A v \in Workers : InJob(v)' <=> v = w
      /\ w = Main /\ pc'[w] = "leave" /\ job' = job
      /\ Self(w) \notin blocked /\ Self(w) \in RunningThreads /\ Self(w) \in created
      /\ newborn = {}
  BY SyscallStep DEF queues
<1>2. QueuesInv'
  <2>1. /\ created \subseteq created' /\ newborn' \subseteq created' \ created
        /\ Self(w)' = Self(w) /\ Self(w) \notin newborn'
    BY <1>1 DEF Self
  <2>2. \A v \in Workers : InJob(v)' =>
             /\ Self(v)' \in created' \ newborn'
             /\ Self(v)' \notin runnable'
             /\ Self(v)' \notin blocked'
    BY <1>1, <2>1 DEF IInv, QueuesInv, queues
  <2> QED BY <1>1, <2>1, <2>2 DEF IInv, QueuesInv, RunningThreads, queues
<1>3. BlockersInv'
  <2>1. created \subseteq created' /\ newborn' \cap created = {}
    BY <1>1
  <2> QED BY <1>1, <2>1 DEF IInv, BlockersInv, OneBlockerEach, queues
<1> QED BY <1>1, <1>2, <1>3 DEF IInv

(* Calls that block the caller.                                            *)
LEMMA BlockStep ==
  ASSUME IInv, TypeOK', NEW w \in Workers, Syscall(w),
         NEW k, NEW word, NEW limit, BlockSelf(w, Blocker(Self(w), k, word, limit)),
         UNCHANGED <<outOfCall, threads, runnable, ahead, doomed>>,
         \/ created' = created /\ newborn' = newborn
         \/ \E n \in Threads \ created : created' = created \cup {n} /\ newborn' = {n}
  PROVE  IInv'
<1>1. /\ WorkersInv' /\ RunsAlone' /\ JobsInv'
      /\ \A v \in Workers : InJob(v)' <=> v = w
      /\ w = Main /\ pc[w] = "kernel" /\ pc'[w] = "leave" /\ job' = job
      /\ Self(w) \notin blocked /\ Self(w) \in RunningThreads /\ Self(w) \in created
      /\ doomed = {} /\ newborn = {}
  <2>1. runningJobs' \subseteq runningJobs
    BY DEF BlockSelf
  <2> QED BY <2>1, SyscallStep
<1>2. /\ blockers' = blockers \cup {Blocker(Self(w), k, word, limit)}
      /\ runningJobs' = {j \in runningJobs : j.thread # Self(w)}
      /\ blocked' = blocked \cup {Self(w)}
  BY DEF BlockSelf
<1>3. RunningThreads' = RunningThreads \ {Self(w)}
  BY <1>2 DEF RunningThreads
<1>4. /\ created \subseteq created' /\ newborn' \subseteq created' \ created
      /\ Self(w)' = Self(w) /\ Self(w) \notin newborn'
  BY <1>1 DEF Self
<1>5. Self(w) \in threads /\ Self(w) \notin runnable /\ threads \subseteq created
  BY <1>1 DEF IInv, QueuesInv
<1>6. QueuesInv'
  <2>1. \A v \in Workers : InJob(v)' =>
             /\ Self(v)' \in created' \ newborn'
             /\ Self(v)' \notin runnable'
             /\ Self(v)' \in blocked' => pc'[v] = "leave" /\ doomed' = {}
    BY <1>1, <1>4, <1>5
  <2>2. /\ threads' = runnable' \cup blocked' \cup RunningThreads'
        /\ runnable' \cap blocked' = {}
        /\ RunningThreads' \cap (runnable' \cup blocked') = {}
    BY <1>1, <1>2, <1>3, <1>5 DEF IInv, QueuesInv
  <2> QED BY <1>1, <1>4, <1>5, <2>1, <2>2 DEF QueuesInv
<1>7. BlockersInv'
  <2> DEFINE b0 == Blocker(Self(w), k, word, limit)
  <2>1. b0.thread = Self(w)
    BY DEF Blocker
  <2>2. \A b \in blockers : b.thread # Self(w)
    BY <1>1, <1>5 DEF IInv, BlockersInv
  <2>3. \A b \in blockers : b.thread \in created
    BY <1>5 DEF IInv, BlockersInv, QueuesInv
  <2>4. blockers' = blockers \cup {b0}
    BY <1>2
  <2> HIDE DEF b0
  <2>5. /\ \A t \in blocked' : \E b \in blockers' : b.thread = t
        /\ \A b, c \in blockers' : b.thread = c.thread => b = c
        /\ \A b \in blockers' : b.kind # "vm" => b.thread \in blocked'
    BY <1>2, <2>1, <2>2, <2>4 DEF IInv, BlockersInv, OneBlockerEach
  <2>6. \A b \in blockers' : b.thread \in blocked'
          \/ (b.kind = "vm" /\ b.thread \in created' \ (threads' \cup newborn'))
    BY <1>2, <1>4, <2>1, <2>3, <2>4 DEF IInv, BlockersInv
  <2> QED BY <2>5, <2>6 DEF BlockersInv, OneBlockerEach
<1> QED BY <1>1, <1>6, <1>7 DEF IInv

LEMMA SyscallActions ==
  ASSUME IInv, TypeOK', NEW w \in Workers, AnySyscall(w)
  PROVE  IInv'
<1>1. CASE SysReturn(w) \/ SysEnd(w) \/ SysExec(w) \/ SysClone(w)
  <2>1. /\ Syscall(w) /\ UNCHANGED <<outOfCall, queues>>
        /\ \/ created' = created /\ newborn' = newborn
           \/ \E n \in Threads \ created : created' = created \cup {n} /\ newborn' = {n}
    BY <1>1 DEF SysReturn, SysEnd, SysExec, SysClone, Create, allButPc, outOfCall, syscallVars
  <2> QED BY <2>1, PlanStep
<1>2. CASE SysVfork(w)
  <2>1. /\ Syscall(w) /\ UNCHANGED <<outOfCall, threads, runnable, ahead, doomed>>
        /\ BlockSelf(w, Blocker(Self(w), "vm", NoWord, NoLimit))
        /\ \E n \in Threads \ created : created' = created \cup {n} /\ newborn' = {n}
    BY <1>2 DEF SysVfork, Create
  <2> QED BY <2>1, BlockStep
<1>3. CASE SysBlock(w)
  <2>1. /\ Syscall(w) /\ UNCHANGED <<outOfCall, threads, runnable, ahead, doomed>>
        /\ created' = created /\ newborn' = newborn
        /\ \E k, word, limit : BlockSelf(w, Blocker(Self(w), k, word, limit))
    BY <1>3 DEF SysBlock, syscallVars
  <2> QED BY <2>1, BlockStep
<1>4. CASE SysWake(w) \/ SysWakeOp(w)
  <2>1. /\ Syscall(w) /\ UNCHANGED <<outOfCall, threads, runningJobs, created, newborn, doomed>>
    BY <1>4 DEF SysWake, SysWakeOp, syscallVars
  <2>2. PICK W, rank : /\ W \subseteq blockers /\ ThreadsOf(W) \subseteq blocked
                       /\ UnblockAll(W, rank)
    <3>1. ASSUME NEW B, NEW word, NEW n, B \subseteq blockers
          PROVE  /\ WokenBy(B, word, n) \subseteq blockers
                 /\ ThreadsOf(WokenBy(B, word, n)) \subseteq blocked
      <4>1. \A b \in WokenBy(B, word, n) : b \in blockers /\ b.kind = "futex"
        BY <3>1 DEF WokenBy, Wakeable
      <4> QED BY <4>1 DEF ThreadsOf, IInv, BlockersInv
    <3>2. CASE SysWake(w)
      BY <3>1, <3>2 DEF SysWake
    <3>3. CASE SysWakeOp(w)
      <4>1. PICK word \in Words, word2 \in Words, n \in Counts, n2 \in Counts,
                 cmp \in BOOLEAN :
              LET W == WokenBy(blockers, word, n)
                  W2 == IF cmp THEN WokenBy(blockers \ W, word2, n2) ELSE {}
                  later == ThreadsOf(W2) \X ThreadsOf(W)
              IN  UnblockAll(W \cup W2,
                             (since \ later) \cup (ThreadsOf(W) \X ThreadsOf(W2)))
        BY <3>3 DEF SysWakeOp
      <4> DEFINE W == WokenBy(blockers, word, n)
                 W2 == IF cmp THEN WokenBy(blockers \ W, word2, n2) ELSE {}
      <4>2. /\ W \subseteq blockers /\ ThreadsOf(W) \subseteq blocked
            /\ W2 \subseteq blockers /\ ThreadsOf(W2) \subseteq blocked
        BY <3>1 DEF ThreadsOf
      <4>3. W \cup W2 \subseteq blockers /\ ThreadsOf(W \cup W2) \subseteq blocked
        <5> HIDE DEF W, W2
        <5> QED BY <4>2 DEF ThreadsOf
      <4> QED BY <4>1, <4>3
    <3> QED BY <1>4, <3>2, <3>3
  <2>3. /\ WorkersInv' /\ RunsAlone' /\ JobsInv'
        /\ \A v \in Workers : InJob(v)' <=> v = w
        /\ w = Main /\ pc[w] = "kernel" /\ pc'[w] = "leave" /\ job' = job
        /\ Self(w) \notin blocked
    BY <2>1, SyscallStep
  <2>4. \A v \in Workers : InJob(v)' => InJob(v) /\ Self(v) \notin blocked
    BY <2>3 DEF InJob
  <2>5. QueuesInv' /\ BlockersInv'
    BY <2>1, <2>2, <2>3, <2>4, UnblockStep
  <2> QED BY <2>3, <2>5 DEF IInv
<1> QED BY <1>1, <1>2, <1>3, <1>4 DEF AnySyscall

LEMMA TerminateStep ==
  ASSUME IInv, TypeOK', NEW w \in Workers, NEW u \in Threads, Terminate(w, u)
  PROVE  IInv'
<1> DEFINE left == Survivors(u)
           woken == IF ClearTid[u] = NoWord THEN {} ELSE WokenBy(left, ClearTid[u], 1)
<1>1. /\ pc[w] = "leave" /\ u \in doomed
      /\ doomed' = doomed \ {u} /\ threads' = threads \ {u}
      /\ runningJobs' = {j \in runningJobs : j.thread # u}
      /\ blocked' = blocked \ ({u} \cup ThreadsOf(woken))
      /\ runnable' = (runnable \ {u}) \cup ThreadsOf(woken)
      /\ blockers' = left \ woken
      /\ UNCHANGED <<pc, created, newborn, job, mutex, inKernel>>
  BY DEF Terminate, Requeue, KeepBlockers, outOfCall
<1>2. /\ w = Main /\ InJob(w)
      /\ \A v \in Workers : InJob(v) => v = w
      /\ \A j \in runningJobs : j = job[w]
  BY <1>1, KernelAlone
<1>3. /\ Self(w) \notin blocked /\ Self(w) \notin runnable
  BY <1>1, <1>2 DEF IInv, QueuesInv
<1>4. /\ left \subseteq blockers
      /\ \A b \in left : b.thread # u \/ b.kind = "vm"
      /\ \A b \in blockers : b \notin left => b.thread = u
      /\ \A b \in woken : b \in left /\ b.kind = "futex"
  BY DEF Survivors, WokenBy, Wakeable
<1>5. ThreadsOf(woken) \subseteq blocked /\ u \notin ThreadsOf(woken)
  <2> HIDE DEF left, woken
  <2>1. \A b \in woken : b.thread \in blocked /\ b.thread # u
    BY <1>4 DEF IInv, BlockersInv
  <2> QED BY <2>1 DEF ThreadsOf
<1> HIDE DEF left, woken
<1>6. RunningThreads' = RunningThreads \ {u}
  BY <1>1 DEF RunningThreads
<1>7. WorkersInv' /\ RunsAlone'
  BY <1>1 DEF IInv, WorkersInv, RunsAlone, InJob
<1>8. JobsInv'
  <2>1. \A v \in Workers : InJob(v)' <=> v = w
    BY <1>1, <1>2 DEF InJob
  <2> QED BY <1>1, <1>2, <2>1 DEF JobsInv, Busy
<1>9. QueuesInv'
  <2>1. \A v \in Workers : InJob(v)' =>
             /\ Self(v)' \in created' \ newborn'
             /\ Self(v)' \notin runnable'
             /\ Self(v)' \notin blocked'
    <3> SUFFICES Self(w) \in created \ newborn /\ Self(w) \notin runnable' /\ Self(w) \notin blocked'
      BY <1>1, <1>2 DEF InJob, Self
    <3> QED BY <1>1, <1>2, <1>3, <1>5 DEF IInv, QueuesInv
  <2>2. /\ threads' = runnable' \cup blocked' \cup RunningThreads'
        /\ runnable' \cap blocked' = {}
        /\ RunningThreads' \cap (runnable' \cup blocked') = {}
    BY <1>1, <1>5, <1>6 DEF IInv, QueuesInv
  <2> QED BY <1>1, <1>2, <2>1, <2>2 DEF IInv, QueuesInv
<1>10. BlockersInv'
  <2>1. \A b, c \in blockers : b.thread = c.thread => b = c
    BY DEF IInv, BlockersInv, OneBlockerEach
  <2>2. \A b \in blockers' : b \in blockers /\ b.thread \notin ThreadsOf(woken)
    BY <1>1, <1>4, <2>1 DEF ThreadsOf
  <2>3. \A t \in blocked' : \E b \in blockers' : b.thread = t
    <3> SUFFICES ASSUME NEW t \in blocked, t # u, t \notin ThreadsOf(woken)
                 PROVE  \E b \in blockers' : b.thread = t
      BY <1>1
    <3>1. PICK b \in blockers : b.thread = t
      BY DEF IInv, BlockersInv, OneBlockerEach
    <3> QED BY <1>1, <1>4, <3>1 DEF ThreadsOf
  <2>4. \A b \in blockers' : b.kind # "vm" => b.thread \in blocked'
    BY <1>1, <1>4, <2>2 DEF IInv, BlockersInv
  <2>5. \A b \in blockers' : b.thread \in blocked'
          \/ (b.kind = "vm" /\ b.thread \in created' \ (threads' \cup newborn'))
    <3> SUFFICES ASSUME NEW b \in blockers', b.thread \notin blocked'
                 PROVE  b.kind = "vm" /\ b.thread \in created' \ (threads' \cup newborn')
      OBVIOUS
    <3>1. b \in blockers /\ b.thread \notin ThreadsOf(woken) /\ b.kind = "vm"
      BY <2>2, <2>4
    <3>2. CASE b.thread \in blocked
      <4>1. b.thread = u /\ u \in threads
        BY <1>1, <3>1, <3>2 DEF IInv, QueuesInv
      <4> QED BY <1>1, <3>1, <4>1 DEF IInv, QueuesInv
    <3>3. CASE b.thread \notin blocked
      BY <1>1, <3>1, <3>3 DEF IInv, BlockersInv
    <3> QED BY <3>2, <3>3
  <2> QED BY <2>1, <2>2, <2>3, <2>4, <2>5 DEF BlockersInv, OneBlockerEach
<1> QED BY <1>7, <1>8, <1>9, <1>10 DEF IInv

-----------------------------------------------------------------------------
(* The invariant. *)

LEMMA InitInv == Init => IInv
<1> SUFFICES ASSUME Init PROVE IInv
  OBVIOUS
<1>1. TypeOK
  <2>1. clock \in 0..MaxTime /\ ns \in [Workers -> 0..MaxTime]
    BY TimeAssumption DEF Init
  <2>2. /\ pc \in [Workers -> PCs] /\ wants \in [Threads -> Modes]
        /\ job \in [Workers -> Jobs \cup {NoJob}]
    BY DEF Init, PCs, Modes
  <2>3. created \subseteq Threads /\ threads \subseteq Threads /\ runnable \subseteq Threads
    BY ThreadsAssumption DEF Init
  <2>4. ahead \subseteq Threads \X Threads /\ since \subseteq Threads \X Threads
    <3>1. ahead = {} /\ since = {}
      BY DEF Init
    <3> QED BY <3>1
  <2>5. numRunningJobs \in Int
    BY DEF Init
  <2>6. inKernel \in BOOLEAN /\ panicked \in BOOLEAN
    BY Zenon DEF Init
  <2>7. /\ mutex \in Workers \cup {Nobody}
        /\ runningJobs \subseteq Jobs /\ blocked \subseteq Threads
        /\ blockers \subseteq Blockers
        /\ doomed \subseteq Threads /\ newborn \subseteq Threads
    BY DEF Init
  <2> QED BY <2>1, <2>2, <2>3, <2>4, <2>5, <2>6, <2>7 DEF TypeOK
<1>2. \A w \in Workers : pc[w] = "pick" /\ ~InJob(w)
  BY DEF Init, InJob
<1>3. WorkersInv /\ RunsAlone /\ JobsInv
  BY <1>2, WorkersAssumption DEF Init, WorkersInv, RunsAlone, JobsInv, Busy, Holding
<1>4. QueuesInv /\ BlockersInv
  BY <1>2 DEF Init, QueuesInv, BlockersInv, OneBlockerEach, RunningThreads
<1> QED BY <1>1, <1>3, <1>4 DEF IInv

LEMMA NextInv == IInv /\ [Next]_vars => IInv'
<1> SUFFICES ASSUME IInv, [Next]_vars PROVE IInv'
  OBVIOUS
<1>1. TypeOK'
  BY TypeStep DEF IInv
<1>2. CASE UNCHANGED vars
  BY <1>1, <1>2, QuietStep
  DEF vars, allButPc, queues, timeVars, syscallVars, IInv, WorkersInv
<1>3. CASE \E w \in Workers : Locking(w) \/ Running(w) \/ SpuriousWake(w)
  BY <1>1, <1>3, QuietActions, JobStep, PickRunStep, StopActions, PickUnblockStep,
     SyscallActions, TerminateStep
  DEF Locking, Pick, Running
<1> QED BY <1>2, <1>3 DEF Next, Joined

(* In every state the program reaches, the queues, the jobs of the workers *)
(* and the blockers fit together as IInv says.                             *)
THEOREM Invariant == Spec => []IInv
BY InitInv, NextInv, PTL DEF Spec

(* The members of the scheduler have their types: the clock is bounded by  *)
(* the time the slices may use, entries name threads, places are places.   *)
THEOREM TypeCorrect == Spec => []TypeOK
<1>1. IInv => TypeOK
  BY DEF IInv
<1> QED BY <1>1, Invariant, PTL

(* hasRunnableThread and tryPickNext keep syscalls and atomic slices apart *)
(* from all other jobs, for any number of workers.                         *)
THEOREM JobsRunAlone == Spec => []RunsAlone
<1>1. IInv => RunsAlone
  BY DEF IInv
<1> QED BY <1>1, Invariant, PTL

(* inKernel_ is a faithful stand-in for "a syscall holds the mutex", which *)
(* is what verifyInKernel uses it for.                                     *)
THEOREM KernelHoldsMutex == Spec => []InKernelHoldsMutex
<1>1. IInv => InKernelHoldsMutex
  <2> SUFFICES ASSUME IInv PROVE InKernelHoldsMutex
    OBVIOUS
  <2>1. \A w \in Workers : pc[w] \in {"kernel", "leave", "atomic"} => w = Main /\ mutex = w
    BY DEF IInv, WorkersInv, Holding, InJob
  <2>2. inKernel <=> pc[Main] \in {"kernel", "leave"}
    BY DEF IInv, WorkersInv
  <2> QED BY <2>1, <2>2, WorkersAssumption DEF InKernelHoldsMutex
<1> QED BY <1>1, Invariant, PTL

(* block, unblock, wake and terminate leave every blocked thread with one  *)
(* blocker, and no blocker but one of vmReleaseBlockers_ with a thread     *)
(* that is not blocked.                                                    *)
THEOREM OneBlocker == Spec => []OneBlockerEach
<1>1. IInv => OneBlockerEach
  BY DEF IInv, BlockersInv
<1> QED BY <1>1, Invariant, PTL

-----------------------------------------------------------------------------
(* How a step moves the workers through their jobs: it begins no job and   *)
(* ends none, picks one, starts counting one, or ends one.                 *)

Begun == JobPCs \ {"start"}

Stays ==
  /\ UNCHANGED <<job, numRunningJobs>>
  /\ \A v \in Workers : \/ pc'[v] = pc[v]
                        \/ pc[v] \notin JobPCs /\ pc'[v] \notin JobPCs
                        \/ pc[v] \in Begun /\ pc'[v] \in Begun
Begins(w) ==
  /\ pc[w] = "start" /\ pc' = [pc EXCEPT ![w] = pc'[w]] /\ pc'[w] \in Begun
  /\ numRunningJobs' = numRunningJobs + 1
  /\ job' = job
Ends(w) ==
  /\ pc[w] \in Begun /\ pc' = [pc EXCEPT ![w] = pc'[w]] /\ pc'[w] \notin JobPCs
  /\ numRunningJobs' = numRunningJobs - 1
  /\ job' = [job EXCEPT ![w] = NoJob]

LEMMA PickMoves ==
  ASSUME pc \in [Workers -> PCs], NEW w \in Workers,
         \/ Doze(w) \/ Sleep(w) \/ SpuriousWake(w) \/ Notify(w) \/ SetPanicked(w)
         \/ RaisePanic(w) \/ PickAbort(w) \/ PickUnblock(w) \/ PickCrash(w)
         \/ PickDeadlock(w) \/ PickExit(w) \/ PickWait(w)
  PROVE  Stays
<1> USE DEF Begun, JobPCs, Stays, allButPc, outOfCall, Goto
<1>1. CASE Doze(w) \/ Sleep(w) \/ SpuriousWake(w) \/ SetPanicked(w)
  BY <1>1 DEF Doze, Sleep, SpuriousWake, SetPanicked
<1>2. CASE Notify(w) \/ RaisePanic(w)
  BY <1>2 DEF Notify, RaisePanic, AfterNotify
<1>3. CASE PickAbort(w) \/ PickUnblock(w) \/ PickCrash(w) \/ PickDeadlock(w) \/ PickWait(w)
  BY <1>3 DEF PickAbort, PickUnblock, PickCrash, PickDeadlock, PickWait, Picking
<1>4. CASE PickExit(w)
  BY <1>4 DEF PickExit, Picking, AfterNotify
<1> QED BY <1>1, <1>2, <1>3, <1>4

LEMMA JobMoves ==
  ASSUME pc \in [Workers -> PCs], NEW w \in Workers,
         \/ StartUser(w) \/ StartAtomic(w) \/ StartKernel(w) \/ UserRun(w) \/ UserFault(w)
         \/ UserStop(w) \/ AtomicRun(w) \/ KernelDone(w) \/ KernelFault(w)
         \/ AnySyscall(w) \/ \E u \in Threads : Terminate(w, u)
  PROVE  Stays \/ Begins(w) \/ Ends(w)
<1> USE DEF Begun, JobPCs, Goto
<1>1. CASE StartUser(w) \/ StartAtomic(w) \/ StartKernel(w)
  BY <1>1 DEF StartUser, StartAtomic, StartKernel, Starting, Begins
<1>2. CASE UserRun(w) \/ UserFault(w)
  BY <1>2 DEF UserRun, UserFault, Stays, allButPc
<1>3. CASE UserStop(w)
  BY <1>3 DEF UserStop, Ends
<1>4. CASE AtomicRun(w)
  BY <1>4 DEF AtomicRun, Ends
<1>5. CASE KernelDone(w) \/ KernelFault(w)
  BY <1>5 DEF KernelDone, KernelFault, LeaveKernel, Ends
<1>6. CASE AnySyscall(w)
  <2>1. Syscall(w) /\ UNCHANGED outOfCall
    BY <1>6 DEF AnySyscall, SysReturn, SysClone, SysVfork, SysBlock, SysWake, SysWakeOp,
                SysEnd, SysExec, allButPc, outOfCall
  <2> QED BY <2>1 DEF Syscall, Stays, outOfCall
<1>7. CASE \E u \in Threads : Terminate(w, u)
  BY <1>7 DEF Terminate, Stays, outOfCall
<1> QED BY <1>1, <1>2, <1>3, <1>4, <1>5, <1>6, <1>7

LEMMA Moves ==
  ASSUME TypeOK, [Next]_vars
  PROVE  Stays \/ \E w \in Workers : PickRun(w) \/ Begins(w) \/ Ends(w)
<1>1. pc \in [Workers -> PCs]
  BY DEF TypeOK
<1>2. CASE UNCHANGED vars
  BY <1>2 DEF vars, allButPc, Stays
<1>3. CASE \E w \in Workers : Locking(w) \/ Running(w) \/ SpuriousWake(w)
  BY <1>1, <1>3, PickMoves, JobMoves DEF Locking, Pick, Running
<1> QED BY <1>2, <1>3 DEF Next, Joined

-----------------------------------------------------------------------------
(* The count of running jobs. *)

CountedWorkers == {w \in Workers : Counted(w)}

LEMMA CountedPlaces == \A w \in Workers : Counted(w) <=> pc[w] \in Begun
BY DEF Counted, InJob, Begun, JobPCs

LEMMA CountInit == Init => CountsJobs
<1> SUFFICES ASSUME Init PROVE CountsJobs
  OBVIOUS
<1>1. {w \in Workers : Counted(w)} = {}
  BY DEF Init, Counted, InJob
<1> QED BY <1>1, FS_EmptySet DEF Init, CountsJobs

LEMMA CountNext == IInv /\ CountsJobs /\ [Next]_vars => CountsJobs'
<1> SUFFICES ASSUME IInv, CountsJobs, [Next]_vars PROVE CountsJobs'
  OBVIOUS
<1>1. /\ CountedWorkers = {w \in Workers : pc[w] \in Begun}
      /\ CountedWorkers' = {w \in Workers : pc'[w] \in Begun}
  BY DEF CountedWorkers, Counted, InJob, Begun, JobPCs
<1>2. IsFiniteSet(CountedWorkers)
  BY WorkersAssumption, FS_Subset DEF CountedWorkers
<1>3. numRunningJobs = Cardinality(CountedWorkers) /\ numRunningJobs \in Int
  BY DEF CountsJobs, CountedWorkers, IInv, TypeOK
<1>4. pc \in [Workers -> PCs]
  BY DEF IInv, TypeOK
<1>5. numRunningJobs' = Cardinality(CountedWorkers')
  <2>1. CASE Stays
    <3>1. CountedWorkers' = CountedWorkers
      BY <1>1, <2>1 DEF Stays, Begun
    <3> QED BY <1>3, <2>1, <3>1 DEF Stays
  <2>2. ASSUME NEW w \in Workers, PickRun(w) PROVE numRunningJobs' = Cardinality(CountedWorkers')
    <3>1. /\ pc[w] = "pick" /\ pc' = [pc EXCEPT ![w] = "start"]
          /\ numRunningJobs' = numRunningJobs
      BY <2>2 DEF PickRun, Picking, Goto
    <3>2. CountedWorkers' = CountedWorkers
      BY <1>1, <1>4, <3>1 DEF Begun, JobPCs
    <3> QED BY <1>3, <3>1, <3>2
  <2>3. ASSUME NEW w \in Workers, Begins(w) PROVE numRunningJobs' = Cardinality(CountedWorkers')
    <3>1. CountedWorkers' = CountedWorkers \cup {w} /\ w \notin CountedWorkers
      BY <1>1, <1>4, <2>3 DEF Begins, Begun
    <3>2. numRunningJobs' = numRunningJobs + 1
      BY <2>3 DEF Begins
    <3>3. Cardinality(CountedWorkers \cup {w}) = Cardinality(CountedWorkers) + 1
      BY <1>2, <3>1, FS_AddElement
    <3> QED BY <1>3, <3>1, <3>2, <3>3
  <2>4. ASSUME NEW w \in Workers, Ends(w) PROVE numRunningJobs' = Cardinality(CountedWorkers')
    <3>1. CountedWorkers' = CountedWorkers \ {w} /\ w \in CountedWorkers
      BY <1>1, <1>4, <2>4 DEF Ends, Begun
    <3>2. numRunningJobs' = numRunningJobs - 1
      BY <2>4 DEF Ends
    <3>3. Cardinality(CountedWorkers \ {w}) = Cardinality(CountedWorkers) - 1
      BY <1>2, <3>1, FS_RemoveElement
    <3> QED BY <1>3, <3>1, <3>2, <3>3
  <2> QED BY <2>1, <2>2, <2>3, <2>4, Moves DEF IInv
<1> QED BY <1>5 DEF CountsJobs, CountedWorkers

(* numRunningJobs_ counts the jobs between their increment and their       *)
(* decrement: the run functions pair them on every path, faults included.  *)
THEOREM CountIsExact == Spec => []CountsJobs
BY InitInv, NextInv, CountInit, CountNext, PTL DEF Spec

(* The verify of runUserspaceAtomic and runKernel holds whenever a worker  *)
(* that was given such a job gets the mutex: nothing that ran between the  *)
(* choice of the job and its start may have started another one.           *)
THEOREM RunAloneVerified == Spec => []VerifyRunAlone
<1>1. IInv /\ CountsJobs => VerifyRunAlone
  <2> SUFFICES ASSUME IInv, CountsJobs, NEW w \in Workers,
                      Starting(w, "atomic") \/ Starting(w, "kernel")
               PROVE  numRunningJobs = 0
    BY DEF VerifyRunAlone
  <2>1. InJob(w) /\ job[w].mode # "user" /\ pc[w] = "start"
    BY DEF Starting, InJob
  <2>2. \A v \in Workers : InJob(v) => v = w
    BY <2>1 DEF IInv, RunsAlone
  <2>3. {v \in Workers : Counted(v)} = {}
    BY <2>1, <2>2 DEF Counted
  <2> QED BY <2>3, FS_EmptySet DEF CountsJobs
<1> QED BY <1>1, Invariant, CountIsExact, PTL

-----------------------------------------------------------------------------
(* Action properties and refinement. *)

(* A thread leaves blockedThreads_ only in a step that erases its blocker: *)
(* no stale entry is left to resume a thread that runs.                    *)
THEOREM UnblockErases == Spec => UnblockTakesBlocker
<1>1. IInv /\ IInv' => \A b \in blockers :
        b.thread \in blocked \ blocked' /\ b.kind # "vm" => b \notin blockers'
  BY DEF IInv, BlockersInv
<1>2. IInv /\ IInv' /\ [Next]_vars =>
        [\A b \in blockers : b.thread \in blocked \ blocked' /\ b.kind # "vm"
           => b \notin blockers']_vars
  BY <1>1
<1> QED BY <1>2, Invariant, PTL DEF Spec, UnblockTakesBlocker

LEMMA ClockStep == TypeOK /\ [Next]_vars => clock' >= clock
<1> SUFFICES ASSUME TypeOK, [Next]_vars PROVE clock' >= clock
  OBVIOUS
<1> USE DEF allButPc, outOfCall, timeVars
<1>1. clock \in Int /\ \A w \in Workers : ns[w] \in Int
  BY TimeAssumption DEF TypeOK
<1>2. CASE UNCHANGED vars
  BY <1>1, <1>2 DEF vars
<1>3. ASSUME NEW w \in Workers, Locking(w) PROVE clock' >= clock
  <2>1. CASE UserStop(w)
    BY <1>1, <2>1 DEF UserStop, Synced
  <2>2. CASE PickWait(w)
    BY <1>1, <2>2 DEF PickWait
  <2>3. CASE Doze(w) \/ StartAtomic(w) \/ StartKernel(w)
    BY <1>1, <2>3 DEF Doze, StartAtomic, StartKernel
  <2>4. CASE PickAbort(w) \/ PickUnblock(w) \/ PickCrash(w) \/ PickDeadlock(w)
             \/ PickExit(w) \/ PickRun(w)
    BY <1>1, <2>4 DEF PickAbort, PickUnblock, PickCrash, PickDeadlock, PickExit, PickRun
  <2> QED BY <1>3, <2>1, <2>2, <2>3, <2>4 DEF Locking, Pick
<1>4. ASSUME NEW w \in Workers, Running(w) \/ SpuriousWake(w) PROVE clock' >= clock
  <2>1. CASE AnySyscall(w)
    BY <1>1, <2>1 DEF AnySyscall, SysReturn, SysClone, SysVfork, SysBlock, SysWake,
                      SysWakeOp, SysEnd, SysExec
  <2>2. CASE KernelDone(w) \/ KernelFault(w) \/ \E u \in Threads : Terminate(w, u)
    <3>1. clock' = clock
      <4>1. CASE KernelDone(w) \/ KernelFault(w)
        BY <4>1 DEF KernelDone, KernelFault, LeaveKernel
      <4>2. CASE \E u \in Threads : Terminate(w, u)
        BY <4>2 DEF Terminate
      <4> QED BY <2>2, <4>1, <4>2
    <3> QED BY <1>1, <3>1
  <2>3. CASE \/ Sleep(w) \/ Notify(w) \/ SetPanicked(w) \/ RaisePanic(w) \/ SpuriousWake(w)
             \/ StartUser(w) \/ UserRun(w) \/ UserFault(w) \/ AtomicRun(w)
    BY <1>1, <2>3 DEF Sleep, Notify, SetPanicked, RaisePanic, SpuriousWake, StartUser,
                      UserRun, UserFault, AtomicRun
  <2> QED BY <1>4, <2>1, <2>2, <2>3 DEF Running
<1> QED BY <1>2, <1>3, <1>4 DEF Next, Joined

(* Whatever slices run concurrently, and in whatever order their workers   *)
(* synchronise them with currentTime_, emulated time does not go back.     *)
THEOREM TimeMonotone == Spec => TimeIsMonotone
<1>1. TypeOK /\ [Next]_vars => [clock' >= clock]_vars
  BY ClockStep
<1> QED BY <1>1, TypeCorrect, PTL DEF Spec, TimeIsMonotone

LEMMA ThreadsStep == [Next]_vars => threads' \subseteq threads \cup newborn
<1> SUFFICES ASSUME [Next]_vars PROVE threads' \subseteq threads \cup newborn
  OBVIOUS
<1> USE DEF allButPc, outOfCall, queues
<1>1. CASE UNCHANGED vars
  BY <1>1 DEF vars
<1>2. ASSUME NEW w \in Workers, Locking(w) PROVE threads' = threads
  BY <1>2 DEF Locking, Pick, UserStop, PickWait, Doze, StartAtomic, StartKernel, PickAbort,
              PickUnblock, PickCrash, PickDeadlock, PickExit, PickRun
<1>3. ASSUME NEW w \in Workers, Running(w) \/ SpuriousWake(w)
      PROVE  threads' \subseteq threads \cup newborn
  <2>1. CASE AnySyscall(w)
    BY <2>1 DEF AnySyscall, SysReturn, SysClone, SysVfork, SysBlock, SysWake, SysWakeOp,
                SysEnd, SysExec
  <2>2. CASE KernelDone(w) \/ KernelFault(w) \/ \E u \in Threads : Terminate(w, u)
    BY <2>2 DEF KernelDone, KernelFault, Terminate
  <2>3. CASE \/ Sleep(w) \/ Notify(w) \/ SetPanicked(w) \/ RaisePanic(w) \/ SpuriousWake(w)
             \/ StartUser(w) \/ UserRun(w) \/ UserFault(w) \/ AtomicRun(w)
    BY <2>3 DEF Sleep, Notify, SetPanicked, RaisePanic, SpuriousWake, StartUser, UserRun,
                UserFault, AtomicRun
  <2> QED BY <1>3, <2>1, <2>2, <2>3 DEF Running
<1> QED BY <1>1, <1>2, <1>3 DEF Next, Joined

(* terminate is final: neither a wake-up nor the end of the job that was   *)
(* running the thread puts it back into threads_ or runnableThreads_.      *)
THEOREM DeathIsFinal == Spec => TerminatedForGood
<1>1. IInv' => runnable' \subseteq threads'
  BY DEF IInv, QueuesInv
<1>2. IInv /\ IInv' /\ [Next]_vars =>
        [\A t \in created \ threads :
           t \notin newborn => t \notin threads' /\ t \notin runnable']_vars
  BY <1>1, ThreadsStep
<1> QED BY <1>2, Invariant, PTL DEF Spec, TerminatedForGood

activeJobs == [w \in Workers |-> IF InJob(w) THEN job[w].mode ELSE "idle"]

LEMMA RefineInit == Init => Alone!Init
BY DEF Init, Alone!Init, InJob

LEMMA RefineStep == IInv /\ IInv' /\ [Next]_vars => [Alone!Next]_activeJobs
<1> SUFFICES ASSUME IInv, IInv', [Next]_vars PROVE Alone!Next \/ UNCHANGED activeJobs
  OBVIOUS
<1>1. pc \in [Workers -> PCs] /\ job \in [Workers -> Jobs \cup {NoJob}]
  BY DEF IInv, TypeOK
<1>2. \A v \in Workers : (InJob(v) <=> pc[v] \in JobPCs) /\ (InJob(v)' <=> pc'[v] \in JobPCs)
  BY DEF InJob, JobPCs
<1>3. CASE Stays
  BY <1>2, <1>3 DEF Stays, activeJobs, Begun
<1>4. ASSUME NEW w \in Workers, Begins(w) PROVE UNCHANGED activeJobs
  BY <1>1, <1>2, <1>4 DEF Begins, activeJobs, Begun, JobPCs
<1>5. ASSUME NEW w \in Workers, Ends(w) PROVE Alone!Next
  <2>1. activeJobs[w] # "idle"
    BY <1>2, <1>5 DEF Ends, Begun, activeJobs, IInv, WorkersInv, Jobs, Modes
  <2>2. activeJobs' = [activeJobs EXCEPT ![w] = "idle"]
    BY <1>1, <1>2, <1>5 DEF Ends, activeJobs
  <2>3. Alone!Leave(w)
    BY <2>1, <2>2 DEF Alone!Leave, activeJobs
  <2> QED BY <2>3 DEF Alone!Next
<1>6. ASSUME NEW w \in Workers, PickRun(w) PROVE Alone!Next
  <2>1. PICK t \in Candidates(w) : job' = [job EXCEPT ![w] = [thread |-> t, mode |-> wants[t]]]
    BY <1>6 DEF PickRun
  <2>2. /\ Picking(w) /\ ~panicked /\ pc[w] = "pick"
        /\ pc' = [pc EXCEPT ![w] = "start"]
    BY <1>6 DEF PickRun, Goto, Picking
  <2>3. activeJobs[w] = "idle"
    BY <1>2, <2>2 DEF activeJobs, JobPCs
  <2>4. activeJobs' = [activeJobs EXCEPT ![w] = wants[t]]
    BY <1>1, <1>2, <2>1, <2>2 DEF activeJobs, JobPCs
  <2>5. \A v \in Workers : InJob(v) => job[v].mode = "user" /\ wants[t] = "user"
    BY <2>2, PickerAlone
  <2>6. CASE wants[t] = "user"
    <3>1. \A v \in Workers : activeJobs[v] \in {"user", "idle"}
      BY <2>5 DEF activeJobs
    <3>2. Alone!EnterShared(w)
      BY <2>3, <2>4, <2>6, <3>1
      DEF Alone!EnterShared, Alone!Shared, Alone!Exclusive, activeJobs
    <3> QED BY <3>2 DEF Alone!Next
  <2>7. CASE wants[t] # "user"
    <3>1. \A v \in Workers : activeJobs[v] = "idle"
      BY <2>5, <2>7 DEF activeJobs
    <3>2. wants[t] \in {"atomic", "kernel"}
      BY <2>2, <2>7, PickedJob DEF Modes
    <3>3. Alone!EnterExclusive(w)
      BY <2>4, <3>1, <3>2 DEF Alone!EnterExclusive, Alone!Exclusive, activeJobs
    <3> QED BY <3>3 DEF Alone!Next
  <2> QED BY <2>6, <2>7
<1> QED BY <1>3, <1>4, <1>5, <1>6, Moves DEF IInv

(* The scheduler implements the reader-writer discipline of JobExclusion,  *)
(* in which a job is entered when the mutex is held to choose it.          *)
THEOREM ImplementsExclusion == Spec => JobsExclude
BY RefineInit, RefineStep, Invariant, PTL
DEF Spec, JobsExclude, Alone!Spec, activeJobs

-----------------------------------------------------------------------------
(* The order of the queues. *)

(* Of two members of S exactly one is in front of the other.               *)
Total(S, R) == \A t, u \in S : t # u => (<<t, u>> \in R) # (<<u, t>> \in R)

(* The run queue and the blocker lists are ordered, whatever was erased    *)
(* from them, and a syscall adds one thread at most.                       *)
OrderInv ==
  /\ Total(runnable, ahead)
  /\ Total(ThreadsOf(blockers), since)
  /\ since \subseteq ThreadsOf(blockers) \X ThreadsOf(blockers)
  /\ \A m, n \in newborn : m = n

(* Threads that are not in the run queue are pushed at its back.           *)
LEMMA RequeueOrder ==
  ASSUME Total(runnable, ahead), NEW gone, NEW come, NEW rank,
         come \cap (runnable \ gone) = {}, Total(come, rank),
         Requeue(gone, come, rank)
  PROVE  Total(runnable', ahead')
<1> DEFINE kept == runnable \ gone
<1>1. /\ runnable' = kept \cup come
      /\ ahead' = (ahead \cap (kept \X kept)) \cup (kept \X come) \cup (rank \cap (come \X come))
  BY DEF Requeue
<1>2. Total(kept, ahead)
  BY DEF Total
<1>3. kept \cap come = {}
  OBVIOUS
<1> HIDE DEF kept
<1> SUFFICES ASSUME NEW t \in kept \cup come, NEW u \in kept \cup come, t # u
             PROVE  (<<t, u>> \in ahead') # (<<u, t>> \in ahead')
  BY <1>1 DEF Total
<1>4. CASE t \in kept /\ u \in kept
  BY <1>1, <1>2, <1>3, <1>4 DEF Total
<1>5. CASE t \in come /\ u \in come
  BY <1>1, <1>3, <1>5 DEF Total
<1>6. CASE t \in kept /\ u \in come
  BY <1>1, <1>3, <1>6
<1>7. CASE t \in come /\ u \in kept
  BY <1>1, <1>3, <1>7
<1> QED BY <1>4, <1>5, <1>6, <1>7

(* Erasing entries keeps the order of the others.                          *)
LEMMA KeepOrder ==
  ASSUME OrderInv, NEW B, B \subseteq blockers, KeepBlockers(B)
  PROVE  /\ Total(ThreadsOf(blockers'), since')
         /\ since' \subseteq ThreadsOf(blockers') \X ThreadsOf(blockers')
<1>1. ThreadsOf(B) \subseteq ThreadsOf(blockers)
  BY DEF ThreadsOf
<1>2. blockers' = B /\ since' = since \cap (ThreadsOf(B) \X ThreadsOf(B))
  BY DEF KeepBlockers
<1>3. Total(ThreadsOf(blockers), since)
  BY DEF OrderInv
<1>4. Total(ThreadsOf(B), since')
  BY <1>1, <1>2, <1>3 DEF Total
<1> QED BY <1>2, <1>4

Before(b, c) == \/ ListRank[b.kind] < ListRank[c.kind]
                \/ b.kind = c.kind /\ <<b.thread, c.thread>> \in since

(* tryUnblockThreads goes through the lists one after the other, each from *)
(* its oldest entry on: an order, since no thread is in two lists.         *)
LEMMA UnblockOrderTotal ==
  ASSUME IInv, OrderInv, NEW B, B \subseteq blockers
  PROVE  Total(ThreadsOf(B), UnblockOrder(B))
<1> SUFFICES ASSUME NEW t \in ThreadsOf(B), NEW u \in ThreadsOf(B), t # u
             PROVE  (<<t, u>> \in UnblockOrder(B)) # (<<u, t>> \in UnblockOrder(B))
  BY DEF Total
<1>1. PICK b \in B : b.thread = t
  BY DEF ThreadsOf
<1>2. PICK c \in B : c.thread = u
  BY DEF ThreadsOf
<1>3. \A d, e \in B : d.thread = e.thread => d = e
  BY DEF IInv, BlockersInv, OneBlockerEach
<1>4. ASSUME NEW d \in B, NEW e \in B
      PROVE  <<d.thread, e.thread>> \in UnblockOrder(B) <=> Before(d, e)
  <2>1. UnblockOrder(B) = {<<p[1].thread, p[2].thread>> :
                             p \in {q \in B \X B : Before(q[1], q[2])}}
    BY DEF UnblockOrder, Before
  <2>2. ASSUME NEW p \in B \X B, Before(p[1], p[2]),
               <<d.thread, e.thread>> = <<p[1].thread, p[2].thread>>
        PROVE  Before(d, e)
    <3>1. p[1] \in B /\ p[2] \in B /\ p[1].thread = d.thread /\ p[2].thread = e.thread
      BY <2>2
    <3>2. p[1] = d /\ p[2] = e
      BY <1>3, <3>1
    <3> QED BY <2>2, <3>2
  <2>3. ASSUME Before(d, e)
        PROVE  \E p \in {q \in B \X B : Before(q[1], q[2])} :
                 <<d.thread, e.thread>> = <<p[1].thread, p[2].thread>>
    <3>1. <<d, e>>[1] = d /\ <<d, e>>[2] = e /\ <<d, e>> \in B \X B
      OBVIOUS
    <3>2. <<d, e>> \in {q \in B \X B : Before(q[1], q[2])}
      BY <2>3, <3>1
    <3> QED BY <3>1, <3>2
  <2> QED BY <2>1, <2>2, <2>3
<1>5. Before(b, c) <=> ~Before(c, b)
  <2>1. b.kind \in Kinds /\ c.kind \in Kinds
    BY DEF IInv, TypeOK, Blockers
  <2>2. /\ ListRank[b.kind] \in Int /\ ListRank[c.kind] \in Int
        /\ ListRank[b.kind] = ListRank[c.kind] <=> b.kind = c.kind
    BY <2>1 DEF ListRank, Kinds
  <2>3. (<<t, u>> \in since) # (<<u, t>> \in since)
    <3>1. t \in ThreadsOf(blockers) /\ u \in ThreadsOf(blockers)
      BY DEF ThreadsOf
    <3> QED BY <3>1 DEF OrderInv, Total
  <2> QED BY <1>1, <1>2, <2>2, <2>3 DEF Before
<1>6. /\ <<t, u>> \in UnblockOrder(B) <=> Before(b, c)
      /\ <<u, t>> \in UnblockOrder(B) <=> Before(c, b)
  BY <1>1, <1>2, <1>4
<1> QED BY <1>5, <1>6

(* Waiters are resumed: they leave their lists for the run queue.          *)
LEMMA UnblockAllOrder ==
  ASSUME IInv, OrderInv, NEW B, B \subseteq blockers, ThreadsOf(B) \subseteq blocked,
         NEW rank, Total(ThreadsOf(B), rank), UnblockAll(B, rank), newborn' = newborn
  PROVE  OrderInv'
<1>1. ThreadsOf(B) \cap (runnable \ {}) = {}
  BY DEF IInv, QueuesInv
<1>2. Requeue({}, ThreadsOf(B), rank) /\ KeepBlockers(blockers \ B)
  BY DEF UnblockAll
<1>3. Total(runnable', ahead')
  BY <1>1, <1>2, RequeueOrder DEF OrderInv
<1>4. /\ Total(ThreadsOf(blockers'), since')
      /\ since' \subseteq ThreadsOf(blockers') \X ThreadsOf(blockers')
  BY <1>2, KeepOrder
<1> QED BY <1>3, <1>4 DEF OrderInv

(* The waiters that a futex wake resumes are in the order of their list.   *)
LEMMA WokenOrder ==
  ASSUME IInv, OrderInv, NEW B, B \subseteq blockers, NEW word, NEW n
  PROVE  /\ WokenBy(B, word, n) \subseteq B
         /\ ThreadsOf(WokenBy(B, word, n)) \subseteq blocked
         /\ Total(ThreadsOf(WokenBy(B, word, n)), since)
<1> DEFINE W == WokenBy(B, word, n)
<1>1. \A b \in W : b \in B /\ b.kind = "futex"
  BY DEF WokenBy, Wakeable
<1> HIDE DEF W
<1>2. ThreadsOf(W) \subseteq blocked
  BY <1>1 DEF ThreadsOf, IInv, BlockersInv
<1>3. ThreadsOf(W) \subseteq ThreadsOf(blockers)
  BY <1>1 DEF ThreadsOf
<1>4. Total(ThreadsOf(W), since)
  BY <1>3 DEF OrderInv, Total
<1> QED BY <1>1, <1>2, <1>4 DEF W

(* The thread of a job that ends goes behind the one it created.           *)
LEMMA StopOrder ==
  ASSUME IInv, OrderInv, NEW w \in Workers, InJob(w), NEW fresh, fresh \subseteq newborn,
         StopRunning(w, fresh), UNCHANGED <<blockers, since>>,
         \A m, n \in newborn' : m = n
  PROVE  OrderInv'
<1> DEFINE back == IF IsRunning(Self(w)) THEN {Self(w)} ELSE {}
           come == fresh \cup back
           rank == fresh \X back
<1>1. Requeue({}, come, rank)
  BY DEF StopRunning
<1>2. come \cap (runnable \ {}) = {}
  BY DEF IInv, QueuesInv
<1>3. Self(w) \notin fresh /\ (\A m, n \in fresh : m = n) /\ \A m \in back : m = Self(w)
  BY DEF IInv, QueuesInv, OrderInv
<1>4. Total(come, rank)
  <2> HIDE DEF back
  <2> QED BY <1>3 DEF Total
<1>5. Total(runnable', ahead')
  <2> HIDE DEF come, rank
  <2> QED BY <1>1, <1>2, <1>4, RequeueOrder DEF OrderInv
<1> QED BY <1>5 DEF OrderInv

LEMMA PickOrder ==
  ASSUME IInv, OrderInv, NEW w \in Workers, Pick(w)
  PROVE  OrderInv'
<1> USE DEF allButPc, outOfCall, queues, timeVars, syscallVars
<1>1. CASE PickAbort(w) \/ PickDeadlock(w) \/ PickExit(w) \/ PickWait(w)
  <2>1. UNCHANGED <<runnable, ahead, blockers, since, newborn>>
    BY <1>1 DEF PickAbort, PickDeadlock, PickExit, PickWait
  <2> QED BY <2>1 DEF OrderInv
<1>2. CASE PickUnblock(w)
  <2>1. PICK E \in SUBSET External :
          /\ ThreadsOf(E \cup {b \in blockers : Expired(b)}) \subseteq blocked
          /\ UnblockAll(E \cup {b \in blockers : Expired(b)},
                        UnblockOrder(E \cup {b \in blockers : Expired(b)}))
    BY <1>2 DEF PickUnblock
  <2> DEFINE B == E \cup {b \in blockers : Expired(b)}
  <2>2. B \subseteq blockers /\ newborn' = newborn
    BY <1>2 DEF PickUnblock, External
  <2>3. ThreadsOf(B) \subseteq blocked /\ UnblockAll(B, UnblockOrder(B))
    BY <2>1
  <2> HIDE DEF B
  <2>4. Total(ThreadsOf(B), UnblockOrder(B))
    BY <2>2, UnblockOrderTotal
  <2> QED BY <2>2, <2>3, <2>4, UnblockAllOrder
<1>3. CASE PickCrash(w)
  <2>1. PICK E \in SUBSET External :
          LET done == {b \in E \cup {b \in blockers : Expired(b)} : b.kind # "vm"}
          IN  UnblockAll(done, UnblockOrder(done))
    BY <1>3 DEF PickCrash
  <2> DEFINE done == {b \in E \cup {b \in blockers : Expired(b)} : b.kind # "vm"}
  <2>2. done \subseteq blockers /\ (\A b \in done : b.kind # "vm") /\ newborn' = newborn
    BY <1>3 DEF PickCrash, External
  <2>3. UnblockAll(done, UnblockOrder(done))
    BY <2>1
  <2> HIDE DEF done
  <2>4. ThreadsOf(done) \subseteq blocked
    BY <2>2 DEF ThreadsOf, IInv, BlockersInv
  <2>5. Total(ThreadsOf(done), UnblockOrder(done))
    BY <2>2, UnblockOrderTotal
  <2> QED BY <2>2, <2>3, <2>4, <2>5, UnblockAllOrder
<1>4. CASE PickRun(w)
  <2>1. PICK t : Requeue({t}, {}, {})
    BY <1>4 DEF PickRun
  <2>2. UNCHANGED <<blockers, since, newborn>>
    BY <1>4 DEF PickRun
  <2>3. {} \cap (runnable \ {t}) = {} /\ Total({}, {})
    BY DEF Total
  <2>4. Total(runnable', ahead')
    BY <2>1, <2>3, RequeueOrder DEF OrderInv
  <2> QED BY <2>2, <2>4 DEF OrderInv
<1> QED BY <1>1, <1>2, <1>3, <1>4 DEF Pick

LEMMA SyscallOrder ==
  ASSUME IInv, OrderInv, NEW w \in Workers, AnySyscall(w)
  PROVE  OrderInv'
<1> USE DEF allButPc, outOfCall, queues, syscallVars
<1>1. CASE SysReturn(w) \/ SysEnd(w) \/ SysExec(w) \/ SysClone(w)
  <2>1. /\ UNCHANGED <<runnable, ahead, blockers, since>>
        /\ \A m, n \in newborn' : m = n
    BY <1>1 DEF SysReturn, SysEnd, SysExec, SysClone, Create, OrderInv
  <2> QED BY <2>1 DEF OrderInv
<1>2. CASE SysVfork(w) \/ SysBlock(w)
  <2>1. PICK k, word, limit : BlockSelf(w, Blocker(Self(w), k, word, limit))
    BY <1>2 DEF SysVfork, SysBlock
  <2>2. /\ UNCHANGED <<runnable, ahead>> /\ pc[w] = "kernel"
        /\ \A m, n \in newborn' : m = n
    BY <1>2 DEF SysVfork, SysBlock, Syscall, Create, OrderInv
  <2> DEFINE b0 == Blocker(Self(w), k, word, limit)
  <2>3. b0.thread = Self(w)
    BY DEF Blocker
  <2>4. Self(w) \notin ThreadsOf(blockers)
    <3>1. Self(w) \in RunningThreads
      BY <2>2 DEF IInv, JobsInv, Busy, InJob, RunningThreads, Self
    <3>2. Self(w) \in threads /\ Self(w) \notin blocked
      BY <3>1 DEF IInv, QueuesInv
    <3> QED BY <3>2 DEF IInv, BlockersInv, ThreadsOf
  <2>5. blockers' = blockers \cup {b0} /\ since' = since \cup (ThreadsOf(blockers) \X {Self(w)})
    BY <2>1 DEF BlockSelf
  <2> HIDE DEF b0
  <2>6. ThreadsOf(blockers') = ThreadsOf(blockers) \cup {Self(w)}
    BY <2>3, <2>5 DEF ThreadsOf
  <2>7. since' \subseteq ThreadsOf(blockers') \X ThreadsOf(blockers')
    BY <2>5, <2>6 DEF OrderInv
  <2>8. Total(ThreadsOf(blockers'), since')
    <3> DEFINE T == ThreadsOf(blockers)
    <3>1. Total(T, since) /\ since \subseteq T \X T /\ Self(w) \notin T
      BY <2>4 DEF OrderInv
    <3>2. since' = since \cup (T \X {Self(w)}) /\ ThreadsOf(blockers') = T \cup {Self(w)}
      BY <2>5, <2>6
    <3> HIDE DEF T
    <3> QED BY <3>1, <3>2 DEF Total
  <2> QED BY <2>2, <2>7, <2>8 DEF OrderInv
<1>3. CASE SysWake(w)
  <2>1. PICK word \in Words, n \in Counts : UnblockAll(WokenBy(blockers, word, n), since)
    BY <1>3 DEF SysWake
  <2>2. newborn' = newborn
    BY <1>3 DEF SysWake
  <2>3. /\ WokenBy(blockers, word, n) \subseteq blockers
        /\ ThreadsOf(WokenBy(blockers, word, n)) \subseteq blocked
        /\ Total(ThreadsOf(WokenBy(blockers, word, n)), since)
    BY WokenOrder
  <2> QED BY <2>1, <2>2, <2>3, UnblockAllOrder
<1>4. CASE SysWakeOp(w)
  <2>1. PICK word \in Words, word2 \in Words, n \in Counts, n2 \in Counts, cmp \in BOOLEAN :
          LET W == WokenBy(blockers, word, n)
              W2 == IF cmp THEN WokenBy(blockers \ W, word2, n2) ELSE {}
              later == ThreadsOf(W2) \X ThreadsOf(W)
          IN  UnblockAll(W \cup W2,
                         (since \ later) \cup (ThreadsOf(W) \X ThreadsOf(W2)))
    BY <1>4 DEF SysWakeOp
  <2> DEFINE W == WokenBy(blockers, word, n)
             W2 == IF cmp THEN WokenBy(blockers \ W, word2, n2) ELSE {}
             rank == (since \ (ThreadsOf(W2) \X ThreadsOf(W)))
                       \cup (ThreadsOf(W) \X ThreadsOf(W2))
  <2>2. newborn' = newborn /\ UnblockAll(W \cup W2, rank)
    BY <1>4, <2>1 DEF SysWakeOp
  <2>3. /\ W \subseteq blockers /\ ThreadsOf(W) \subseteq blocked
        /\ Total(ThreadsOf(W), since)
    BY WokenOrder
  <2>4. /\ W2 \subseteq blockers \ W /\ ThreadsOf(W2) \subseteq blocked
        /\ Total(ThreadsOf(W2), since)
    <3>1. blockers \ W \subseteq blockers
      OBVIOUS
    <3>2. /\ WokenBy(blockers \ W, word2, n2) \subseteq blockers \ W
          /\ ThreadsOf(WokenBy(blockers \ W, word2, n2)) \subseteq blocked
          /\ Total(ThreadsOf(WokenBy(blockers \ W, word2, n2)), since)
      BY <3>1, WokenOrder
    <3>3. ThreadsOf({}) = {} /\ Total({}, since)
      BY DEF ThreadsOf, Total
    <3> QED BY <3>2, <3>3
  <2> HIDE DEF W, W2
  <2>5. ThreadsOf(W) \cap ThreadsOf(W2) = {}
    <3>1. \A b, c \in blockers : b.thread = c.thread => b = c
      BY DEF IInv, BlockersInv, OneBlockerEach
    <3> QED BY <2>3, <2>4, <3>1 DEF ThreadsOf
  <2>6. ThreadsOf(W \cup W2) = ThreadsOf(W) \cup ThreadsOf(W2)
    BY DEF ThreadsOf
  <2>7. Total(ThreadsOf(W) \cup ThreadsOf(W2), rank)
    BY <2>3, <2>4, <2>5 DEF Total
  <2>8. W \cup W2 \subseteq blockers /\ ThreadsOf(W \cup W2) \subseteq blocked
    BY <2>3, <2>4, <2>6
  <2> HIDE DEF rank
  <2> QED BY <2>2, <2>6, <2>7, <2>8, UnblockAllOrder
<1> QED BY <1>1, <1>2, <1>3, <1>4 DEF AnySyscall

LEMMA TerminateOrder ==
  ASSUME IInv, OrderInv, NEW w \in Workers, NEW u \in Threads, Terminate(w, u)
  PROVE  OrderInv'
<1> DEFINE left == Survivors(u)
           woken == IF ClearTid[u] = NoWord THEN {} ELSE WokenBy(left, ClearTid[u], 1)
<1>1. /\ Requeue({u}, ThreadsOf(woken), since) /\ KeepBlockers(left \ woken)
      /\ newborn' = newborn
  BY DEF Terminate
<1>2. left \subseteq blockers
  BY DEF Survivors
<1>3. /\ woken \subseteq left /\ ThreadsOf(woken) \subseteq blocked
      /\ Total(ThreadsOf(woken), since)
  <2>1. /\ WokenBy(left, ClearTid[u], 1) \subseteq left
        /\ ThreadsOf(WokenBy(left, ClearTid[u], 1)) \subseteq blocked
        /\ Total(ThreadsOf(WokenBy(left, ClearTid[u], 1)), since)
    BY <1>2, WokenOrder
  <2>2. ThreadsOf({}) = {} /\ Total({}, since)
    BY DEF ThreadsOf, Total
  <2> QED BY <2>1, <2>2
<1> HIDE DEF left, woken
<1>4. ThreadsOf(woken) \cap (runnable \ {u}) = {}
  BY <1>3 DEF IInv, QueuesInv
<1>5. Total(runnable', ahead')
  BY <1>1, <1>3, <1>4, RequeueOrder DEF OrderInv
<1>6. left \ woken \subseteq blockers
  BY <1>2
<1>7. /\ Total(ThreadsOf(blockers'), since')
      /\ since' \subseteq ThreadsOf(blockers') \X ThreadsOf(blockers')
  BY <1>1, <1>6, KeepOrder
<1> QED BY <1>1, <1>5, <1>7 DEF OrderInv

LEMMA OrderNext == IInv /\ OrderInv /\ [Next]_vars => OrderInv'
<1> SUFFICES ASSUME IInv, OrderInv, [Next]_vars PROVE OrderInv'
  OBVIOUS
<1> USE DEF allButPc, queues, timeVars, syscallVars
<1>1. CASE UNCHANGED vars
  BY <1>1 DEF vars, OrderInv
<1>2. ASSUME NEW w \in Workers,
             \/ Doze(w) \/ StartAtomic(w) \/ StartKernel(w) \/ Sleep(w) \/ Notify(w)
             \/ SetPanicked(w) \/ RaisePanic(w) \/ StartUser(w) \/ UserRun(w)
             \/ UserFault(w) \/ SpuriousWake(w)
      PROVE  OrderInv'
  <2>1. UNCHANGED <<runnable, ahead, blockers, since, newborn>>
    BY <1>2 DEF Doze, StartAtomic, StartKernel, Sleep, Notify, SetPanicked, RaisePanic,
                StartUser, UserRun, UserFault, SpuriousWake
  <2> QED BY <2>1 DEF OrderInv
<1>3. ASSUME NEW w \in Workers,
             UserStop(w) \/ AtomicRun(w) \/ KernelDone(w) \/ KernelFault(w)
      PROVE  OrderInv'
  <2>1. InJob(w)
    BY <1>3 DEF UserStop, AtomicRun, KernelDone, KernelFault, InJob
  <2>2. CASE UserStop(w) \/ AtomicRun(w)
    <3>1. /\ StopRunning(w, {}) /\ UNCHANGED <<blockers, since>>
          /\ \A m, n \in newborn' : m = n
      BY <2>2 DEF UserStop, AtomicRun, OrderInv
    <3> QED BY <2>1, <3>1, StopOrder
  <2>3. CASE KernelDone(w)
    <3>1. /\ StopRunning(w, newborn) /\ UNCHANGED <<blockers, since>>
          /\ \A m, n \in newborn' : m = n
      BY <2>3 DEF KernelDone, LeaveKernel
    <3> QED BY <2>1, <3>1, StopOrder
  <2>4. CASE KernelFault(w)
    <3>1. /\ StopRunning(w, {}) /\ UNCHANGED <<blockers, since>>
          /\ \A m, n \in newborn' : m = n
      BY <2>4 DEF KernelFault, LeaveKernel
    <3> QED BY <2>1, <3>1, StopOrder
  <2> QED BY <1>3, <2>2, <2>3, <2>4
<1>4. CASE \E w \in Workers : Locking(w) \/ Running(w) \/ SpuriousWake(w)
  BY <1>2, <1>3, <1>4, PickOrder, SyscallOrder, TerminateOrder DEF Locking, Running
<1> QED BY <1>1, <1>4 DEF Next, Joined

(* Outside a syscall a live thread is in one queue, once, and the run      *)
(* queue has an order: the tests that block, unblock, terminate and        *)
(* stopRunningThread make of where a thread may be are enough.             *)
THEOREM InOneQueueOnce == Spec => []InOneQueue
<1>1. Init => OrderInv
  BY DEF Init, OrderInv, Total, ThreadsOf
<1>2. IInv /\ OrderInv => InOneQueue
  <2> SUFFICES ASSUME IInv, OrderInv PROVE InOneQueue
    OBVIOUS
  <2>1. \A i, j \in runningJobs : i.thread = j.thread => i = j
    BY DEF IInv, JobsInv
  <2>2. \A t, u \in runnable : t # u => (<<t, u>> \in ahead) # (<<u, t>> \in ahead)
    BY DEF OrderInv, Total
  <2>3. /\ runnable \cap blocked = {}
        /\ {j.thread : j \in runningJobs} \cap (runnable \cup blocked) = {}
        /\ threads = runnable \cup blocked \cup {j.thread : j \in runningJobs}
    BY DEF IInv, QueuesInv, RunningThreads
  <2> QED BY <2>1, <2>2, <2>3 DEF InOneQueue
<1> QED BY <1>1, <1>2, InitInv, NextInv, OrderNext, PTL DEF Spec

-----------------------------------------------------------------------------
(* Deadlines while a worker goes from its choice of a syscall to the call. *)

(* A worker that is about to run a syscall, or in one.                     *)
AtCall(w) == pc[w] \in {"start", "kernel"} /\ job[w].mode = "kernel"

(* Nothing moves the clock, or adds a waiter, until the call itself does.  *)
LEMMA CallWaits ==
  ASSUME IInv, [Next]_vars, NEW w \in Workers, AtCall(w), AtCall(w)'
  PROVE  clock' = clock /\ blockers' \subseteq blockers
<1> USE DEF allButPc, outOfCall, queues, timeVars, syscallVars
<1>1. pc \in [Workers -> PCs] /\ \A v \in Workers : InJob(v) => v = w
  BY DEF IInv, TypeOK, RunsAlone, AtCall, InJob
<1>2. CASE UNCHANGED vars
  BY <1>2 DEF vars
<1>3. ASSUME NEW v \in Workers,
             \/ Doze(v) \/ StartAtomic(v) \/ StartKernel(v) \/ Sleep(v) \/ Notify(v)
             \/ SetPanicked(v) \/ RaisePanic(v) \/ StartUser(v) \/ UserRun(v)
             \/ UserFault(v) \/ AtomicRun(v) \/ SpuriousWake(v) \/ PickAbort(v)
             \/ PickDeadlock(v) \/ PickExit(v) \/ PickRun(v) \/ SysReturn(v)
             \/ SysClone(v) \/ SysEnd(v) \/ SysExec(v)
      PROVE  UNCHANGED <<clock, blockers>>
  BY <1>3 DEF Doze, StartAtomic, StartKernel, Sleep, Notify, SetPanicked, RaisePanic,
              StartUser, UserRun, UserFault, AtomicRun, SpuriousWake, PickAbort,
              PickDeadlock, PickExit, PickRun, SysReturn, SysClone, SysEnd, SysExec
<1>4. ASSUME NEW v \in Workers,
             \/ PickUnblock(v) \/ PickCrash(v) \/ SysWake(v) \/ SysWakeOp(v)
             \/ KernelDone(v) \/ KernelFault(v) \/ \E u \in Threads : Terminate(v, u)
      PROVE  clock' = clock /\ blockers' \subseteq blockers
  <2>1. CASE PickUnblock(v) \/ PickCrash(v) \/ SysWake(v) \/ SysWakeOp(v)
    <3>1. clock' = clock
      BY <2>1 DEF PickUnblock, PickCrash, SysWake, SysWakeOp
    <3>2. ASSUME NEW B, NEW rank, UnblockAll(B, rank) PROVE blockers' \subseteq blockers
      BY <3>2 DEF UnblockAll, KeepBlockers
    <3>3. CASE PickUnblock(v) \/ PickCrash(v)
      BY <3>2, <3>3 DEF PickUnblock, PickCrash
    <3>4. CASE SysWake(v)
      BY <3>2, <3>4 DEF SysWake
    <3>5. CASE SysWakeOp(v)
      BY <3>2, <3>5 DEF SysWakeOp
    <3> QED BY <2>1, <3>1, <3>3, <3>4, <3>5
  <2>2. CASE KernelDone(v) \/ KernelFault(v)
    BY <2>2 DEF KernelDone, KernelFault, LeaveKernel
  <2>3. CASE \E u \in Threads : Terminate(v, u)
    BY <2>3 DEF Terminate, KeepBlockers, Survivors
  <2> QED BY <1>4, <2>1, <2>2, <2>3
<1>5. ASSUME NEW v \in Workers, UserStop(v) PROVE FALSE
  <2>1. InJob(v) /\ pc[v] \in {"stop", "fault"}
    BY <1>5 DEF UserStop, InJob
  <2> QED BY <1>1, <2>1 DEF AtCall
<1>6. ASSUME NEW v \in Workers, PickWait(v) PROVE FALSE
  <2>1. Picking(v) /\ ~panicked /\ Candidates(v) = {}
    BY <1>6 DEF PickWait
  <2>2. Busy(w)
    BY DEF Busy, AtCall, InJob
  <2>3. job[w] \in RunningAs("kernel")
    BY <2>2 DEF IInv, JobsInv, RunningAs, AtCall
  <2>4. HasRunnableThread(v)
    BY <2>1, <2>3 DEF Picking, CanWake, AllThreadsBlocked, RunningAs
  <2>5. w = Main /\ v # w
    BY <2>1 DEF IInv, WorkersInv, AtCall, InJob, Picking
  <2> QED BY <2>3, <2>4, <2>5 DEF HasRunnableThread
<1>7. ASSUME NEW v \in Workers, SysVfork(v) \/ SysBlock(v) PROVE FALSE
  <2>1. pc[v] = "kernel" /\ pc' = [pc EXCEPT ![v] = "leave"]
    BY <1>7 DEF SysVfork, SysBlock, Syscall, Goto
  <2>2. v = w
    BY <1>1, <2>1 DEF InJob
  <2> QED BY <1>1, <2>1, <2>2 DEF AtCall
<1>8. CASE \E v \in Workers : Locking(v) \/ Running(v) \/ SpuriousWake(v)
  BY <1>3, <1>4, <1>5, <1>6, <1>7, <1>8 DEF Locking, Pick, Running, AnySyscall
<1> QED BY <1>2, <1>8 DEF Next, Joined

(* A worker enters a syscall only by starting the job it was given.        *)
LEMMA KernelEntered ==
  ASSUME IInv, [Next]_vars, NEW w \in Workers, pc[w] # "kernel", pc'[w] = "kernel"
  PROVE  pc[w] = "start"
<1>1. pc \in [Workers -> PCs]
  BY DEF IInv, TypeOK
<1> USE DEF allButPc, outOfCall, Goto
<1>2. ASSUME NEW v \in Workers,
             \/ Doze(v) \/ Sleep(v) \/ SpuriousWake(v) \/ Notify(v) \/ SetPanicked(v)
             \/ RaisePanic(v) \/ PickAbort(v) \/ PickUnblock(v) \/ PickCrash(v)
             \/ PickDeadlock(v) \/ PickExit(v) \/ PickWait(v)
      PROVE  FALSE
  <2>1. CASE Doze(v) \/ Sleep(v) \/ SpuriousWake(v) \/ SetPanicked(v)
    BY <1>1, <2>1 DEF Doze, Sleep, SpuriousWake, SetPanicked
  <2>2. CASE Notify(v) \/ RaisePanic(v) \/ PickExit(v)
    BY <1>1, <2>2 DEF Notify, RaisePanic, PickExit, AfterNotify
  <2>3. CASE PickAbort(v) \/ PickUnblock(v) \/ PickCrash(v) \/ PickDeadlock(v)
             \/ PickWait(v)
    BY <1>1, <2>3 DEF PickAbort, PickUnblock, PickCrash, PickDeadlock, PickWait
  <2> QED BY <1>2, <2>1, <2>2, <2>3
<1>3. ASSUME NEW v \in Workers,
             \/ StartUser(v) \/ StartAtomic(v) \/ UserRun(v) \/ UserFault(v)
             \/ UserStop(v) \/ AtomicRun(v) \/ KernelDone(v) \/ KernelFault(v)
             \/ PickRun(v) \/ \E u \in Threads : Terminate(v, u)
      PROVE  FALSE
  BY <1>1, <1>3 DEF StartUser, StartAtomic, UserRun, UserFault, UserStop, AtomicRun,
                    KernelDone, KernelFault, PickRun, Terminate
<1>4. ASSUME NEW v \in Workers, AnySyscall(v) PROVE FALSE
  <2>1. Syscall(v)
    BY <1>4 DEF AnySyscall, SysReturn, SysClone, SysVfork, SysBlock, SysWake, SysWakeOp,
                SysEnd, SysExec
  <2> QED BY <1>1, <2>1 DEF Syscall
<1>5. ASSUME NEW v \in Workers, StartKernel(v) PROVE pc[w] = "start"
  BY <1>1, <1>5 DEF StartKernel, Starting
<1>6. CASE UNCHANGED vars
  BY <1>6 DEF vars
<1>7. CASE \E v \in Workers : Locking(v) \/ Running(v) \/ SpuriousWake(v)
  BY <1>2, <1>3, <1>4, <1>5, <1>7 DEF Locking, Pick, Running
<1> QED BY <1>6, <1>7 DEF Next, Joined

(* A worker comes to a syscall only by choosing it.                        *)
LEMMA CallBegins ==
  ASSUME IInv, [Next]_vars, NEW w \in Workers, ~AtCall(w), AtCall(w)'
  PROVE  PickRun(w)
<1>1. pc \in [Workers -> PCs] /\ job \in [Workers -> Jobs \cup {NoJob}]
  BY DEF IInv, TypeOK
<1>2. ASSUME Stays PROVE FALSE
  <2>1. job' = job /\ pc[w] # pc'[w]
    BY <1>2 DEF Stays, AtCall
  <2>2. pc[w] \in Begun /\ pc'[w] = "kernel" /\ pc[w] # "kernel"
    BY <1>2, <2>1 DEF Stays, AtCall, JobPCs, Begun
  <2> QED BY <2>2, KernelEntered DEF Begun
<1>3. ASSUME NEW v \in Workers, Begins(v) PROVE FALSE
  <2>1. pc[v] = "start" /\ job' = job /\ pc' = [pc EXCEPT ![v] = pc'[v]]
    BY <1>3 DEF Begins
  <2>2. v # w => pc'[w] = pc[w]
    BY <1>1, <2>1
  <2> QED BY <2>1, <2>2 DEF AtCall
<1>4. ASSUME NEW v \in Workers, Ends(v) PROVE FALSE
  <2>1. /\ pc'[v] \notin JobPCs /\ pc' = [pc EXCEPT ![v] = pc'[v]]
        /\ job' = [job EXCEPT ![v] = NoJob]
    BY <1>4 DEF Ends
  <2>2. v # w => pc'[w] = pc[w] /\ job'[w] = job[w]
    BY <1>1, <2>1
  <2> QED BY <2>1, <2>2 DEF AtCall, JobPCs
<1>5. ASSUME NEW v \in Workers, PickRun(v) PROVE v = w
  <2>1. /\ pc' = [pc EXCEPT ![v] = "start"]
        /\ \A u \in Workers : u # v => job'[u] = job[u]
    BY <1>1, <1>5 DEF PickRun, Goto
  <2> QED BY <1>1, <2>1 DEF AtCall
<1> QED BY <1>2, <1>3, <1>4, <1>5, Moves DEF IInv

(* The deadlines of the futex waiters have not passed when a syscall       *)
(* starts: the worker that chose it had resumed all it found expired, and  *)
(* nobody moves the clock before the call takes the mutex.                 *)
THEOREM NoWakeIsWasted == Spec => []NoWakeWasted
<1>1. Init => NoWakeWasted
  BY DEF Init, NoWakeWasted
<1>2. IInv /\ NoWakeWasted /\ [Next]_vars => NoWakeWasted'
  <2> SUFFICES ASSUME IInv, NoWakeWasted, [Next]_vars, NEW w \in Workers, AtCall(w)',
                      NEW b \in blockers', b.kind = "futex"
               PROVE  ~Expired(b)'
    BY DEF NoWakeWasted, AtCall
  <2>1. CASE AtCall(w)
    <3>1. clock' = clock /\ b \in blockers
      BY <2>1, CallWaits
    <3>2. ~Expired(b)
      BY <2>1, <3>1 DEF NoWakeWasted, AtCall
    <3> QED BY <3>1, <3>2 DEF Expired
  <2>2. CASE ~AtCall(w)
    <3>1. PickRun(w)
      BY <2>2, CallBegins
    <3>2. NothingDue /\ UNCHANGED <<clock, blockers>>
      BY <3>1 DEF PickRun, timeVars
    <3>3. ~Expired(b)
      BY <3>2 DEF NothingDue
    <3> QED BY <3>2, <3>3 DEF Expired
  <2> QED BY <2>1, <2>2
<1> QED BY <1>1, <1>2, InitInv, NextInv, PTL DEF Spec
=============================================================================
