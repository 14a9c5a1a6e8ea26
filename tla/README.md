# x64emulator: a TLA+ verification project

x64emulator runs Linux x86-64 programs in user space: it decodes and interprets (or
compiles) their instructions, and emulates the kernel they call. Two parts of it are
hard to test. One is the kernel: several host threads take jobs out of one queue,
emulated threads block, are woken, time out and are killed, processes share address
spaces and wait for each other, descriptors are duplicated, inherited and closed, and
caches of translated code follow a memory map that changes under them. The other is
that each instruction is written several times (interpreted, translated, optimised,
chained to other blocks) and that all of these have to agree. This project models
both.

Paths below are relative to `src/emulator`; `.cpp` files live in `src/kernel/linux`,
`src/x64` or `src/emulator`, headers in `include/`.

- [The system](#the-system)
- [Modules](#modules)
- [Runs, bounds and fairness](#runs-bounds-and-fairness)
- [What the violation runs show](#what-the-violation-runs-show)
- [What the models show beyond the runs](#what-the-models-show-beyond-the-runs)
- [Proofs](#proofs)
- [What is only model-checked](#what-is-only-model-checked)
- [What is not modelled](#what-is-not-modelled)
- [Plan](#plan)

## The system

| Component | State it keeps | Operations | What makes it correct |
|---|---|---|---|
| Scheduler (`scheduler.cpp`, `threadblocker.cpp`) | `threads_`, `runningJobs_`, `runnableThreads_`, `blockedThreads_`, eight lists of blockers, `numRunningJobs_`, `inKernel_`, `currentTime_` | worker loop, `tryPickNext`, the three run functions, `block`/`unblock`, `wait`/`wake`/`wakeOp`, `sleep`, `poll`, `select`, `epoll`, `terminate*`, `kill` | a system call or an atomic slice runs alone; every live thread is in one queue; a blocked thread has one blocker; no runnable thread and no deadline is forgotten |
| Processes (`process.cpp`, `processtable.cpp`, `syscalls.cpp`) | `processes_`, the ids, `parent_`, `children_`, `exitedChildren_`, the shared `AddressSpace` | `clone`, `fork`, `vfork`, `execve`, `exit`, `exit_group`, `tgkill`, `wait4` | a child is reported once, to its parent; a `vfork` parent does not run on memory its child uses; tids are unique |
| Address space (`mmu.cpp`, `intervalvector.h`, `process.cpp`) | regions, `regionLookup`, host memory, `codeSegments_`, `codeSegmentsByAddress_` | `mmap`, `munmap`, `mprotect`, `brk`, clone, exec, fetch of a block | the program sees a page table; the lookup and the code caches agree with the regions |
| Timers (`timers.cpp`, `vmthread.h`) | timers by clock id, the slice and time of a thread | `getOrTryCreate`, `updateAll`, `setSlice` | time never goes back, deadlines are met |
| Code segments and JIT chaining (`codesegment.cpp`, `compiler/jit.cpp`, `vm.cpp`) | blocks, their successors, predecessors, call predecessors, native code and patched jumps; the native return stack of each thread | `findNext`, `addSuccessor`, `removeFromCaches`, `onCall`, compile, patch | no block follows a pointer to a purged one; native code runs the program the interpreter would run |
| Processor (`cpu.cpp`, `cpuimpl.cpp`, `nativecpuimpl.cpp`, `checkedcpuimpl.cpp`) | registers, flags, MXCSR | one function for each instruction | the portable algorithms answer as the processor of the host does |
| Code generation (`compiler/compiler.cpp`, `ir.cpp`, `codegenerator.cpp`) | the intermediate code of a block | translate each instruction, enter and leave a block, generate | translated code changes the guest as the interpreter does, and nothing else |
| Optimizer (`compiler/optimizer.cpp`) | none | dead code, push/pop, copies | a pass keeps the meaning of a block |
| Executable memory allocator (`compiler/executablememoryallocator.cpp`) | arenas and free blocks | allocate, free | blocks do not overlap |
| Disassembly cache (`disassembler/disassemblycache.cpp`) | sections by begin and by end | look up, extend, purge | a section is the code that is mapped |
| File system (`fs/fs.cpp`, `openfiledescription.cpp`, `shadowfile.cpp`) | the tree, open file descriptions, reference counts, locks | open, close, dup, rename, unlink, flock, read, write | a file lives as long as its last descriptor or name |
| Pipes, events, epoll, sockets (`fs/pipe.cpp`, `event.cpp`, `epoll.cpp`, `socket.cpp`) | buffers, end points, counters, interest lists | read, write, poll, close | readiness says what a call would do |
| Shared memory (`shm/`) | segments, where they are attached, removal marks | `shmget`, `shmat`, `shmdt`, `shmctl` | a segment lives until its last detach |
| Kernel (`kernel.cpp`, `syscalls.cpp`) | `hasPanicked_`; dispatch | panic, other system calls | a panic ends the run |
| Disassembler, ELF reader, host wrappers, profiling, profile viewer, front end | tables; parsed data | | not modelled, see below |

How they interact. A worker of the scheduler calls `VM::execute` for one thread until
its slice of a millisecond is over or the thread asks for a system call or an atomic
instruction; the thread fetches blocks through its `Process`, which asks the address
space. System calls run in `Sys::syscall` on worker 0 with `schedulerMutex_` held and
`inKernel_` set, and call back into the scheduler to block, wake or end threads.
Creating, destroying or protecting a region calls back into the code caches of the
process (`onRegionCreation`, `onRegionProtectionChange`, `onRegionDestruction`).
`VM::execute` follows the graph of blocks, counts their calls and has the `Jit`
compile those that are called often: `Compiler` translates a block to intermediate
instructions, `Optimizer` removes some of its body, `CodeGenerator` has them
assembled, and the jumps of the block and of its predecessors are patched, so that
native code goes from block to block without coming back. Before each pick the
scheduler calls `tryUnblock` of every blocker, which reads the process table, the
files, the futex words and the timers. A `verify` that fails throws; the worker that
catches it calls `Kernel::panic`.

What is hard. A job is chosen under one hold of the mutex and counted or started under
the next one. A blocked thread is in two lists of the scheduler at once, and a
terminated one has to leave all of them. A pass over the blockers changes what the
later ones see. Processes refer to each other, to address spaces and to threads that
may end in any order. A region is split, taken and added again in the middle of a
call, and each time its caches are told. Blocks refer to each other in both directions
and disappear when memory is unmapped, while threads hold native addresses into them.
The guest's registers are memory to native code, the host's registers are scratch, and
every form of every instruction has its own translation. Reference counts are kept by
hand in every call that copies or closes a descriptor. `PROJECT.json` lists the
hazards line by line, with the properties that watch each of them or the reason why
none does.

## Modules

| Module | Role |
|---|---|
| `Scheduler` | the workers, jobs, queues, blockers, time, panics |
| `JobExclusion` | abstract: readers-writer discipline of jobs; `Scheduler!JobsExclude` |
| `Processes` | process table, families, waiters, vfork suspension |
| `ChildLife` | abstract: the life of a child; `Processes!ChildrenLive` |
| `AddressSpace` | regions, lookup, contents, code intervals and index |
| `PageTable` | abstract: what memory is to a program; `AddressSpace!ImplementsPageTable` |
| `GuestCode` | abstract: what a program does, block by block; `CodeSegments!RunsTheProgram` |
| `CodeSegments` | graph of blocks, the loop of `VM::execute`, patches, native return stacks; extends `GuestCode` |
| `Words` | machine words of any width |
| `CpuImpl`, `VectorImpl` | the instructions as the emulator computes them |
| `NativeCpuImpl`, `NativeVectors` | the same instructions as the processor of the host defines them |
| `CheckedCpuImpl`, `CheckedVectors` | machines that execute both and compare |
| `Machine`, `Interpreter` | memory and flags of guest and host; what `Cpu::exec*` do |
| `Ir`, `Compiler`, `GeneralCode`, `VectorCode`, `BlockCode` | intermediate code; the translation of general and of vector instructions, and of a block |
| `Optimizer`, `CodeGenerator` | the passes; the forms there is machine code for |
| `HostCode` | external: what the host does when it executes intermediate code |
| `CompiledBlocks` | composes the last four rows: a block interpreted and compiled side by side |
| `Files` | descriptors, descriptions, files, directory, pipes, epoll, blocked readers |
| `MCScheduler`, `MCProcesses`, `MCAddressSpace`, `MCCodeSegments`, `MCChecked`, `MCBlocks`, `MCFiles` | small instances for TLC |
| `WordsProofs` | lemmas about powers of two, words and their bits |
| `SchedulerProofs`, `ProcessesProofs`, `AddressSpaceProofs`, `CodeSegmentsProofs`, `CheckedCpuProofs`, `CheckedVectorsProofs`, `FilesProofs` | theorems for all constants |

Operators whose name ends in `_Something` and whose comment begins with "Faulty" are
not used by the specifications: each is a plausible bug of the definition it
precedes, and shows that the property named with it in `PROJECT.json` notices.

### Scheduler

One action for each stretch of code between two points where another worker can
interfere. `pc[w]` says where worker `w` is in `runOnWorkerThread`
(scheduler.cpp:53):

| `pc` | Code | Leaves by |
|---|---|---|
| `pick` | before it takes the mutex in `tryPickNext` (277) | `Doze`, or one of the `Pick` actions |
| `doze` | predicate evaluated to false, not waiting yet | `Sleep` |
| `cv` | waiting on `schedulerHasRunnableThread_` | `AfterNotify`, `SpuriousWake` |
| `start` | has a job (`PickRun`), mutex released | `StartUser`, `StartAtomic`, `StartKernel` |
| `user`, `stop`, `fault` | in `vm.execute`, in the scope guard of `runUserspace` | `UserRun`, `UserFault`, `UserStop` |
| `atomic` | in the atomic slice, mutex held | `AtomicRun` |
| `kernel`, `leave` | in the system call, mutex held; its end | `Sys...`, `Terminate`, `KernelDone`, `KernelFault` |
| `notify` | after the mutex, before `notify_all` | `Notify` |
| `alarm`, `panic`, `raise` | the exception handler and `Kernel::panic` | `SetPanicked`, `RaisePanic` |
| `exited` | returned | `Joined`, when all have |

`Pick` is `tryPickNext` under the mutex, one action for each way out of it: abort on
panic, unblock and start over, crash in a pass, deadlock, exit, wait, run. A deque
is a set with the relation "is in front of" (`ahead`, `since`), so that the proofs
need no sequences. `blockers` is the union of the eight lists, each entry with its
kind: `sleep`, `poll` (poll, select and epoll), `read` (which has no deadline),
`futex`, `wait`, `vm`. What `poll` and `read` wait for is outside and may be true or
false whenever it is looked at (`External`).

Kept because they matter: a thread with both requests is run as a system call; an
exception in an atomic slice leaves its request set; a wake tests its count after it
has woken one; a wake on one word also answers waiters on other words whose deadline
has passed; `terminate` erases entries of seven lists out of eight; the job count is
raised without the mutex. Abstracted: the unit of time is the millisecond that
`PickWait` adds and after which a slice is asked to stop; a slice may last longer, as
it is asked only when native code comes back (`UserRun`), and for ever; a deadline is absolute and may be in the
past; the order of the victims of `terminateGroup` is any; a pass that crashes
leaves the vm entries it had already visited; `currentTime_` is read as a whole when
a slice starts (131). Left out: profiling, call stacks, the interrupt signal.

### Processes

A system call is one step, because it runs alone (`Scheduler!RunsAlone`,
`JobsExclude`, proved), and a call starts only when passes over the blockers have
nothing left to unblock: `tryPickNext` returns `AGAIN` after a pass that unblocked a
thread. Each visit of a blocker is a step, `waitBlockers_` before
`vmReleaseBlockers_`.

`Fork` is `clone` without `CLONE_THREAD`, for the three combinations of sharing and
suspension programs use; `CloneRefused` is the child that `Process::clone` has made
before `checkCloneFlagsFork` refuses. `Exec` is `prepareExec` with its last two
lines, which empty the parent's vectors and leave the children their `parent_`.
`Wait4` is `syscalls.cpp:1159-1179` with its options. `NotifyExit`, `Retrieve`,
`Released` are `notifyChildExited`, `tryRetrieveExitedChild` and
`addressSpaceRefCount() == 1`. A process is its pid (the table never removes one); a
thread is its pid, its tid and the number of `execve` calls before it. `spawner` is
a history variable: which thread's `vfork` made the process. An `execve` that finds
no program changes nothing and has no action.

### AddressSpace

The state is one record `mm`, so that the calls are compositions of operators on
spaces as the functions of `Mmu` are: `TakeRegions`, `AddRegion`, `Split`,
`SplitAround`, `Mmap`, `Munmap`, `Mprotect`, `MapFile`, `Brk`, `Clone`. The
callbacks are inside of them, where the code makes them. A verify that fails sets
`failed` to its reason and the rest of the call is of no interest. Memory is counted
in pages; of an address of code the model keeps its page and whether it is the first
byte of it, which is all the comparisons with bounds can tell.

Kept: first fit as the code does it (a gap needs a region above it); the lookup of
the two ends only in `addRegionAndEraseExisting`; lower and upper bounds of
`IntervalVector` (an interval that touches the range is visited, one that starts at
its end is erased); host memory keeps what an unmapped page held until a fresh
mapping clears it; `brk` finds the heap by name; `fork` maps every region writable,
fills it if it can be read and protects it again, which is refused for
write+execute; a file that cannot be read leaves the mapping as `mmap` made it;
every `Mmu` maps the null page first, and where
it was unmapped puts it back without clearing what is there. A region that does not fit
fails one of three verifies, all called "overlap". An interval would be split at the
bounds of a range, but that never happens since intervals are regions (proved). Left
out: the accesses themselves, `mremap`, `mincore`, shared mappings, the disassembly
cache. `SysFork` goes on with the child.

### CodeSegments

`GuestCode` is a program as a control-flow graph: a block is named by its first
address, and the way it ends (`Ends`: jump, conditional jump, call, call and jump
through memory, return, system call, `longjmp`) decides where its thread goes and what
happens to its return addresses. `CodeSegments` adds what the emulator keeps: a
segment is an address and the number of the segments made there before it, so a
pointer to a purged segment can be told from one to its successor, as in the code it
can be told only by a crash.

| Action | Code |
|---|---|
| `Begin`, `End` | a slice of `VM::execute`: `contextSwitch`, `fetchSegment`; native stack taken from and given back to the thread |
| `Interpret` | a block without native code, then `Land`: `findNext`, `addSuccessor`, `onCall`, patches |
| `EnterNative` | `CompilationQueue::process`, `Jit::exec` |
| `RunNative` | a block of native code: to another one by a patched jump, the table of a variable destination or the native return stack, or back to the loop |
| `OtherCall`, `Remap`, `Clone` | system calls; `Remap` purges and maps again the library, as `dlclose` and `dlopen` do |

Kept: `findNext` looks for fixed successors up to the first empty slot; the removal of
a block asks its callers to forget *their* callers; the removal of one variable
destination forgets all; a jump is patched once; a call is patched with its return
before its jump; the native stack is copied by its size. Abstracted: the counts that
decide when a block is compiled (any time), the order of the two slots by their counts
(any), the contents of the native code. A worker runs alone, since `MULTIPROCESSING` is
off by default. Native code is never freed while the process lives: `Jit::blocks_` only
grows.

### The checked processor

`checkedcpuimpl.cpp` runs each instruction twice, portably and in inline assembly, and
asserts that results and flags agree; `cpu.cpp` uses it unless `NDEBUG` is set.
`CheckedCpuImpl` and `CheckedVectors` are that comparison: `CpuImpl` and `VectorImpl`
follow the algorithms of `cpuimpl.cpp` line by line, on words of `Width` bits;
`NativeCpuImpl` and `NativeVectors` state what the processor defines, as arithmetic on
exact integers. Each machine has two registers, executes every instruction on what the
last one left, and compares all instructions with all immediates and counts in every
state, each with the flags its assertion names. A vector register has 4 (XMM) or 2
(MMX) lanes; widening and narrowing read two lanes as a double word. Left out: x87 and
floating point, whose rounding is the host's.

### Translated blocks

A byte has two bits and a word eight bytes, so that every layout, offset, partial write
and sign extension of the code is there and a word is a number below 65536. The
registers of the guest are memory (`NativeArguments`), and interpreter, translation and
host work on one `Machine` memory. Operations whose value does not matter to the
translation (a product, a shuffle) mix their operands: two different operands in
two places give two different results, and that is what the comparison needs.

`Compiler` is the toolbox of `compiler.cpp` (scratch registers, addresses, read and
write of operands), `GeneralCode` and `VectorCode` have one definition for each family
of `tryCompile*` functions, `BlockCode` the entry points, exits, push and pop of return
addresses, the trampoline and the lookup of variable destinations. `Optimizer` names
the positions each pass removes; `CodeGenerator` the forms each case accepts.
`CompiledBlocks` goes through the phases of a block:

| Phase | Action | What has happened |
|---|---|---|
| `body` | `Translate(g)` | `g` was interpreted on `guest` and its translation executed on `native` |
| `optimised` | `OptimiseBody` | the optimised body was executed from `start` |
| `left` | `Leave(last, linked)` | the whole block was called by the trampoline from `called` and left through `last`, with its jumps patched or not |
| `refused` | | the compiler has no code for an instruction: the block stays interpreted |

Known differences are excluded by name, in the properties, with the reason:
`UpperHalfDiffers`, `WrittenTwice`, `FlagsUndefined`, `OverlapsStore`,
`LosesExchange`, `TargetOverwritten`. Left out: the bytes of the assembler, and the
instructions the compiler has no case for.

### Files

`table[p][fd]` is the address of an open file description (`ofds`), whose file is in
`fs.files`; `fs.entries` is the directory, with the files of one name in the order
`tryGetFile` meets them; `fs.orphans` and `fs.pipes` are `orphanFiles_` and `pipes_`.
A description is known by the address `new` gave it, because epoll keeps that address:
`FreeAddresses` are those the allocator may return again, and one that a list still
remembers is among them.

A system call is one step and so is the visit of a blocker, as in `Processes`. `Open`,
`MemfdCreate`, `EpollCreate`, `Pipe2`, `CloseFd`, `Dup`, `Dup2` (`dup3`), `Rename`,
`Unlink`, `SetNonblock` (`fcntl(F_SETFL)`), `Fork` (`Process::clone`), `Exit`
(`closeAll`), `Kill` (the last thread of a process ends without `notifyExit`), `Read`,
`Write`, `EpollCtl`, `Wait` (`poll`, `select`, `epoll_wait`), `TryRead` and `TryWait`
(`tryUnblock`). Kept: `close` unlinks by the *path* of the file; `dup2` closes before
it takes the new reference; a blocked read looks its descriptor up again; a file that
was unlinked while open stays in the directory and can be opened again; `read` of
either end reads the pipe. Two history variables: `crowded` (two files have had one
path) and `stale` (an entry of an interest list outlived what it was added for). Left
out: bytes of files, offsets, locks, symbolic links, directories other than one,
sockets and event counters. Programs are sets of calls with their callers; a run
explores each of six.

## Runs, bounds and fairness

| Run | Instance | Shows |
|---|---|---|
| `scheduler_safety` | 2 workers, 3 threads in 2 processes; sleep, futex, vfork; deadline 1, time up to 2; wakes of 1 and 3. About 177,000 states | one queue and one blocker for each thread, no wake-up is used on a waiter that has timed out, the dead stay dead |
| `scheduler_live` | 2 workers, 2 threads; sleep, poll, futex; wakes of 0 and 1; any job may throw. About 36,000 states | the exception paths keep exclusion (as refinement of `JobExclusion`), count and `inKernel_`; unless a slice is endless, runnable threads run and deadlines fire; the workers return |
| `processes` | 3 ids, 2 `execve` each, all calls and options, refused clones and unsupported pids, fair. About 81,000 states | tids, vfork, no waiter is forgotten, the one that waited longest is answered, refinement of `ChildLife`; passes end |
| `space_memory` | 5 pages, two of them the null page; all calls (an anonymous `mmap` as that of a file that cannot be read), read-write and no access; stores to pages 1 and 4. About 152,000 states | calls change exactly the pages they name; refinement of `PageTable` |
| `space_code` | 5 pages, `mmap`, `munmap`, `mprotect`, fork, read-write, read-execute and write-execute protections; code is entered at the first byte of page 2, where a block may fall to the interval on its left and run into page 3. About 209,000 states | lookup, intervals and index follow the regions |
| `segments_shared` | 2 threads, 5 blocks; the library is called through a pointer and mapped twice. About 1,445,000 states before symmetry | no link dangles, both ends of a link agree, one segment for an address; each thread's native return stack follows its guest stack, `longjmp` and clone included |
| `segments_chained` | 1 thread, 6 blocks; the library is called through a stub. About 259,000 states | what native code is patched with is current, also after a purge; refinement of `GuestCode` |
| `checked_cpu` | words of 4 bits and bytes of 2, all operands and flags; registers of 4 and 2 lanes loaded with patterns of boundary values | portable and native instructions agree |
| `blocks` | 3 entry states; every form of instruction alone, up to 3 out of a pool of 12, every exit, linked or not. About 22,000 states | translation, optimizer, generator, entries and exits are faithful |
| `files` | 2 processes, 3 threads, 3 descriptors each, 3 addresses, 2 nodes, 2 names; 6 programs, fair. About 368,000 states | reference counts and pipe ends are exact, nothing is destroyed in use or kept for good, a reader is given the end of a pipe |
| `space_fixed` | 6 pages | violated: `FixedReplaces` |
| `files_epoll` | as `files`, the program of epoll only | violated: `AddsOnce` |

Four more configurations are kept beside the runs. Each checks one statement of the
repository that the code does not keep, and ends in a counterexample:
`SchedulerPanic.cfg` (`PanicEnds`), `SchedulerVm.cfg` (`VerifyUnblock`),
`ProcessesExec.cfg` (`VerifyChildKnown`), `SegmentsSlots.cfg` (`VerifySlots`). The same
happens when the configuration of a run is given another invariant:
`AddressSpaceCode.cfg` the invariant `VerifyInterval`, `Blocks.cfg` the invariant
`VerifyGenerates`, `CheckedCpu.cfg` two assertions of the checked processor,
`RcrAgrees` and `BlendvAgrees`; when `ProcessesExec.cfg` is given the calls of
vfork and the invariant `SuspendedForAReason`; and when `SchedulerLive.cfg` is given
the property `EveryoneRuns` or `EveryDeadlineFires`. See below.

Why the bounds are enough. Two workers are all that exclusion tells apart (worker 0
and another); the theorems are for any number. Three threads allow a thread that is
running, one that waits and one that ends the other. Time up to 2 has a deadline
ahead, at and behind the clock. Three ids are a parent with two children, a parent,
child and grandchild, or a parent, child and second waiter; two `execve` let the
parent's and the child's overlap. Five pages
hold the null page, code, a heap and two pages that can be mapped between, at, and
next to them, and ranges of two pages cut a region on either side; a fixed mapping
over a region it strictly contains needs ranges of three (`space_fixed`). A null page
of two, as in `space_memory`, can be replaced and put back in part (the code has 16).
Two
segments at an address are one that is purged and the one made in its place; a native
stack of two or three entries holds a `longjmp`ed call above a live one. Words of four
bits have every combination of carry, sign, overflow and parity (of the low byte, here
half a word), counts below, at and
above the width, and small enough a square to be enumerated; the algorithms do not
mention the width otherwise (where they do, it is in the list below). A body of
three is a definition, a use that overlaps and something between them. Three
addresses are both ends of a pipe and something that watches them, or a
description, its duplicate and a new one.

Bounds in guards: `MaxTime`, `MaxId`, `MaxExecs`, `MaxMade`, `MaxNative`, `MaxDepth`,
`MaxFd`, `Addresses`, `Nodes`, `MaxBytes`, `MaxEpolls`, `MaxSteps`, `MaxLength`,
`MaxLeft`. Everything else is bounded by the constants. `MaxNative` hides that native
code pushes without comparing with the 4096 entries of `callstack_`. Symmetry of
threads is used in `segments_shared` only, which checks invariants. Deadlock is
checked in the runs of the scheduler, the processes and the spaces, where the states
in which the system really stops have their own actions (`Joined`, `Ended`,
`Panicked`); in the others a program may simply be done, or at a bound.

Fairness. `Scheduler!FairSpec`: a step that takes the mutex is strongly fair (a host
mutex that is released again and again is obtained sooner or later), every other
step of a worker but the end of a user slice is weakly fair (the host runs its
threads; `Scheduled`), and when slices end again and again time passes every bound
(`TimePasses`: every instruction counts for a nanosecond). Nothing makes a slice end:
`VM::execute` tests `isStopAsked` when native code comes back (vm.cpp:130), and chained
blocks add ticks (compiler.cpp:5812) and jump on (5863) without a test. A behaviour in
which a worker stays in a slice for ever is `Endless`. `RunnableRuns`, `DeadlinesFire`
and `PanicEnds` except these behaviours by name and say nothing about them: while a
thread spins in patched jumps no system call starts, so what others wait for need not
come. Without the exception they are `EveryoneRuns` and `EveryDeadlineFires`, which TLC refutes.
`AllDeadEnds` needs none, since no slice runs when all threads are dead. Nothing is
assumed about what is external, nor about which system calls programs make.
`Processes!FairSpec`: visits are weakly fair, since `tryPickNext` loops until a pass
unblocks nothing; programs owe nothing. `Files!FairSpec`: the visit of a blocked
reader is weakly fair, for the same reason (`AllDeadEnds` and `PassesEnd` say that the
passes do not stop by themselves). Both models are of the time in which worker 0
passes over the blockers again and again, that is, in which no slice is endless:
`ReadersSeeTheEnd` and `PassesEnd` are qualified by it. The other runs check safety only.

## What the violation runs show

Each run checks one statement of the repository and TLC finds a behaviour of the
code against it.

1. `space_fixed`: a `MAP_FIXED` mapping over a region that lies strictly inside of
   it does not remove it: only the regions at its first and last byte are looked
   for, and a verify fails.
2. `files_epoll`: an epoll instance keeps the address of a description that has been
   closed. A new description at the same address is taken for it, and
   `verify(!found, "Epoll::addEntry: ofd already exists in interest list")` fails
   although the program has added the descriptor once.

## What the models show beyond the runs

These follow from the same models. TLC prints a counterexample for each of the first
eight, with the configuration that is named.

- `SchedulerPanic.cfg`: `Kernel::panic` sets `hasPanicked_` and notifies without
  `schedulerMutex_`. A worker that has evaluated its predicate and is not waiting
  yet misses both, and `run` never joins it.
- `SchedulerVm.cfg`: `terminate` does not erase `vmReleaseBlockers_`. vfork, a kill of
  the suspended parent, then the child's execve, and `verify(it !=
  blockedThreads_.end())` fails.
- `ProcessesExec.cfg`: fork, execve of the parent, exit of the child: the parent has
  forgotten its children but they have not forgotten it, and `notifyChildExited`
  cannot find the child.
- `ProcessesExec.cfg` with `Calls = {"vfork", "exec", "exit_group", "wait4"}` and
  `INVARIANTS SuspendedForAReason` in place of its property: a child of vfork
  that exits without execve keeps its share of the address space, since no process
  leaves the table, and the parent waits for ever: the case of a `posix_spawn` whose
  program is not found.
- `AddressSpaceCode.cfg` with `VerifyInterval`: `IntervalVector::remove` takes an upper
  bound on the starts and erases the interval of the next region too. Two executable
  regions side by side, munmap of the first, and a block fetched in the second finds no
  interval.
- `SegmentsSlots.cfg`: `findNext` (codesegment.cpp:41) stops at the first empty slot.
  When the first of two successors is purged, the second is no longer found, is added
  again, and once the first comes back there is no slot: `verify(foundSlot)` fails.
- `CheckedCpu.cfg` with `RcrAgrees` and `BlendvAgrees`: `rcr` sets overflow otherwise than the processor
  (cpuimpl.cpp:464, asserted at checkedcpuimpl.cpp:437); `blendvps` and `blendvpd`
  test bits 27 and 59 in place of the sign.
- `Blocks.cfg` with `VerifyGenerates`: the compiler emits `psllw`, `psrlw`, `psrlq` of
  XMM by XMM and `psrad` of MMX by MMX, which the generator has no case for; its verify
  (codegenerator.cpp:56) is outside of the `try` of `tryCompileIR`.

The others were met while the properties were written: TLC or the definitions show
them, and properties that hold name them as exceptions where they have to.

Kernel:

- `wait4` checks that there are children but not that the pid is one of them
  (syscalls.cpp:1159-1179): waiting for another pid, or for one that a second waiter
  has just been given, fails the verify of `tryRetrieveExitedChild` in the scheduler
  (`VisitFails`) instead of `ECHILD`.
- Only `exit_group` reports a child. One whose threads end by a signal or by `exit`
  never becomes an exited child (`Exit`, `Tgkill`), so its parent waits for ever,
  while the tests of `posix_spawn` are written for `WIFSIGNALED`.
- The purge of code visits intervals, but a block belongs to the interval of its
  first byte, or, if that is the first byte of a region, to the interval that ends
  there (`NotBefore`). A block that runs into the next region survives the unmapping
  of that region.
- `mprotect` notices a hole between two regions of its range, not one at either end
  (`Contiguous`).
- `ensureNullPage` (mmu.cpp) adds the null page without the flag that clears host
  memory: pages a program has mapped there, written and unmapped come back with what
  it wrote, which `mprotect` makes readable (`PageTable!Guard`). Met when the refinement
  was proved for null pages of more than one page; the smaller instance had hidden it.
- `wait4` with `WNOHANG` blocks when another child than the one asked for has
  exited; with `WUNTRACED` it takes the first one whatever the pid.
- A `FUTEX_WAKE` of 0 wakes one waiter (`WokenBy`).

Code segments:

- `removeFromCaches` (codesegment.cpp:151) calls `removeCallPredecessor` in the wrong
  direction: a caller keeps its pointer to the purged block it returned to (`Remove`),
  and `verify(!ret || ret == other)` (107) can fail. Patched fixed jumps and native
  code of purged blocks are neither unpatched nor freed.
- A jitted `ret` jumps to the entry it pops without comparing it with RIP; `mov rsp,
  mem` is not noticed (cpu.cpp:2662), and the compiler refuses only `mov rsp, reg`
  (compiler.cpp:1044).
- Chained native code does not look at `isStopAsked` (vm.cpp:130): a slice that stays
  in patched jumps does not end. System calls wait for its job, so a thread that
  spins on a flag keeps the one that would set it, after a system call, from ever
  running again, and on worker 0 no deadline fires: `SchedulerLive.cfg` with `EveryoneRuns` or
  `EveryDeadlineFires` is the counterexample.
- A process cloned with `CLONE_VM` copies segments that point into its parent's graph
  (process.cpp:85-97); `Jit::clone` (jit.cpp:28) forgets `jitCallChainingEnabled_`.

Processor and translation:

- `shld` and `shrd` compute another carry than the processor (cpuimpl.cpp:379, 398;
  their check is commented out); rotations by multiples of the width, shifts of 8 and
  16 bits by more than the width, `pslldq` and `psrldq` by 0, packed shifts by the
  width of a lane and more, and `pshufb` of 64 bits with indices above 7 are undefined
  behaviour of C++; `xadd r, r` loses the sum (cpu.cpp:2553).
- The optimizer loses the second result of an `xchg` whose first is dead, and a store
  that another one overlaps without covering it; partial writes reset the liveness of
  the whole register.
- `cmpxchg rax, r` is written twice; the native `cmpxchg`, `cmov` and `bsf` of 32 bits
  treat the upper half otherwise than the interpreter; `call [mem]` pushes before it
  reads its target; the direction flag is dropped by `toRflags`; repeated string
  instructions end by 64 bits natively and by 32 interpreted.

Files:

- `FS::read` and `pread` lack a `return` when the file is not readable: reading the
  write end of a pipe reads the pipe (`ReadOutcome`).
- `close` unlinks by path: closing a memfd named "x" removes `/x`, and a doomed file
  that was renamed removes another entry. `rename` onto a name in use leaves two
  entries, the old one first. `ClosesItsOwn` and `UnlinkedFilesGo` hold until two files
  have had one path (`crowded`).
- `poll` of a closed descriptor with a timeout fails a verify (fs.cpp:1161) where
  `select` answers `EBADF`; `epoll_ctl` accepts one and keeps a null entry; an event
  counter says it is an epoll instance. Neither `poll` nor epoll reports a pipe
  without writers (pipe.cpp:47).
- A blocked read looks its descriptor up again (threadblocker.cpp:325): a `dup2` by
  another thread redirects it.
- A killed process keeps its descriptors, so that readers of its pipes never see the
  end; descriptors with close-on-exec stay open across `execve`. `F_SETFL` on a shadow
  file or an epoll instance panics. `flock` with `LOCK_SH` takes the exclusive lock.

## Proofs

`tlapm` checks every leaf of the eight proof modules. The theorems hold for all
values of the constants that satisfy the assumptions named in the modules, which
only say that the constants have the shape the code gives them (finite sets of
workers and of processes, a time bound above the deadlines, a loaded image without
overlaps, addresses and nodes that are different numbers, words of an even number of
bits that are whole bytes, shift counts taken modulo more than 1). Those of
`CodeSegments` and of `CheckedVectors` have one hypothesis more, about the program that
runs and about the registers, given below. What bounds a counter in a guard is a constant like the others, so the
theorems do not depend on its value.

**Scheduler** (`SchedulerProofs`): `TypeCorrect`, `JobsRunAlone`,
`RunAloneVerified`, `CountIsExact`, `KernelHoldsMutex`, `OneBlocker`,
`UnblockErases`, `TimeMonotone`, `DeathIsFinal`, and `ImplementsExclusion`, the
refinement of `JobExclusion`. `RunsAlone` is not inductive: it has to be known that
the jobs of the workers are those of `runningJobs_`, except for the thread of a
system call that has ended itself (`JobsInv`), who holds the mutex at each place
(`WorkersInv`), and that a thread that is picked runs nowhere else (`QueuesInv`,
with the threads a system call in progress adds and terminates). `BlockersInv` says
which entries may outlive their thread: those of `vmReleaseBlockers_`. The count is
a second invariant on top of it, by cardinalities. `InOneQueueOnce` and
`NoWakeIsWasted` are proved on top of both. For a wake it has to be known that the run
queue and the blocker lists are totally ordered and that a call has made at most one
thread (`OrderInv`), and that between the choice of a system call and the call itself
nobody moves the clock or becomes a waiter (`CallWaits`, `CallBegins`): the pass that
preceded the choice has then taken away every waiter whose deadline has passed.

**Processes** (`ProcessesProofs`): `TypeCorrect`, `ExitsKeepChildren`, `TidsUnique`,
`VforkSuspends`, `NobodyForgotten`, and `ImplementsChildLife`. Tids are unique
because the ids handed out are above all that are in use (`IdsAreFresh`), with the
exception that `execve` makes a main thread with the pid, whose tid must then belong
to no other process (`TidsAreUnique` with its strengthening). A suspended parent is
not released early because sharing is an equivalence (`SpacesPartition`) and the
spawner is remembered exactly as long as it exists (`SpawnersKnown`, `ImagesKnown`).
`NobodyForgotten` rests on `VisitedAreQuiet`: while a pass has unblocked nothing,
what it has visited has nothing to wait for; once it has, the pass is repeated.
`OldestFirst` needs more, since a pass may have unblocked others before (`ServedInv`):
the entries are ordered (`EntryOrder`); every set of exits has a first one, because the
order in which they were recorded is well-founded (`ExitOrder`); and, nobody exiting
during a pass, a waiter for any child that it has left behind belongs to a process
without exits (`PassedOver`).

**AddressSpace** (`AddressSpaceProofs`): `TypeCorrect`, `LookupExact`,
`IntervalsMatch`, `IndexSound`, `InsertVerified`. `Good(s)` is a predicate of any
space, also of those in the middle of a call: typed, with an exact lookup, intervals
that are regions, an index without dangling entries, and no failed `insert`. There
is one lemma for each operator (taking, adding, splitting, mapping, protecting,
filling, growing and shrinking the heap, cloning, loading, adding a block, storing)
that it maps good spaces to good spaces, and `NextGood` puts them together.

`ImplementsTheTable` is the refinement of `PageTable`, and `CallsChangeTheirPages` the
action property, about the pages alone. For them each operator has a second lemma, that
gives the entry of every page after it (`MunmapTable`, `MprotectTable`, `MmapTable`,
`MapFileTable`, `GrowTable`, `CloneTable` and others). Splitting keeps the table, and
afterwards no region crosses an end of the range (`Parts`, `Cut`), so that taking the
regions inside of it takes exactly its pages. `MappedNotDenied` says that the
`mprotect`s inside of `MapFile` find all of their pages mapped. A call is then matched
with a step of `PageTable` by the pages it affects (`AffectedInRange`, `UnmapSteps`,
`ProtectSteps`, `MapSteps`, `GuardSteps`). The assumption is that the mark for no page,
`Unmapped`, is not an entry.

**CodeSegments** (`CodeSegmentsProofs`): `GraphStaysExact`, `ReturnsStayTrue`,
`CodeStaysCurrent`, and `ImplementsTheProgram`, the refinement of `GuestCode`, whose
mapping is the identity. `Good(S)` says of a graph, also of one in the middle of a
purge: the newest segment of an address is the live one (`Newest`); the links of both
ends agree (`LinksExact`); the two slots of a fixed jump are filled in order with what
it names (`SlotsExact`); returns are known at both ends (`ReturnsExact`); native code is
that of live segments (`NativeLives`), patched with live native code of the right
address only (`PatchesExact`). There is a lemma for each operation of the graph.
On top of it each thread that runs is at its block (`AtItsBlock`), and its native stack
follows its frames (`OnCourse`, `Tracks`).

The theorems have the hypothesis `LinkedAtRunTime`: a jump or call of a fixed
destination has one, and stays inside of the library or outside of it, as code linked
at run time does, whose calls into a library go through memory. It is needed:
`SegmentsSlots.cfg` is a program without it, whose slots have a hole after a purge, and
a return pointer of `removeFromCaches` dangles in another. TLC evaluates it on the
programs of the two runs (`MCLinked`).

**Checked processor** (`CheckedCpuProofs`): `Types` and `Integers`, the invariant
`IntegersAgree` for words of every even width, so for those of 8 to 64 bits the code
has, every polynomial, and counts taken modulo any number above 1. `Types` is the
inductive part: no result has a bit past the width. The rest follows from it by parts,
each about any operands and flags: `SumsAlwaysAgree`, `ProductsAlwaysAgree`,
`ShiftsAlwaysAgree`, `RotationsAlwaysAgree`, `LogicAlwaysAgrees`, `ScansAlwaysAgree`,
`PlacesAlwaysAgree`, `BytesAlwaysAgree` and `ChecksumsAlwaysAgree`. As in the run, the
overflow of `rcr` is left out, and shifts, `rol` and `ror` are compared when the masked
count is below the width.

- Sums and products. The carry of a sum is a comparison of an operand with what is left
  above the other (`AddAgrees`, `AdcAgrees`), its overflow one of three signs
  (`SumOverflows`). A number that is put together from two parts is told from them
  (`Parts`), which gives the words of a product, also when it is the sum of four
  products of halves with their two carries (`HalvesMultiply`), its opposite
  (`Opposite`), when one word would do (`OneWordDoes`) and a quotient.
- Powers. That a width can be halved, and is the product of its halves (`TwoPower`,
  `PowersMultiply`), comes from the number of the subsets of a set and from a least
  counterexample (`Least`), since the provers know no powers and cannot use a theorem
  of induction.
- Bits. A word joined from two parts has the bits of either (`LowBit`, `HighBit`); a sum
  of weights has the bits that were summed (`WordOfBits`), and words of the same bits
  are the same (`SameBits`). On these rest logic, the changes of one bit (`PlaceFacts`),
  the scans (`TrailingIsLowest`, `BsrIsHighest`) and the order of bytes (`BswapAgrees`).
- Rotations. A turn is two parts that change places (`TurnedParts`); for `rcl` and `rcr`
  one step of the loop turns the ring of the word and the carry by one (`TurnedStep`,
  `RingSteps`), so its steps compose (`ThroughRings`).
- `crc32`. The processor divides a polynomial by taking its top term away until the
  degree is small. `Dividend(N, k, c, y)` is what the first `k` steps of the loop leave
  of the message; each step keeps its remainder (`DividendStep`), at first it is the
  message and at last the checksum (`DividendEnds`).

Recursive functions are in reach where their values are known to exist: a set of the
steps for which they do, closed under the next step, has all of them (`UpTo`,
`Recursion`).

**Checked vectors** (`CheckedVectorsProofs`): `VectorTypes` and `Vectors`, the invariant
`VectorsAgree` for lanes of every even width and registers of any number of lanes that
can be halved twice, whatever is loaded into them and however many instructions follow.
The hypothesis `ConstantsFit` says that much of the constants, that what is loaded are
words, and that the immediates of shuffles name lanes; TLC evaluates it on the constants
of the run (`MCFit`). `VectorTypes` is the inductive part: every result is a register of
the unit it came from. The rest follows from it by parts, each about any two registers:
`PackedSumsAlwaysAgree`, `PackedProductsAlwaysAgree`, `PackedSignsAlwaysAgree`,
`WindowsAlwaysAgree`, `ShufflesAlwaysAgree` and `StringsAlwaysAgree`. As in the run,
shifts of lanes are by less than their width, `pslldq` and `psrldq` by at least 1,
`pshufb` is compared where its indices are inside of the register (`Selects`), and
`blendvps` is left out.

- One lane. A remainder is the one number of its range that is congruent
  (`CongruentFacts`), the nearest number of a range is the number or an end of it
  (`NearestFacts`): wrapping and saturation. The halves of a product are those of the
  exact product, also of a signed one (`UpperIs`, `SignedProduct`), and the two
  roundings of `pmulhrsw` are one (`Rounded`). A double word is told from its two words
  (`DoubleFacts`, `SplitIsSingles`, `EveryDouble`).
- Sums over lanes. `psadbw`, once for each group of lanes, and `movmskps` add in the
  order of the lanes, the processor in any order; a sum does not depend on the order
  (`AddsOnce`, `FoldIsTotal`, `GroupDistance`).
- Shifts of registers. The code shifts two halves and puts them together. `Shows(a, h,
  V, m, p)` says that `a` shows the `h` lanes of `V` from lane `p` on; a half that is put
  together from the end of one half and the beginning of its neighbour shows the lanes in
  between (`Straddling`), and what shows the same lanes is the same (`ShownOnce`). So
  each of the eight cases of `palignr` is a window.
- Bits. The bits of a shifted lane are its bits in other places, of an arithmetic shift
  with the sign repeated (`RightBits`, `LeftBits`, `SignedRightBits`).
- Strings. The lanes before the first zero, and as many as a length says, are the first
  of their register (`Terminates`, `Gives`); the four operations find the same lanes
  (`HitsAgree`), and the polarity is a symmetric difference (`Answers`).

The lemmas about powers, bits and words that both processors need are in `WordsProofs`.

**Files** (`FilesProofs`): `TypeCorrect`, `RefCountsExact`, `NothingDestroyedInUse`,
`PipesKnow`, `EndFinal` and `NothingLeaked`. Counts alone are not inductive: `close`
destroys a file by its count, and the file stays reachable by its path, by its address
in the orphans and from its pipe, so each of these has to agree with the others.
`Good(s, tab, o, X)` says so of any file system, tables and descriptions: what a table
refers to is described and counted (`Tables`, `Counted`); a file is an orphan that is
referred to or has exactly one entry, of its name (`Orphaned`, `Directory`); endpoints
and pipes know each other (`Connected`). `X` are the files a call is in the middle of
making or closing, which are excused. There is a lemma for each operator, among them
`ClosedGood` for `FS::close` and `SlotClosed`, `ClosedBeforeSteps` for the slots
`closeAll` has closed so far, where the tables still have what the files no longer
count. `EndFinal` needs a second fact of each step, `BytesStep`: only `write` adds
bytes, and it does so through a descriptor of a writer.

`StaysTidy`, `NothingStaysForGood` and `ClosesOnlyItsOwn` are about paths. `Tidy` says
that until two files have had one path (`crowded`) a path stands for one file, and what
is to go once it is closed is still open. A `close` keeps it by `ClosedGoes`; a
`closeAll` slot by slot, by `GoesUpTo`, which says what the slots closed so far have
left to the others; the calls that remove nothing by `AddedTo`, `Grown` and `Lasting`;
`unlink` by a lemma of its own.

## What is only model-checked

- Liveness is out of the prover's reach: `RunnableRuns`, `DeadlinesFire`,
  `AllDeadEnds`, `PassesEnd`, `ReadersSeeTheEnd`.
- Translated blocks: statements about every body of a few instructions
  (`BodyIsFaithful`, `OptimisedAgrees`, `OnlyShiftsAreMissing`, `ExitIsFaithful`). Their
  operators recurse on the instructions of a block, so what they compute for every block
  is induction over data, and they are kept out of the modules with theorems.

Every other property of a passing run is a theorem. The type invariants of `Processes`
and `AddressSpace` are proved and not checked again by a run.

## What is not modelled

- Floating point and x87: the results are those of the host's own arithmetic.
  Instructions of `cpu.cpp` that no block is compiled with, other than those of the
  checked processor.
- The bytes of machine code (`assembler.cpp`), the disassembler wrapper, the ELF reader
  and the symbols: encodings and parsing of immutable data, without a state of their
  own.
- The executable memory allocator: nothing is given back while a process lives, so its
  free list is never used.
- The counts that decide when a block is compiled: any time is allowed.
- Host files, devices, procfs, sockets, event counters and the host wrappers: each
  operation is one call of the host. Bytes and offsets of files, `flock`, symbolic
  links, directories inside of directories.
- `mremap`, `mincore`, shared mappings, shared memory (`shm/`), and the cache of
  disassembled sections.
- Timers as such: the two words of a `PreciseTime`, `setSlice`, and the timers that are
  made by the first use. The scheduler model has one clock that is read as a whole.
- Signal handlers and masks, clocks, limits and identity: system calls that keep no
  state of their own or forward to the host.
- Profiling, the profile viewer, the front end: nothing the emulated program can
  see.

## Plan

1. Done: `Scheduler`, `JobExclusion`, with proofs.
2. Done: `Processes`, `ChildLife`, with proofs.
3. Done: `AddressSpace`, `PageTable`, with proofs.
4. Done: `GuestCode`, `CodeSegments`, with proofs.
5. Done: the checked processor (`CpuImpl`, `VectorImpl` and what they are compared with),
   with proofs.
6. Done: translated blocks (`Interpreter`, `Compiler`, `Optimizer`, `CodeGenerator`,
   composed in `CompiledBlocks`).
7. Done: `Files`, with proofs of its safety properties.
8. Left: `SharedMemory` (segments, attach and detach, with the regions they leave),
   `TimeSlice` (`PreciseTime` with its carry, the clock read without the mutex, timers
   that exist before they are updated), `DisassemblyCache` (sections by begin and end,
   and their purge).
9. Left: event counters and `flock` in `Files`; the intervals of `AddressSpace` composed
   with the graph of `CodeSegments`, in two processes that share a space.
10. Left, proofs: what items 8 and 9 add; that the hypothesis of the theorems about
    `CodeSegments` is also necessary for each of them.
