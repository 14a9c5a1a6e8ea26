---------------------------- MODULE CodeSegments ----------------------------
(***************************************************************************)
(* How the code of one process is run: the graph of translated blocks      *)
(* (x64/codesegment.cpp), the loop that walks it (emulator/vm.cpp), the    *)
(* native code made for blocks that run often, whose jumps are patched to  *)
(* go from block to block without coming back to the loop, and the stack   *)
(* of native return addresses (x64/compiler/jit.cpp, compiler.cpp).        *)
(*                                                                         *)
(* A segment is a block that has been translated.  It is named by its      *)
(* first address and by how many have been made there before: the pointer  *)
(* of the code, which stays the name of its native code, never freed.  One *)
(* worker runs the threads, slice by slice (MULTIPROCESSING is off by      *)
(* default), and system calls run between slices.                          *)
(***************************************************************************)
EXTENDS GuestCode

CONSTANTS
  MaxMade,       \* bounds the segments that are made at an address
  Null,          \* the null pointer
  MaxNative,     \* bounds callstack_ (0x1000 entries)
  Compilable,    \* the blocks the compiler accepts
  Library,       \* the blocks of a mapping that is removed and mapped again
  Chaining,      \* jitChainingEnabled_
  CallChaining   \* jitCallChainingEnabled_

Ids == Addrs \X (1..MaxMade)
Pointers == Ids \cup {Null}

ASSUME SegmentsAssumption ==
  /\ MaxMade \in Nat /\ Null \notin Ids /\ MaxNative \in Nat
  /\ Compilable \subseteq {a \in Addrs : Ends[a] \notin {"syscall", "longjmp"}}
  /\ Library \subseteq Addrs /\ Chaining \in BOOLEAN /\ CallChaining \in BOOLEAN

VARIABLES
  seg,     \* seg.made   how many have been made at each address
           \* seg.alive  those codeSegments_ owns
           \* seg.slots  fixedDestinationInfo_.next
           \* seg.chain  variableDestinationInfo_.next, pairs <<from, to>>
           \* seg.succ   successors_, seg.pred predecessors_,
           \* seg.callers callPredecessors_, pairs <<owner, other>>
           \* seg.ret    returnDestinationInfo_.ret
           \* seg.native those with a jitBasicBlock_
           \* seg.tried  compilationAttempted_
           \* seg.jump, seg.cont, seg.push  what the native code has been
           \*            patched with: the jump to another block, the jump
           \*            to the block that follows, the push of a return
           \* seg.table  variableDestinationTable_, pairs <<block, block>>
  vm,      \* vm.mode   where VM::execute is
           \* vm.thread currentThread_
           \* vm.cur    currentSegment, or the segment whose code runs
           \* vm.jit    callstack_, up to callstackSize_
  saved,   \* savedJitState_ of each thread
  asks,    \* requestsSyscall_ of each thread
  failed   \* the verify that has failed, "no" if none has

svars == <<rip, frames, seg, vm, saved, asks, failed>>

-----------------------------------------------------------------------------
(* CodeSegment: the links between the blocks.                              *)

Start(i) == i[1]

(* endsWithFixedDestinationJump_ of a segment, and of a block *)
FixedDestination(i) == Ends[Start(i)] \in {"jmp", "jcc", "call"}
FixedJump(i) == Ends[Start(i)] \in {"jmp", "jcc"}
IsCall(i) == Ends[Start(i)] \in {"call", "icall"}

Known(S, a) == {i \in S.alive : Start(i) = a}

(* FixedDestinationInfo::findNext stops at the first empty slot *)
FindFixed(S, i, a) == {S.slots[i][k] : k \in {j \in 1..2 :
  /\ \A l \in 1..j : S.slots[i][l] # Null
  /\ Start(S.slots[i][j]) = a
  /\ \A l \in 1..j - 1 : Start(S.slots[i][l]) # a}}

FindNext(S, i, a) ==
  IF FixedDestination(i) THEN FindFixed(S, i, a)
  ELSE {j \in Ids : <<i, j>> \in S.succ /\ Start(j) = a}

(* what findNext may leave in the slots: the second overtakes the first    *)
(* once it has been found more often (nextCount is left out)               *)
Reordered(S, i, a) ==
  {S} \cup IF FixedDestination(i) /\ S.slots[i][2] \in FindFixed(S, i, a)
           THEN {[S EXCEPT !.slots[i] = <<@[2], @[1]>>]} ELSE {}

(* syncBlockLookupTable of the segments I: the lookup of the native code   *)
(* stops at an entry without native code, as at a missing one              *)
SyncTables(S, I) ==
  [S EXCEPT !.table = {p \in @ : p[1] \notin I \cap S.native}
     \cup {p \in S.chain : p[1] \in I \cap S.native /\ p[2] \in S.native}]

Inserted(S, links, i, j) ==
  IF \E p \in links : p[1] = i /\ Start(p[2]) = Start(j) THEN links
  ELSE links \cup {<<i, j>>}

SlotLeft(S, i) == \E k \in 1..2 : S.slots[i][k] = Null

(* Faulty: the successor does not learn of its predecessor. *)
AddSuccessor_OneWay(S, i, j) ==
  LET linked == [S EXCEPT !.succ = Inserted(S, @, i, j)]
  IN  IF FixedDestination(i)
      THEN [linked EXCEPT !.slots[i] =
              IF @[1] = Null THEN <<j, @[2]>> ELSE <<@[1], j>>]
      ELSE IF linked.succ = S.succ THEN linked
      ELSE SyncTables([linked EXCEPT !.chain = @ \cup {<<i, j>>}], {i})

AddSuccessor(S, i, j) ==
  LET linked == [S EXCEPT !.succ = Inserted(S, @, i, j),
                          !.pred = Inserted(S, @, j, i)]
  IN  IF FixedDestination(i)
      THEN [linked EXCEPT !.slots[i] =
              IF @[1] = Null THEN <<j, @[2]>> ELSE <<@[1], j>>]
      ELSE IF linked.succ = S.succ THEN linked
      ELSE SyncTables([linked EXCEPT !.chain = @ \cup {<<i, j>>}], {i})

(* addReturn of the caller i, for the block j that follows it *)
AddReturn(S, i, j) ==
  [S EXCEPT !.ret[i] = j, !.callers = Inserted(S, @, j, i)]

(* the links of which no segment of D is the other end, found in back *)
Without(links, S, D, back) == {p \in links : ~\E d \in D :
  <<d, p[1]>> \in back /\ Start(d) = Start(p[2])}

(* Faulty: the tables are not cleared with the vectors they copy. *)
ClearedTable_Kept(S, D) == S.table

(* VariableDestinationInfo::removeSuccessor forgets every destination *)
ClearedTable(S, D) == {p \in S.table :
  p[1] \in S.native => ~\E d \in D : <<d, p[1]>> \in S.pred}

(* removeFromCaches of the segments D, which are then destroyed.  The      *)
(* callers of a block that goes are asked to forget a caller of theirs:    *)
(* their pointer to the block they return to stays.                        *)
Remove(S, D) ==
  LET Gone(i) == {d \in D : <<d, i>> \in S.pred}   \* removeSuccessor of each
      Kept(links, back) == {p \in Without(links, S, D, back) : p[1] \notin D}
  IN  [S EXCEPT
        !.alive = @ \ D, !.native = @ \ D,
        !.slots = [i \in Ids |-> [k \in 1..2 |->
          IF i \in D \/ @[i][k] \in Gone(i) THEN Null ELSE @[i][k]]],
        !.ret = [i \in Ids |-> IF i \in D THEN Null ELSE @[i]],
        !.chain = {p \in @ : p[1] \notin D /\ Gone(p[1]) = {}},
        !.table = ClearedTable(S, D),
        !.succ = Kept(@, S.pred), !.pred = Kept(@, S.succ),
        !.callers = Kept(@, S.callers)]

-----------------------------------------------------------------------------
(* Native code: its patches and when it is made.                           *)

(* what the push of a return address has been patched with after tryPatch  *)
PatchedPush(S, i) ==
  IF IsCall(i) /\ S.push[i] = Null /\ S.ret[i] \in S.native THEN S.ret[i]
  ELSE S.push[i]

(* a call is patched with its return before its jump is *)
JumpsMayBePatched(S, i) ==
  FixedDestination(i) /\ (IsCall(i) => PatchedPush(S, i) # Null)

(* Faulty: which of its two jumps leads to a block is not looked at. *)
Targets_Any(S, i, follows) ==
  {S.slots[i][k] : k \in {j \in 1..2 : S.slots[i][j] \in S.native}}

(* the jump that a block follows is its fall through, the other is taken *)
Targets(S, i, follows) ==
  {S.slots[i][k] : k \in {j \in 1..2 :
     /\ S.slots[i][j] \in S.native
     /\ (Start(S.slots[i][j]) = After[Start(i)]) = follows}}

PatchedWith(old, targets) ==
  IF old = Null /\ targets # {} THEN CHOOSE j \in targets : TRUE ELSE old

(* tryPatch of each segment of I, none of which depends on the others *)
TryPatch(S, I) ==
  LET J == I \cap S.native
      jumps == {i \in J : JumpsMayBePatched(S, i)}
  IN  SyncTables([S EXCEPT
        !.push = [i \in Ids |-> IF i \in J THEN PatchedPush(S, i) ELSE @[i]],
        !.jump = [i \in Ids |-> IF i \in jumps
                    THEN PatchedWith(@[i], Targets(S, i, FALSE)) ELSE @[i]],
        !.cont = [i \in Ids |-> IF i \in jumps /\ Ends[Start(i)] = "jcc"
                    THEN PatchedWith(@[i], Targets(S, i, TRUE)) ELSE @[i]]], J)

(* what a block that is compiled pushes on the compilation queue *)
Queued(S, i) ==
  ({S.slots[i][1], S.slots[i][2], S.ret[i]} \ {Null})
    \cup {p[2] : p \in {q \in S.chain : q[1] = i}}

(* what CompilationQueue::process compiles from i: nothing, or i and       *)
(* blocks reached through those it compiles, each if its threshold has     *)
(* come down to its calls (both counts are left out)                       *)
Batches(S, i) ==
  {{}} \cup {C \in SUBSET (S.alive \ S.tried) : i \in C /\ \A D \in SUBSET C :
     (i \in D /\ \A k \in D : Queued(S, k) \cap C \subseteq D) => D = C}

Compile(S, C) ==
  LET made == {i \in C : Start(i) \in Compilable}
      compiled == [S EXCEPT !.tried = @ \cup C, !.native = @ \cup made]
  IN  IF Chaining
      THEN TryPatch(compiled, made \cup
             {p[2] : p \in {q \in S.pred \cup S.callers : q[1] \in made}})
      ELSE compiled

-----------------------------------------------------------------------------
(* VM::execute.                                                            *)

NoSegment == [made |-> [a \in Addrs |-> 0], alive |-> {},
  slots |-> [i \in Ids |-> <<Null, Null>>], chain |-> {}, succ |-> {}, pred |-> {},
  callers |-> {}, ret |-> [i \in Ids |-> Null], native |-> {}, tried |-> {},
  jump |-> [i \in Ids |-> Null], cont |-> [i \in Ids |-> Null],
  push |-> [i \in Ids |-> Null], table |-> {}]

Idle == [mode |-> "idle", thread |-> Absent, cur |-> Null, jit |-> <<>>]

Init ==
  /\ GuestInit /\ \E t \in Threads : rip[t] # Absent
  /\ \A t, u \in Threads : rip[t] # Absent /\ rip[u] # Absent => t = u
  /\ seg = NoSegment /\ vm = Idle
  /\ saved = [t \in Threads |-> <<>>]
  /\ asks = [t \in Threads |-> FALSE]
  /\ failed = "no"

(* fetchSegment: the segment at a, made if codeSegmentsByAddress_ has none *)
Fetched(S, a) ==
  IF Known(S, a) # {} THEN S
  ELSE [S EXCEPT !.made[a] = @ + 1, !.alive = @ \cup {<<a, S.made[a] + 1>>}]
CanFetch(S, A) == \A a \in A : Known(S, a) = {} => S.made[a] < MaxMade
At(S, a) == <<a, S.made[a]>>

(* Faulty: a slice starts with the native stack the last one has left. *)
Begin_KeepStack(t) ==
  /\ failed = "no" /\ vm.mode = "idle" /\ rip[t] # Absent /\ ~asks[t]
  /\ CanFetch(seg, {rip[t]})
  /\ seg' = Fetched(seg, rip[t])
  /\ vm' = [vm EXCEPT !.mode = "loop", !.thread = t, !.cur = At(seg', rip[t])]
  /\ UNCHANGED <<rip, frames, saved, asks, failed>>

(* contextSwitch to the thread of the slice, and its first segment *)
Begin(t) ==
  /\ failed = "no" /\ vm.mode = "idle" /\ rip[t] # Absent /\ ~asks[t]
  /\ CanFetch(seg, {rip[t]})
  /\ seg' = Fetched(seg, rip[t])
  /\ vm' = [mode |-> "loop", thread |-> t, cur |-> At(seg', rip[t]),
            jit |-> saved[t]]
  /\ UNCHANGED <<rip, frames, saved, asks, failed>>

(* the time of the slice is over, or the thread has asked for a syscall *)
End(t) ==
  /\ failed = "no" /\ vm.mode = "loop" /\ vm.thread = t
  /\ saved' = [saved EXCEPT ![t] = vm.jit]
  /\ vm' = [vm EXCEPT !.mode = "idle", !.thread = Absent, !.cur = Null]
  /\ UNCHANGED <<rip, frames, seg, asks, failed>>

(* what the loop may leave after block i has gone to address a: the next   *)
(* segment is looked up, made and linked, and the block is patched.        *)
(* addSuccessor verifies that a slot is left, addReturn that a block       *)
(* returns to the segment it has always returned to.                       *)
Destination(S, i, a) ==
  IF FindNext(S, i, a) # {} THEN CHOOSE j \in FindNext(S, i, a) : TRUE
  ELSE At(Fetched(S, a), a)

Linked(S, i, a) ==
  IF FindNext(S, i, a) # {} THEN Reordered(S, i, a)
  ELSE {AddSuccessor(Fetched(S, a), i, At(Fetched(S, a), a))}

JumpPatched(S, i, a) ==
  IF Chaining /\ FixedJump(i) /\ Destination(S, i, a) \in S.native
  THEN TryPatch(S, {i}) ELSE S

ReturnPatched(S, i) ==
  LET after == After[Start(i)]
      T == Fetched(S, after)
  IN  IF ~IsCall(i) THEN S
      ELSE IF CallChaining THEN TryPatch(AddReturn(T, i, At(T, after)), {i})
      ELSE T

SlotFails(S, i, a) ==
  FindNext(S, i, a) = {} /\ FixedDestination(i) /\ ~SlotLeft(S, i)
ReturnFails(S, i) ==
  LET after == After[Start(i)] IN
  /\ IsCall(i) /\ CallChaining
  /\ S.ret[i] \notin {Null, At(Fetched(S, after), after)}

Visits(S, i, a) == {a} \cup IF IsCall(i) THEN {After[Start(i)]} ELSE {}

(* the rest of the loop after block i: the step of its thread t to address *)
(* a, with the native stack jit                                            *)
Land(t, S, i, a, jit) ==
  /\ CanFetch(S, Visits(S, i, a))
  /\ failed' = CASE SlotFails(S, i, a) -> "slot"
                 [] ReturnFails(S, i) -> "return"
                 [] OTHER -> failed
  /\ IF failed' # failed THEN seg' = S /\ UNCHANGED vm
     ELSE /\ \E T \in Linked(S, i, a) :
               seg' = ReturnPatched(JumpPatched(T, i, a), i)
          /\ vm' = [mode |-> "loop", thread |-> t, cur |-> Destination(S, i, a),
                    jit |-> jit]

Front(s) == SubSeq(s, 1, Len(s) - 1)
Nulls(s) == [k \in 1..Len(s) |-> Null]

(* notifyCall, notifyRet and nukeCallstack, and what native code pushes *)
NativeStack(i, pushed) ==
  CASE IsCall(i) -> Append(vm.jit, pushed)
    [] Ends[Start(i)] = "ret" -> Front(vm.jit)
    [] Ends[Start(i)] = "longjmp" -> Nulls(vm.jit)
    [] OTHER -> vm.jit

Enter(t, mode) ==
  /\ failed = "no" /\ vm.mode = mode /\ vm.thread = t /\ ~asks[t]
  /\ Len(vm.jit) < MaxNative \/ ~IsCall(vm.cur)

(* thread t goes where block i sends it *)
Goes(t, o) ==
  /\ rip' = [rip EXCEPT ![t] = o[1]]
  /\ frames' = [frames EXCEPT ![t] = o[2]]

(* a block without native code runs in the interpreter *)
Interpret(t) ==
  /\ Enter(t, "loop")
  /\ \E C \in Batches(seg, vm.cur), o \in Outcomes(Start(vm.cur), frames[t]) :
       LET S == Compile(seg, C) IN
       /\ vm.cur \notin S.native
       /\ Goes(t, o)
       /\ Land(t, S, vm.cur, o[1], NativeStack(vm.cur, Null))
  /\ asks' = [asks EXCEPT ![t] = Ends[Start(vm.cur)] = "syscall"]
  /\ UNCHANGED saved

(* Jit::exec *)
EnterNative(t) ==
  /\ Enter(t, "loop")
  /\ \E C \in Batches(seg, vm.cur) :
       /\ seg' = Compile(seg, C)
       /\ vm.cur \in seg'.native
  /\ vm' = [vm EXCEPT !.mode = "native"]
  /\ UNCHANGED <<rip, frames, saved, asks, failed>>

(* where the native code of block i goes without leaving for the loop *)
Chained(i, a) ==
  CASE Ends[Start(i)] \in {"jmp", "call"} -> {seg.jump[i]}
    [] Ends[Start(i)] = "jcc" ->
         {seg.jump[i] : d \in Dests[Start(i)] \cap {a}}
           \cup {seg.cont[i] : d \in {After[Start(i)]} \cap {a}}
    [] Ends[Start(i)] \in {"icall", "ijmp"} ->
         LET found == {p[2] : p \in {q \in seg.table : q[1] = i /\ Start(q[2]) = a}}
         IN  IF found = {} THEN {Null} ELSE found
    [] Ends[Start(i)] = "ret" -> {vm.jit[Len(vm.jit)]}

(* a block of native code *)
RunNative(t) ==
  /\ Enter(t, "native")
  /\ \E o \in Outcomes(Start(vm.cur), frames[t]) :
       /\ Goes(t, o)
       /\ \E target \in Chained(vm.cur, o[1]) :
            LET jit == NativeStack(vm.cur, seg.push[vm.cur]) IN
            IF target = Null THEN Land(t, seg, vm.cur, o[1], jit)
            ELSE /\ vm' = [vm EXCEPT !.cur = target, !.jit = jit]
                 /\ UNCHANGED <<seg, failed>>
  /\ UNCHANGED <<saved, asks>>

-----------------------------------------------------------------------------
(* System calls.                                                           *)

Serves(t) ==
  /\ failed = "no" /\ vm.mode = "idle" /\ asks[t]
  /\ asks' = [asks EXCEPT ![t] = FALSE]

(* a system call that changes nothing here *)
OtherCall(t) == Serves(t) /\ UNCHANGED <<rip, frames, seg, vm, saved, failed>>

(* munmap of the library and mmap of it again, by a program that is done   *)
(* with it                                                                 *)
Unused(A) == \A t \in Threads :
  rip[t] \notin A /\ \A k \in 1..Len(frames[t]) : frames[t][k] \notin A
Remap(t) ==
  /\ Serves(t) /\ Unused(Library)
  /\ seg' = Remove(seg, {i \in seg.alive : Start(i) \in Library})
  /\ UNCHANGED <<rip, frames, vm, saved, failed>>

(* reportInfoFrom: the size of the native stack is copied, not its entries *)
Inherited(s) == Nulls(s)

(* clone of a thread *)
Clone(t) == \E u \in Threads :
  /\ Serves(t) /\ Appears(u)
  /\ saved' = [saved EXCEPT ![u] = Inherited(saved[t])]
  /\ UNCHANGED <<seg, vm, failed>>

Next == \E t \in Threads :
  \/ Begin(t) \/ End(t) \/ Interpret(t) \/ EnterNative(t) \/ RunNative(t)
  \/ OtherCall(t) \/ Remap(t) \/ Clone(t)

Spec == Init /\ [][Next]_svars

-----------------------------------------------------------------------------
(* Properties.                                                             *)

(* What the code of an instruction holds of a program: a fixed jump or     *)
(* call names one address.  And what linking at run time makes of it: a    *)
(* mapping is left through a pointer only, so that neither a fixed jump    *)
(* nor the block after a jump or a call is in another one.                 *)
LinkedAtRunTime == \A a \in Addrs :
  /\ Ends[a] \in {"jmp", "jcc", "call"} =>
       /\ \A d, e \in Dests[a] : d = e
       /\ \A d \in Dests[a] : d \in Library <=> a \in Library
  /\ Ends[a] \in {"jcc", "call", "icall"} => (After[a] \in Library <=> a \in Library)

TypeOK ==
  /\ rip \in [Threads -> Addrs \cup {Absent}]
  /\ frames \in [Threads -> Seq(Addrs)]
  /\ seg.made \in [Addrs -> 0..MaxMade]
  /\ seg.alive \subseteq {i \in Ids : i[2] <= seg.made[Start(i)]}
  /\ seg.slots \in [Ids -> [1..2 -> Pointers]]
  /\ seg.chain \subseteq Ids \X Ids /\ seg.succ \subseteq Ids \X Ids
  /\ seg.pred \subseteq Ids \X Ids /\ seg.callers \subseteq Ids \X Ids
  /\ seg.table \subseteq Ids \X Ids
  /\ seg.native \subseteq Ids /\ seg.tried \subseteq Ids
  /\ \A f \in {seg.ret, seg.jump, seg.cont, seg.push} : f \in [Ids -> Pointers]
  /\ vm.mode \in {"idle", "loop", "native"} /\ vm.thread \in Threads \cup {Absent}
  /\ vm.cur \in Pointers /\ vm.jit \in Seq(Pointers)
  /\ saved \in [Threads -> Seq(Pointers)] /\ asks \in [Threads -> BOOLEAN]
  /\ failed \in {"no", "slot", "return"}

(* Every pointer that a live segment holds leads to a live segment: what   *)
(* removeFromCaches leaves behind would be followed by findNext, by the    *)
(* compilation queue or by tryPatch.                                       *)
LinksAreLive == \A i \in seg.alive :
  /\ seg.slots[i][1] \in seg.alive \cup {Null}
  /\ seg.slots[i][2] \in seg.alive \cup {Null}
  /\ seg.ret[i] \in seg.alive \cup {Null}
  /\ \A p \in seg.chain \cup seg.succ \cup seg.pred \cup seg.callers :
       p[1] = i => p[2] \in seg.alive

(* The two ends of a link agree, so that either end can undo it: a block   *)
(* is a successor where it has a predecessor, and the destinations kept    *)
(* for the lookups are successors.                                         *)
LinksAgree ==
  /\ seg.pred = {<<p[2], p[1]>> : p \in seg.succ}
  /\ seg.chain \subseteq seg.succ
  /\ \A i \in seg.alive, k \in 1..2 :
       seg.slots[i][k] = Null \/ <<i, seg.slots[i][k]>> \in seg.succ

(* There is one live segment for an address.                               *)
OneSegment == \A i, j \in seg.alive : Start(i) = Start(j) => i = j

(* The block that runs, native or not, is the live segment of the address  *)
(* its thread is at (verify in VM::execute), although native code goes     *)
(* from block to block without looking at the address.                     *)
RunsCurrentCode == failed = "no" /\ vm.mode # "idle" =>
  /\ vm.cur \in seg.alive /\ Start(vm.cur) = rip[vm.thread]
  /\ vm.mode = "native" => vm.cur \in seg.native

(* What native code has been patched with, and finds in its table, is the  *)
(* live block of the address it is about to go to.                         *)
PatchesAreCurrent == \A i \in seg.native :
  /\ seg.jump[i] # Null => /\ seg.jump[i] \in seg.native
                           /\ Start(seg.jump[i]) \in Dests[Start(i)]
  /\ seg.cont[i] # Null => /\ seg.cont[i] \in seg.native
                           /\ Start(seg.cont[i]) = After[Start(i)]
  /\ seg.push[i] # Null => /\ seg.push[i] \in seg.native
                           /\ Start(seg.push[i]) = After[Start(i)]
  /\ \A p \in seg.table : p[1] = i => p \in seg.chain /\ p[2] \in seg.native

(* The native stack of a thread follows its guest stack from the top: an   *)
(* entry is empty or the native code of the block the frame returns to.    *)
(* longjmp leaves more entries than frames, never fewer.                   *)
Follows(jit, stack) ==
  /\ Len(jit) >= Len(stack)
  /\ \A k \in 0..Len(jit) - 1 :
       LET e == jit[Len(jit) - k] IN
       e # Null => /\ k < Len(stack) /\ e \in seg.native
                   /\ Start(e) = stack[Len(stack) - k]
StackOf(t) == IF vm.mode # "idle" /\ vm.thread = t THEN vm.jit ELSE saved[t]
NativeStackFollows == failed = "no" =>
  \A t \in Threads : Follows(StackOf(t), frames[t])

(* verify(foundSlot) of FixedDestinationInfo::addSuccessor and             *)
(* verify(!ret || ret == other) of ReturnDestinationInfo::addReturn hold.  *)
VerifySlots == failed # "slot"
VerifyReturns == failed # "return"

(* The graph of the blocks of a process, whatever is fetched and purged.   *)
GraphIsExact == TypeOK /\ LinksAreLive /\ LinksAgree /\ OneSegment

(* Threads that share the graph stay on their course, by the native return *)
(* stack each of them has.                                                 *)
ReturnsFollow == RunsCurrentCode /\ NativeStackFollows /\ VerifyReturns

(* Native code only enters what is current, and no verify of the graph     *)
(* fails.                                                                  *)
CodeIsCurrent ==
  LinksAreLive /\ RunsCurrentCode /\ PatchesAreCurrent /\ NativeStackFollows /\ VerifySlots

(* Caches, native code and patches do not change what the program does:    *)
(* its threads go where the code at their addresses sends them.            *)
RunsTheProgram == GuestSpec
=============================================================================
