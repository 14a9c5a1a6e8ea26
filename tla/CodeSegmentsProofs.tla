-------------------------- MODULE CodeSegmentsProofs --------------------------
(* What the graph of translated blocks guarantees for every program that   *)
(* is linked at run time, for any number of threads, addresses and         *)
(* segments.                                                               *)
(*                                                                         *)
(* Good(S) is the invariant of the graph alone, which every operation of   *)
(* codesegment.cpp and of the patching keeps: the newest segment of an     *)
(* address is the live one, the links of both ends agree, the slots of a   *)
(* fixed jump are filled in order with what it names and nothing else,     *)
(* and native code is patched with native code of the right address only.  *)
(* The threads follow it (OnCourse), by their native stacks (Tracks).      *)
EXTENDS CodeSegments, TLAPS

Links == SUBSET (Ids \X Ids)
Graph == [made : [Addrs -> 0..MaxMade], alive : SUBSET Ids,
  slots : [Ids -> [1..2 -> Pointers]], chain : Links, succ : Links, pred : Links,
  callers : Links, ret : [Ids -> Pointers], native : SUBSET Ids,
  tried : SUBSET Ids, jump : [Ids -> Pointers], cont : [Ids -> Pointers],
  push : [Ids -> Pointers], table : Links]

(* the addresses a jump or call of a fixed destination may go to *)
Named(i) == Dests[Start(i)] \cup
  IF Ends[Start(i)] = "jcc" THEN {After[Start(i)]} ELSE {}

Newest(S) == \A i \in S.alive : i[2] = S.made[Start(i)]

LinksExact(S) ==
  /\ \A i, j \in Ids : <<i, j>> \in S.succ => i \in S.alive /\ j \in S.alive
  /\ \A i, j \in Ids : <<j, i>> \in S.pred <=> <<i, j>> \in S.succ
  /\ \A i, j \in Ids : <<i, j>> \in S.chain => <<i, j>> \in S.succ

SlotExact(S, i, j) ==
  j # Null => /\ FixedDestination(i) /\ <<i, j>> \in S.succ
              /\ Start(j) \in Named(i)

SlotsExact(S) == \A i \in Ids :
  /\ SlotExact(S, i, S.slots[i][1]) /\ SlotExact(S, i, S.slots[i][2])
  /\ S.slots[i][2] # Null => /\ S.slots[i][1] # Null
                             /\ Start(S.slots[i][1]) # Start(S.slots[i][2])
  /\ FixedDestination(i) => \A j \in Ids : <<i, j>> \in S.succ =>
       j = S.slots[i][1] \/ j = S.slots[i][2]

(* j is the block that follows the call i *)
ReturnsTo(S, i, j) ==
  /\ IsCall(i) /\ i \in S.alive /\ j \in S.alive
  /\ Start(j) = After[Start(i)]

ReturnsExact(S) ==
  /\ \A i \in Ids : S.ret[i] # Null => ReturnsTo(S, i, S.ret[i])
  /\ \A i, j \in Ids : <<j, i>> \in S.callers => ReturnsTo(S, i, j)

NativeLives(S) == \A i \in S.native : i \in S.alive /\ Start(i) \in Compilable

Patched(S, i) ==
  /\ S.jump[i] # Null => /\ FixedDestination(i) /\ S.jump[i] \in S.native
                         /\ Start(S.jump[i]) \in Dests[Start(i)]
  /\ S.cont[i] # Null => /\ Ends[Start(i)] = "jcc" /\ S.cont[i] \in S.native
                         /\ Start(S.cont[i]) = After[Start(i)]
  /\ S.push[i] # Null => /\ IsCall(i) /\ S.push[i] \in S.native
                         /\ Start(S.push[i]) = After[Start(i)]
  /\ \A j \in Ids : <<i, j>> \in S.table => <<i, j>> \in S.chain /\ j \in S.native

(* what is not native and may still become it *)
Unpatched(S, i) ==
  /\ S.jump[i] = Null /\ S.cont[i] = Null /\ S.push[i] = Null
  /\ \A j \in Ids : <<i, j>> \notin S.table

PatchesExact(S) ==
  /\ \A i \in S.native : Patched(S, i)
  /\ \A i \in Ids \ S.native :
       i \in S.alive \/ i[2] > S.made[Start(i)] => Unpatched(S, i)

Good(S) ==
  /\ S \in Graph /\ Newest(S) /\ LinksExact(S) /\ SlotsExact(S)
  /\ ReturnsExact(S) /\ NativeLives(S) /\ PatchesExact(S)

(* Follows, in a graph with the native code N *)
Entry(N, e, k, stack) ==
  e # Null => /\ k < Len(stack) /\ e \in N
              /\ Start(e) = stack[Len(stack) - k]
Tracks(N, jit, stack) ==
  /\ Len(jit) >= Len(stack)
  /\ \A k \in 0..Len(jit) - 1 : Entry(N, jit[Len(jit) - k], k, stack)

Typed ==
  /\ rip \in [Threads -> Addrs \cup {Absent}] /\ frames \in [Threads -> Seq(Addrs)]
  /\ vm \in [mode : {"idle", "loop", "native"}, thread : Threads \cup {Absent},
             cur : Pointers, jit : Seq(Pointers)]
  /\ saved \in [Threads -> Seq(Pointers)] /\ asks \in [Threads -> BOOLEAN]

(* a thread that runs is at the block that runs *)
AtItsBlock ==
  vm.mode # "idle" => /\ vm.thread \in Threads /\ vm.cur \in seg.alive
                      /\ Start(vm.cur) = rip[vm.thread]
                      /\ vm.mode = "native" => vm.cur \in seg.native

OnCourse ==
  /\ \A t \in Threads : rip[t] = Absent => frames[t] = <<>>
  /\ \A t \in Threads : Tracks(seg.native, StackOf(t), frames[t])

IInv == Good(seg) /\ Typed /\ AtItsBlock /\ OnCourse /\ failed = "no"

(* what the loop and the native code leave: block j is next *)
Slice(mode, t, j, jit) == [mode |-> mode, thread |-> t, cur |-> j, jit |-> jit]
Landed(t, S, a, jit) ==
  /\ failed' = failed /\ Good(seg')
  /\ S.alive \subseteq seg'.alive /\ S.native \subseteq seg'.native
  /\ \E j \in seg'.alive : Start(j) = a /\ vm' = Slice("loop", t, j, jit)

-----------------------------------------------------------------------------
(* Threads and their stacks.                                               *)

LEMMA TracksMore ==
  ASSUME NEW N, NEW M, N \subseteq M, NEW jit \in Seq(Pointers),
         NEW stack \in Seq(Addrs), Tracks(N, jit, stack)
  PROVE  Tracks(M, jit, stack)
BY DEF Tracks, Entry

(* notifyCall, and the push of native code: the entry is empty or the      *)
(* block that the call returns to.                                         *)
LEMMA TracksCall ==
  ASSUME NEW N, NEW jit \in Seq(Pointers), NEW stack \in Seq(Addrs),
         Tracks(N, jit, stack), NEW a \in Addrs,
         NEW e \in Pointers, e # Null => e \in N /\ Start(e) = a
  PROVE  Tracks(N, Append(jit, e), Append(stack, a))
<1> DEFINE J == Append(jit, e)
           T == Append(stack, a)
<1>1. /\ Len(J) = Len(jit) + 1 /\ Len(T) = Len(stack) + 1
      /\ J[Len(J)] = e /\ T[Len(T)] = a
      /\ \A k \in 1..Len(jit) : J[k] = jit[k]
      /\ \A k \in 1..Len(stack) : T[k] = stack[k]
      /\ Len(jit) \in Nat /\ Len(stack) \in Nat
  OBVIOUS
<1> HIDE DEF J, T
<1>2. ASSUME NEW k \in 0..Len(J) - 1 PROVE Entry(N, J[Len(J) - k], k, T)
  <2>1. CASE k = 0
    BY <1>1, <2>1 DEF Entry
  <2>2. CASE k > 0
    <3>1. Entry(N, jit[Len(jit) - (k - 1)], k - 1, stack)
      BY <1>1, <2>2 DEF Tracks
    <3>2. J[Len(J) - k] = jit[Len(jit) - (k - 1)]
      BY <1>1, <2>2
    <3>3. k - 1 < Len(stack) => T[Len(T) - k] = stack[Len(stack) - (k - 1)]
      BY <1>1, <2>2
    <3> QED BY <1>1, <3>1, <3>2, <3>3 DEF Entry
  <2> QED BY <1>1, <2>1, <2>2
<1> QED BY <1>1, <1>2 DEF Tracks, J, T

LEMMA FrontFacts ==
  ASSUME NEW A, NEW s \in Seq(A), Len(s) > 0
  PROVE  /\ Front(s) \in Seq(A) /\ Len(Front(s)) = Len(s) - 1
         /\ \A k \in 1..Len(s) - 1 : Front(s)[k] = s[k]
<1>1. Len(s) - 1 \in Nat
  OBVIOUS
<1>2. Front(s) = [k \in 1..Len(s) - 1 |-> s[k]]
  BY <1>1 DEF Front
<1> QED BY <1>1, <1>2

(* notifyRet *)
LEMMA TracksReturn ==
  ASSUME NEW N, NEW jit \in Seq(Pointers), NEW stack \in Seq(Addrs),
         Tracks(N, jit, stack), stack # <<>>
  PROVE  Tracks(N, Front(jit), Front(stack))
<1> DEFINE J == Front(jit)
           T == Front(stack)
<1>0. Len(stack) > 0 /\ Len(jit) > 0 /\ Len(jit) \in Nat /\ Len(stack) \in Nat
  BY DEF Tracks
<1>1. /\ Len(J) = Len(jit) - 1 /\ Len(T) = Len(stack) - 1
      /\ \A k \in 1..Len(J) : J[k] = jit[k]
      /\ \A k \in 1..Len(T) : T[k] = stack[k]
  BY <1>0, FrontFacts
<1> HIDE DEF J, T
<1>2. ASSUME NEW k \in 0..Len(J) - 1 PROVE Entry(N, J[Len(J) - k], k, T)
  <2>1. Entry(N, jit[Len(jit) - (k + 1)], k + 1, stack)
    BY <1>0, <1>1 DEF Tracks
  <2>2. J[Len(J) - k] = jit[Len(jit) - (k + 1)]
    BY <1>0, <1>1
  <2>3. k + 1 < Len(stack) => T[Len(T) - k] = stack[Len(stack) - (k + 1)]
    BY <1>0, <1>1
  <2> QED BY <1>0, <1>1, <2>1, <2>2, <2>3 DEF Entry
<1>3. Len(J) >= Len(T)
  BY <1>0, <1>1 DEF Tracks
<1> QED BY <1>2, <1>3 DEF Tracks, J, T

(* nukeCallstack, and the size that a clone inherits *)
LEMMA TracksNulls ==
  ASSUME NEW N, NEW jit \in Seq(Pointers), NEW stack \in Seq(Addrs),
         Len(stack) <= Len(jit)
  PROVE  Nulls(jit) \in Seq(Pointers) /\ Tracks(N, Nulls(jit), stack)
<1>1. /\ Len(Nulls(jit)) = Len(jit) /\ Len(jit) \in Nat
      /\ \A k \in 1..Len(jit) : Nulls(jit)[k] = Null
  BY DEF Nulls
<1>2. Nulls(jit) \in Seq(Pointers)
  BY DEF Nulls, Pointers
<1>3. ASSUME NEW k \in 0..Len(Nulls(jit)) - 1
      PROVE  Nulls(jit)[Len(Nulls(jit)) - k] = Null
  BY <1>1
<1> QED BY <1>1, <1>2, <1>3 DEF Tracks, Entry

(* A removal of blocks no frame of the thread returns to. *)
LEMMA TracksRemoved ==
  ASSUME NEW N, NEW D, NEW A, NEW jit \in Seq(Pointers), NEW stack \in Seq(Addrs),
         Tracks(N, jit, stack), \A i \in D : Start(i) \in A,
         \A k \in 1..Len(stack) : stack[k] \notin A
  PROVE  Tracks(N \ D, jit, stack)
<1>1. ASSUME NEW k \in 0..Len(jit) - 1, Entry(N, jit[Len(jit) - k], k, stack)
      PROVE  Entry(N \ D, jit[Len(jit) - k], k, stack)
  <2>1. k < Len(stack) => Len(stack) - k \in 1..Len(stack)
    OBVIOUS
  <2> QED BY <1>1, <2>1 DEF Entry
<1> QED BY <1>1 DEF Tracks

-----------------------------------------------------------------------------
(* The graph.                                                              *)

(* The live segment of an address is its newest one. *)
LEMMA OneLive ==
  ASSUME NEW S, Good(S), NEW i \in S.alive
  PROVE  /\ i \in Ids /\ Start(i) \in Addrs
         /\ i = At(S, Start(i))
         /\ \A j \in S.alive : Start(j) = Start(i) => j = i
<1>1. \A j \in S.alive : j \in Ids /\ j[2] = S.made[Start(j)] /\ j = <<j[1], j[2]>>
  BY DEF Good, Graph, Newest, Ids
<1> QED BY <1>1 DEF Start, At, Ids

(* findNext, of slots or of variable destinations, finds the successors. *)
LEMMA FindNextExact ==
  ASSUME NEW S, Good(S), NEW i \in Ids, NEW a \in Addrs
  PROVE  /\ \A j \in FindNext(S, i, a) : j \in Ids /\ <<i, j>> \in S.succ /\ Start(j) = a
         /\ \A j \in Ids : <<i, j>> \in S.succ /\ Start(j) = a => j \in FindNext(S, i, a)
<1>1. CASE ~FixedDestination(i)
  BY <1>1 DEF FindNext
<1>2. CASE FixedDestination(i)
  <2> DEFINE p == S.slots[i][1]
             q == S.slots[i][2]
  <2>1. /\ p \in Pointers /\ q \in Pointers
        /\ SlotExact(S, i, p) /\ SlotExact(S, i, q)
        /\ q # Null => p # Null /\ Start(p) # Start(q)
        /\ \A j \in Ids : <<i, j>> \in S.succ => j = p \/ j = q
    BY <1>2 DEF Good, Graph, SlotsExact
  <2>2. FindNext(S, i, a) = {S.slots[i][k] : k \in {j \in 1..2 :
          /\ \A l \in 1..j : S.slots[i][l] # Null
          /\ Start(S.slots[i][j]) = a
          /\ \A l \in 1..j - 1 : Start(S.slots[i][l]) # a}}
    BY <1>2 DEF FindNext, FindFixed
  <2>3. ASSUME NEW j \in FindNext(S, i, a)
        PROVE  j # Null /\ Start(j) = a /\ (j = p \/ j = q)
    <3>1. PICK k \in 1..2 : /\ j = S.slots[i][k]
                            /\ \A l \in 1..k : S.slots[i][l] # Null
                            /\ Start(S.slots[i][k]) = a
      BY <2>2, <2>3
    <3>2. k \in 1..k /\ (k = 1 \/ k = 2)
      OBVIOUS
    <3> QED BY <3>1, <3>2
  <2>4. p # Null /\ Start(p) = a => p \in FindNext(S, i, a)
    <3>1. 1 \in 1..2 /\ (\A l \in 1..1 : l = 1) /\ 1..1 - 1 = {}
      OBVIOUS
    <3> QED BY <2>2, <3>1
  <2>5. q # Null /\ Start(q) = a => q \in FindNext(S, i, a)
    <3>1. 2 \in 1..2 /\ (\A l \in 1..2 : l = 1 \/ l = 2) /\ (\A l \in 1..2 - 1 : l = 1)
      OBVIOUS
    <3> QED BY <2>1, <2>2, <3>1
  <2> HIDE DEF p, q
  <2>6. ASSUME NEW j \in FindNext(S, i, a)
        PROVE  j \in Ids /\ <<i, j>> \in S.succ /\ Start(j) = a
    BY <2>1, <2>3 DEF SlotExact, Pointers
  <2>7. ASSUME NEW j \in Ids, <<i, j>> \in S.succ, Start(j) = a
        PROVE  j \in FindNext(S, i, a)
    BY <2>1, <2>4, <2>5, <2>7, SegmentsAssumption
  <2> QED BY <2>6, <2>7
<1> QED BY <1>1, <1>2

(* A graph in which nothing is taken from another one. *)
CanGet(S, a) == Known(S, a) = {} => S.made[a] < MaxMade
Grows(S, T) ==
  /\ S.alive \subseteq T.alive /\ S.native \subseteq T.native
  /\ \A a \in Addrs : CanGet(S, a) => CanGet(T, a)

(* fetchSegment *)
LEMMA FetchedGood ==
  ASSUME NEW S, Good(S), NEW a \in Addrs, CanGet(S, a)
  PROVE  LET T == Fetched(S, a) IN
         /\ Good(T) /\ Grows(S, T)
         /\ At(T, a) \in T.alive /\ Start(At(T, a)) = a
         /\ T.succ = S.succ /\ T.pred = S.pred /\ T.slots = S.slots
         /\ T.chain = S.chain /\ T.native = S.native
<1>1. CASE Known(S, a) # {}
  <2>1. PICK i \in S.alive : Start(i) = a
    BY <1>1 DEF Known
  <2>2. Fetched(S, a) = S
    BY <1>1 DEF Fetched
  <2>3. At(S, a) = i
    BY <2>1, OneLive
  <2> QED BY <2>1, <2>2, <2>3 DEF Grows
<1>2. CASE Known(S, a) = {}
  <2> DEFINE T == Fetched(S, a)
             j == <<a, S.made[a] + 1>>
  <2>0. S \in Graph
    BY DEF Good
  <2>1. T = [S EXCEPT !.made[a] = S.made[a] + 1, !.alive = S.alive \cup {j}]
    BY <1>2, <2>0 DEF Fetched, Graph
  <2>2. /\ S.made[a] \in 0..MaxMade /\ S.made[a] < MaxMade
        /\ j \in Ids /\ Start(j) = a /\ j[2] = S.made[a] + 1
    BY <1>2, <2>0, SegmentsAssumption DEF CanGet, Graph, Ids, Start
  <2>3. /\ T \in Graph /\ T.made = [S.made EXCEPT ![a] = S.made[a] + 1]
        /\ T.alive = S.alive \cup {j}
        /\ T.succ = S.succ /\ T.pred = S.pred /\ T.slots = S.slots
        /\ T.chain = S.chain /\ T.native = S.native /\ T.callers = S.callers
        /\ T.ret = S.ret /\ T.table = S.table
        /\ T.jump = S.jump /\ T.cont = S.cont /\ T.push = S.push
    <3>1. [S.made EXCEPT ![a] = S.made[a] + 1] \in [Addrs -> 0..MaxMade]
      BY <2>0, <2>2, SegmentsAssumption DEF Graph
    <3>2. S.alive \cup {j} \in SUBSET Ids
      BY <2>0, <2>2 DEF Graph
    <3> QED BY <2>0, <2>1, <3>1, <3>2 DEF Graph
  <2> HIDE DEF T
  <2>4. \A i \in S.alive : Start(i) # a /\ i \in Ids
    BY <1>2, <2>0 DEF Known, Graph
  <2>5. \A b \in Addrs : b # a => T.made[b] = S.made[b]
    BY <2>0, <2>3 DEF Graph
  <2>6. T.made[a] = S.made[a] + 1
    BY <2>0, <2>3 DEF Graph
  <2>7. Newest(T)
    BY <2>2, <2>3, <2>4, <2>5, <2>6 DEF Good, Newest, Start, Ids
  <2>8. LinksExact(T) /\ SlotsExact(T) /\ ReturnsExact(T) /\ NativeLives(T)
    BY <2>3 DEF Good, LinksExact, SlotsExact, SlotExact, ReturnsExact, ReturnsTo,
                NativeLives
  <2>9. PatchesExact(T)
    <3>1. ASSUME NEW i \in Ids \ T.native, i \in T.alive \/ i[2] > T.made[Start(i)]
          PROVE  Unpatched(T, i)
      <4>1. i \in S.alive \/ i[2] > S.made[Start(i)]
        <5>1. Start(i) \in Addrs /\ i[2] \in Nat /\ S.made[Start(i)] \in Nat
          BY <2>0, SegmentsAssumption DEF Ids, Start, Graph
        <5> QED BY <2>2, <2>3, <2>5, <2>6, <3>1, <5>1
      <4> QED BY <2>3, <4>1 DEF Good, PatchesExact, Unpatched
    <3> QED BY <2>3, <3>1 DEF Good, PatchesExact, Patched
  <2>10. At(T, a) = j
    BY <2>6 DEF At
  <2>11. Grows(S, T)
    <3>1. ASSUME NEW b \in Addrs, CanGet(S, b)
          PROVE  CanGet(T, b)
      BY <2>2, <2>3, <2>5, <3>1 DEF CanGet, Known
    <3> QED BY <2>3, <3>1 DEF Grows
  <2> QED BY <2>2, <2>3, <2>7, <2>8, <2>9, <2>10, <2>11 DEF Good, T
<1> QED BY <1>1, <1>2

(* Two graphs that differ in what the native code has been patched with,   *)
(* or in what is native.                                                   *)
SameLinks(S, T) ==
  /\ T.made = S.made /\ T.alive = S.alive /\ T.slots = S.slots /\ T.ret = S.ret
  /\ T.chain = S.chain /\ T.succ = S.succ /\ T.pred = S.pred
  /\ T.callers = S.callers

LEMMA SameLinksKeep ==
  ASSUME NEW S, Good(S), NEW T, T \in Graph, SameLinks(S, T), S.native \subseteq T.native
  PROVE  /\ Newest(T) /\ LinksExact(T) /\ SlotsExact(T) /\ ReturnsExact(T)
         /\ Grows(S, T)
<1>1. Newest(T) /\ LinksExact(T) /\ SlotsExact(T) /\ ReturnsExact(T)
  BY DEF SameLinks, Good, Newest, LinksExact, SlotsExact, SlotExact, ReturnsExact,
         ReturnsTo
<1>2. Grows(S, T)
  BY DEF SameLinks, Grows, CanGet, Known
<1> QED BY <1>1, <1>2

(* syncBlockLookupTable *)
LEMMA SyncedGood ==
  ASSUME NEW S, Good(S), NEW I
  PROVE  LET T == SyncTables(S, I) IN
         /\ Good(T) /\ SameLinks(S, T) /\ T.native = S.native
<1> DEFINE T == SyncTables(S, I)
           table == {p \in S.table : p[1] \notin I \cap S.native}
             \cup {p \in S.chain : p[1] \in I \cap S.native /\ p[2] \in S.native}
<1>0. S \in Graph
  BY DEF Good
<1>1. T = [S EXCEPT !.table = table]
  BY <1>0 DEF SyncTables, Graph
<1>2. /\ T \in Graph /\ T.table = table /\ SameLinks(S, T) /\ T.native = S.native
      /\ T.jump = S.jump /\ T.cont = S.cont /\ T.push = S.push
  <2>1. table \in Links
    BY <1>0 DEF Graph, Links
  <2> QED BY <1>0, <1>1, <2>1 DEF Graph, SameLinks
<1> HIDE DEF T
<1>3. \A i, j \in Ids : <<i, j>> \in table =>
        \/ <<i, j>> \in S.table
        \/ i \in S.native /\ j \in S.native /\ <<i, j>> \in S.chain
  OBVIOUS
<1> HIDE DEF table
<1>4. PatchesExact(T)
  <2>1. ASSUME NEW i \in S.native
        PROVE  Patched(T, i)
    <3>1. Patched(S, i) /\ i \in Ids
      BY <1>0 DEF Good, PatchesExact, Graph
    <3> QED BY <1>2, <1>3, <3>1 DEF Patched, SameLinks
  <2>2. ASSUME NEW i \in Ids \ S.native, Unpatched(S, i)
        PROVE  Unpatched(T, i)
    BY <1>2, <1>3, <2>2 DEF Unpatched
  <2> QED BY <1>2, <2>1, <2>2 DEF Good, PatchesExact, SameLinks
<1>5. NativeLives(T)
  BY <1>2 DEF Good, NativeLives, SameLinks
<1> QED BY <1>2, <1>4, <1>5, SameLinksKeep DEF Good, T

(* the targets that tryPatch is given *)
LEMMA TargetsExact ==
  ASSUME NEW S, Good(S), NEW i \in Ids, NEW follows \in BOOLEAN,
         NEW j \in Targets(S, i, follows)
  PROVE  /\ FixedDestination(i) /\ j \in S.native
         /\ IF follows THEN Start(j) = After[Start(i)] ELSE Start(j) \in Dests[Start(i)]
<1>1. PICK k \in 1..2 : /\ j = S.slots[i][k] /\ j \in S.native
                        /\ (Start(j) = After[Start(i)]) = follows
  BY DEF Targets
<1>2. SlotExact(S, i, j) /\ j # Null
  <2>1. SlotExact(S, i, S.slots[i][1]) /\ SlotExact(S, i, S.slots[i][2])
    BY DEF Good, SlotsExact
  <2>2. k = 1 \/ k = 2
    OBVIOUS
  <2>3. j \in Ids
    BY <1>1 DEF Good, Graph
  <2> QED BY <1>1, <2>1, <2>2, <2>3, SegmentsAssumption
<1>3. FixedDestination(i) /\ Start(j) \in Named(i)
  BY <1>2 DEF SlotExact
<1> QED BY <1>1, <1>3 DEF Named

LEMMA PatchedWithOne ==
  ASSUME NEW old \in Pointers, NEW targets, targets \subseteq Ids
  PROVE  /\ PatchedWith(old, targets) \in Pointers
         /\ PatchedWith(old, targets) = old \/ PatchedWith(old, targets) \in targets
BY DEF PatchedWith, Pointers

LEMMA PushExact ==
  ASSUME NEW S, Good(S), NEW i \in S.native
  PROVE  LET e == PatchedPush(S, i) IN
         /\ e \in Pointers
         /\ e # Null => /\ IsCall(i) /\ e \in S.native
                        /\ Start(e) = After[Start(i)]
<1>1. i \in Ids /\ S.push[i] \in Pointers /\ S.ret[i] \in Pointers
  BY DEF Good, Graph
<1>2. CASE PatchedPush(S, i) = S.push[i]
  BY <1>1, <1>2 DEF Good, PatchesExact, Patched
<1>3. CASE PatchedPush(S, i) = S.ret[i] /\ IsCall(i) /\ S.ret[i] \in S.native
  BY <1>1, <1>3 DEF Good, ReturnsExact, ReturnsTo
<1> QED BY <1>2, <1>3 DEF PatchedPush

(* tryPatch *)
LEMMA TryPatchGood ==
  ASSUME NEW S, Good(S), NEW I
  PROVE  LET T == TryPatch(S, I) IN
         /\ Good(T) /\ SameLinks(S, T) /\ T.native = S.native
<1> DEFINE J == I \cap S.native
           jumps == {i \in J : JumpsMayBePatched(S, i)}
           push == [i \in Ids |-> IF i \in J THEN PatchedPush(S, i) ELSE S.push[i]]
           jump == [i \in Ids |-> IF i \in jumps
                     THEN PatchedWith(S.jump[i], Targets(S, i, FALSE)) ELSE S.jump[i]]
           cont == [i \in Ids |-> IF i \in jumps /\ Ends[Start(i)] = "jcc"
                     THEN PatchedWith(S.cont[i], Targets(S, i, TRUE)) ELSE S.cont[i]]
           T == [S EXCEPT !.push = push, !.jump = jump, !.cont = cont]
<1>0. S \in Graph
  BY DEF Good
<1>1. TryPatch(S, I) = SyncTables(T, J)
  BY <1>0 DEF TryPatch, Graph
<1>2. ASSUME NEW i \in Ids
      PROVE  /\ push[i] \in Pointers /\ jump[i] \in Pointers /\ cont[i] \in Pointers
             /\ i \notin S.native => push[i] = S.push[i] /\ jump[i] = S.jump[i] /\ cont[i] = S.cont[i]
             /\ i \in S.native =>
                  /\ jump[i] # Null => /\ FixedDestination(i) /\ jump[i] \in S.native
                                       /\ Start(jump[i]) \in Dests[Start(i)]
                  /\ cont[i] # Null => /\ Ends[Start(i)] = "jcc" /\ cont[i] \in S.native
                                       /\ Start(cont[i]) = After[Start(i)]
                  /\ push[i] # Null => /\ IsCall(i) /\ push[i] \in S.native
                                       /\ Start(push[i]) = After[Start(i)]
  <2>1. /\ S.push[i] \in Pointers /\ S.jump[i] \in Pointers /\ S.cont[i] \in Pointers
        /\ S.native \subseteq Ids
    BY <1>0 DEF Graph
  <2>2. i \in S.native => Patched(S, i)
    BY DEF Good, PatchesExact
  <2>3. /\ i \notin S.native => push[i] = S.push[i]
        /\ i \in S.native => push[i] = S.push[i] \/ push[i] = PatchedPush(S, i)
    OBVIOUS
  <2>4. /\ i \notin S.native => jump[i] = S.jump[i]
        /\ jump[i] = S.jump[i] \/ jump[i] = PatchedWith(S.jump[i], Targets(S, i, FALSE))
    OBVIOUS
  <2>5. /\ i \notin S.native => cont[i] = S.cont[i]
        /\ \/ cont[i] = S.cont[i]
           \/ Ends[Start(i)] = "jcc" /\ cont[i] = PatchedWith(S.cont[i], Targets(S, i, TRUE))
    OBVIOUS
  <2> HIDE DEF push, jump, cont
  <2>6. \A follows \in BOOLEAN : \A j \in Targets(S, i, follows) :
          /\ FixedDestination(i) /\ j \in S.native /\ j \in Ids
          /\ IF follows THEN Start(j) = After[Start(i)] ELSE Start(j) \in Dests[Start(i)]
    BY <2>1, TargetsExact
  <2>7. Targets(S, i, TRUE) \subseteq Ids /\ Targets(S, i, FALSE) \subseteq Ids
    BY <2>6
  <2>8. push[i] \in Pointers /\ (i \in S.native => (push[i] # Null =>
          IsCall(i) /\ push[i] \in S.native /\ Start(push[i]) = After[Start(i)]))
    BY <2>1, <2>2, <2>3, PushExact DEF Patched
  <2>9. jump[i] \in Pointers /\ (jump[i] = S.jump[i] \/ jump[i] \in Targets(S, i, FALSE))
    BY <2>1, <2>4, <2>7, PatchedWithOne
  <2>10. /\ cont[i] \in Pointers
         /\ \/ cont[i] = S.cont[i]
            \/ Ends[Start(i)] = "jcc" /\ cont[i] \in Targets(S, i, TRUE)
    BY <2>1, <2>5, <2>7, PatchedWithOne
  <2>11. i \in S.native => (jump[i] # Null => /\ FixedDestination(i) /\ jump[i] \in S.native
                                              /\ Start(jump[i]) \in Dests[Start(i)])
    BY <2>2, <2>6, <2>9 DEF Patched
  <2>12. i \in S.native => (cont[i] # Null => /\ Ends[Start(i)] = "jcc" /\ cont[i] \in S.native
                                              /\ Start(cont[i]) = After[Start(i)])
    BY <2>2, <2>6, <2>10 DEF Patched
  <2> QED BY <2>3, <2>4, <2>5, <2>8, <2>9, <2>10, <2>11, <2>12
<1>3. /\ T \in Graph /\ T.push = push /\ T.jump = jump /\ T.cont = cont
      /\ SameLinks(S, T) /\ T.native = S.native /\ T.table = S.table
  <2>1. push \in [Ids -> Pointers] /\ jump \in [Ids -> Pointers] /\ cont \in [Ids -> Pointers]
    BY <1>2
  <2> HIDE DEF push, jump, cont
  <2> QED BY <1>0, <2>1 DEF Graph, SameLinks
<1> HIDE DEF push, jump, cont, T
<1>4. PatchesExact(T)
  <2>1. ASSUME NEW i \in S.native
        PROVE  Patched(T, i)
    <3>1. Patched(S, i) /\ i \in Ids
      BY <1>0 DEF Good, PatchesExact, Graph
    <3> QED BY <1>2, <1>3, <3>1 DEF Patched, SameLinks
  <2>2. ASSUME NEW i \in Ids \ S.native, Unpatched(S, i)
        PROVE  Unpatched(T, i)
    BY <1>2, <1>3, <2>2 DEF Unpatched
  <2> QED BY <1>3, <2>1, <2>2 DEF Good, PatchesExact, SameLinks
<1>5. NativeLives(T)
  BY <1>3 DEF Good, NativeLives, SameLinks
<1>6. Good(T)
  BY <1>3, <1>4, <1>5, SameLinksKeep DEF Good
<1>7. Good(SyncTables(T, J)) /\ SameLinks(T, SyncTables(T, J))
      /\ SyncTables(T, J).native = T.native
  BY <1>6, SyncedGood
<1> QED BY <1>1, <1>3, <1>7 DEF SameLinks

(* CompilationQueue::process *)
LEMMA CompiledGood ==
  ASSUME NEW S, Good(S), NEW C \in SUBSET S.alive
  PROVE  LET T == Compile(S, C) IN
         /\ Good(T) /\ SameLinks(S, T) /\ S.native \subseteq T.native
<1> DEFINE made == {i \in C : Start(i) \in Compilable}
           T == [S EXCEPT !.tried = S.tried \cup C, !.native = S.native \cup made]
           I == made \cup {p[2] : p \in {q \in S.pred \cup S.callers : q[1] \in made}}
<1>0. S \in Graph /\ C \subseteq Ids
  BY DEF Good, Graph
<1>1. Compile(S, C) = IF Chaining THEN TryPatch(T, I) ELSE T
  <2>1. T.pred = S.pred /\ T.callers = S.callers
    BY <1>0 DEF Graph
  <2> QED BY <1>0, <2>1 DEF Compile, Graph
<1>2. /\ T \in Graph /\ SameLinks(S, T) /\ T.native = S.native \cup made
      /\ T.table = S.table /\ T.jump = S.jump /\ T.cont = S.cont /\ T.push = S.push
  BY <1>0 DEF Graph, SameLinks
<1>3. \A i \in made : i \in S.alive /\ Start(i) \in Compilable /\ i \in Ids
  BY <1>0
<1> HIDE DEF T, made
<1>4. NativeLives(T)
  BY <1>2, <1>3 DEF Good, NativeLives, SameLinks
<1>5. PatchesExact(T)
  <2>1. ASSUME NEW i \in S.native
        PROVE  Patched(T, i)
    <3>1. Patched(S, i)
      BY DEF Good, PatchesExact
    <3> QED BY <1>2, <3>1 DEF Patched, SameLinks
  <2>2. ASSUME NEW i \in made, i \notin S.native
        PROVE  Patched(T, i)
    <3>1. Unpatched(S, i)
      BY <1>3, <2>2 DEF Good, PatchesExact
    <3> QED BY <1>2, <3>1 DEF Patched, Unpatched
  <2>3. ASSUME NEW i \in Ids \ T.native, i \in T.alive \/ i[2] > T.made[Start(i)]
        PROVE  Unpatched(T, i)
    <3>1. Unpatched(S, i)
      BY <1>2, <2>3 DEF Good, PatchesExact, SameLinks
    <3> QED BY <1>2, <3>1 DEF Unpatched
  <2> QED BY <1>2, <2>1, <2>2, <2>3 DEF PatchesExact
<1>6. Good(T)
  BY <1>2, <1>4, <1>5, SameLinksKeep DEF Good
<1>7. /\ Good(TryPatch(T, I)) /\ SameLinks(T, TryPatch(T, I))
      /\ TryPatch(T, I).native = T.native
  BY <1>6, TryPatchGood
<1> HIDE DEF I
<1> QED BY <1>1, <1>2, <1>6, <1>7 DEF SameLinks

(* FixedDestinationInfo: two slots, filled from the first *)
LEMMA SlotsPut ==
  ASSUME NEW S, Good(S), NEW i \in Ids, FixedDestination(i),
         NEW p \in Pointers, NEW q \in Pointers,
         NEW T, T \in Graph, T.slots = [S.slots EXCEPT ![i] = <<p, q>>],
         S.succ \subseteq T.succ,
         \A k, j \in Ids : <<k, j>> \in T.succ /\ k # i => <<k, j>> \in S.succ,
         SlotExact(T, i, p), SlotExact(T, i, q),
         q # Null => p # Null /\ Start(p) # Start(q),
         \A j \in Ids : <<i, j>> \in T.succ => j = p \/ j = q
  PROVE  SlotsExact(T)
<1>1. /\ T.slots[i][1] = p /\ T.slots[i][2] = q
      /\ \A k \in Ids : k # i => T.slots[k] = S.slots[k]
  BY DEF Good, Graph
<1>2. ASSUME NEW k \in Ids, k # i
      PROVE  /\ SlotExact(T, k, T.slots[k][1]) /\ SlotExact(T, k, T.slots[k][2])
             /\ T.slots[k][2] # Null => /\ T.slots[k][1] # Null
                                        /\ Start(T.slots[k][1]) # Start(T.slots[k][2])
             /\ FixedDestination(k) => \A j \in Ids : <<k, j>> \in T.succ =>
                  j = T.slots[k][1] \/ j = T.slots[k][2]
  <2>1. T.slots[k] = S.slots[k]
    BY <1>1, <1>2
  <2>2. /\ SlotExact(S, k, S.slots[k][1]) /\ SlotExact(S, k, S.slots[k][2])
        /\ S.slots[k][2] # Null => /\ S.slots[k][1] # Null
                                   /\ Start(S.slots[k][1]) # Start(S.slots[k][2])
        /\ FixedDestination(k) => \A j \in Ids : <<k, j>> \in S.succ =>
             j = S.slots[k][1] \/ j = S.slots[k][2]
    BY DEF Good, SlotsExact
  <2> QED BY <1>2, <2>1, <2>2 DEF SlotExact
<1> QED BY <1>1, <1>2 DEF SlotsExact

(* addSuccessor, of a block that findNext has not found *)
LEMMA AddedGood ==
  ASSUME NEW S, Good(S), NEW i \in S.alive, NEW j \in S.alive,
         FindNext(S, i, Start(j)) = {},
         FixedDestination(i) => Start(j) \in Named(i) /\ SlotLeft(S, i)
  PROVE  LET T == AddSuccessor(S, i, j) IN
         Good(T) /\ T.alive = S.alive /\ T.made = S.made /\ T.native = S.native
<1> DEFINE succ == S.succ \cup {<<i, j>>}
           pred == S.pred \cup {<<j, i>>}
           L == [S EXCEPT !.succ = succ, !.pred = pred]
           M == [S EXCEPT !.succ = succ, !.pred = pred, !.chain = S.chain \cup {<<i, j>>}]
           p == S.slots[i][1]
           q == S.slots[i][2]
           slots == [S.slots EXCEPT ![i] = IF p = Null THEN <<j, q>> ELSE <<p, j>>]
           F == [S EXCEPT !.succ = succ, !.pred = pred, !.slots = slots]
<1>0. S \in Graph /\ i \in Ids /\ j \in Ids /\ Start(i) \in Addrs /\ Start(j) \in Addrs
  BY OneLive DEF Good
<1>1. \A k \in Ids : <<i, k>> \in S.succ => Start(k) # Start(j)
  BY <1>0, FindNextExact
<1>2. <<i, j>> \notin S.succ
  BY <1>0, <1>1
<1>3. Inserted(S, S.succ, i, j) = succ
  <2>1. \A p0 \in S.succ : p0 = <<p0[1], p0[2]>> /\ p0[1] \in Ids /\ p0[2] \in Ids
    BY <1>0 DEF Graph, Links
  <2> QED BY <1>1, <2>1 DEF Inserted
<1>4. Inserted(S, S.pred, j, i) = pred
  <2>1. \A p0 \in S.pred : p0 = <<p0[1], p0[2]>> /\ p0[1] \in Ids /\ p0[2] \in Ids
    BY <1>0 DEF Graph, Links
  <2>2. ASSUME NEW k \in Ids, <<j, k>> \in S.pred, Start(k) = Start(i)
        PROVE  FALSE
    <3>1. <<k, j>> \in S.succ /\ k \in S.alive
      BY <1>0, <2>2 DEF Good, LinksExact
    <3>2. k = i
      BY <2>2, <3>1, OneLive
    <3> QED BY <1>2, <3>1, <3>2
  <2> QED BY <2>1, <2>2 DEF Inserted
<1>5. AddSuccessor(S, i, j) = IF FixedDestination(i) THEN F ELSE SyncTables(M, {i})
  <2>1. L.succ = succ /\ L.slots = S.slots /\ L.chain = S.chain
    BY <1>0 DEF Graph
  <2>2. succ # S.succ
    BY <1>2
  <2>3. AddSuccessor(S, i, j) =
          IF FixedDestination(i)
          THEN [L EXCEPT !.slots[i] = IF L.slots[i][1] = Null THEN <<j, L.slots[i][2]>>
                                      ELSE <<L.slots[i][1], j>>]
          ELSE IF L.succ = S.succ THEN L
          ELSE SyncTables([L EXCEPT !.chain = L.chain \cup {<<i, j>>}], {i})
    BY <1>0, <1>3, <1>4 DEF AddSuccessor, Graph
  <2> HIDE DEF succ, pred
  <2>4. [L EXCEPT !.slots[i] = IF L.slots[i][1] = Null THEN <<j, L.slots[i][2]>>
                               ELSE <<L.slots[i][1], j>>] = F
    BY <1>0, <2>1 DEF Graph
  <2>5. [L EXCEPT !.chain = L.chain \cup {<<i, j>>}] = M
    BY <1>0, <2>1 DEF Graph
  <2> QED BY <2>1, <2>2, <2>3, <2>4, <2>5
<1>6. succ \in Links /\ pred \in Links
  BY <1>0 DEF Graph, Links
<1>7. /\ \A k, l \in Ids : <<k, l>> \in succ => k \in S.alive /\ l \in S.alive
      /\ \A k, l \in Ids : <<l, k>> \in pred <=> <<k, l>> \in succ
      /\ \A k, l \in Ids : <<k, l>> \in succ /\ k # i => <<k, l>> \in S.succ
      /\ \A l \in Ids : <<i, l>> \in succ => l = j \/ <<i, l>> \in S.succ
      /\ <<i, j>> \in succ /\ S.succ \subseteq succ
  BY <1>0 DEF Good, LinksExact
<1>8. /\ p \in Pointers /\ q \in Pointers /\ SlotExact(S, i, p) /\ SlotExact(S, i, q)
      /\ q # Null => p # Null /\ Start(p) # Start(q)
      /\ FixedDestination(i) => \A l \in Ids : <<i, l>> \in S.succ => l = p \/ l = q
  BY <1>0 DEF Good, Graph, SlotsExact
<1>9. CASE FixedDestination(i)
  <2>1. q = Null
    <3>1. p = Null \/ q = Null
      BY <1>9 DEF SlotLeft
    <3> QED BY <1>8, <3>1
  <2> DEFINE a == IF p = Null THEN j ELSE p
             b == IF p = Null THEN Null ELSE j
  <2>2. slots = [S.slots EXCEPT ![i] = <<a, b>>]
    BY <2>1
  <2>3. a \in Pointers /\ b \in Pointers
    BY <1>0, <1>8 DEF Pointers
  <2>4. slots \in [Ids -> [1..2 -> Pointers]]
    <3>1. <<a, b>> \in [1..2 -> Pointers]
      BY <2>3
    <3> QED BY <1>0, <2>2, <3>1 DEF Graph
  <2> HIDE DEF succ, pred, slots
  <2>5. /\ F \in Graph /\ F.succ = succ /\ F.pred = pred /\ F.slots = slots
        /\ F.made = S.made /\ F.alive = S.alive /\ F.chain = S.chain
        /\ F.callers = S.callers /\ F.ret = S.ret /\ F.native = S.native
        /\ F.table = S.table /\ F.jump = S.jump /\ F.cont = S.cont /\ F.push = S.push
    BY <1>0, <1>6, <2>4 DEF Graph
  <2> HIDE DEF F
  <2>6. Newest(F) /\ LinksExact(F) /\ ReturnsExact(F) /\ NativeLives(F) /\ PatchesExact(F)
    BY <1>7, <2>5 DEF Good, Newest, LinksExact, ReturnsExact, ReturnsTo, NativeLives,
                      PatchesExact, Patched, Unpatched
  <2>7. SlotExact(F, i, j) /\ SlotExact(F, i, p) /\ SlotExact(F, i, Null)
    BY <1>7, <1>8, <1>9, <2>5 DEF SlotExact
  <2>8. SlotExact(F, i, a) /\ SlotExact(F, i, b)
    BY <2>7
  <2>9. b # Null => a # Null /\ Start(a) # Start(b)
    <3>1. p # Null => p \in Ids /\ <<i, p>> \in S.succ
      BY <1>8 DEF SlotExact, Pointers
    <3> QED BY <1>1, <3>1
  <2>10. \A l \in Ids : <<i, l>> \in F.succ => l = a \/ l = b
    <3>1. Null \notin Ids
      BY SegmentsAssumption
    <3> QED BY <1>7, <1>8, <1>9, <2>1, <2>5, <3>1
  <2>11. /\ S.succ \subseteq F.succ
         /\ \A k, l \in Ids : <<k, l>> \in F.succ /\ k # i => <<k, l>> \in S.succ
         /\ F.slots = [S.slots EXCEPT ![i] = <<a, b>>]
    BY <1>7, <2>2, <2>5
  <2> HIDE DEF a, b
  <2>12. SlotsExact(F)
    BY <1>0, <1>9, <2>3, <2>5, <2>8, <2>9, <2>10, <2>11, SlotsPut
  <2> QED BY <1>5, <1>9, <2>5, <2>6, <2>12 DEF Good
<1>10. CASE ~FixedDestination(i)
  <2>1. S.chain \cup {<<i, j>>} \in Links
    BY <1>0 DEF Graph, Links
  <2> HIDE DEF succ, pred
  <2>2. /\ M \in Graph /\ M.succ = succ /\ M.pred = pred /\ M.slots = S.slots
        /\ M.made = S.made /\ M.alive = S.alive /\ M.chain = S.chain \cup {<<i, j>>}
        /\ M.callers = S.callers /\ M.ret = S.ret /\ M.native = S.native
        /\ M.table = S.table /\ M.jump = S.jump /\ M.cont = S.cont /\ M.push = S.push
    BY <1>0, <1>6, <2>1 DEF Graph
  <2> HIDE DEF M
  <2>3. Newest(M) /\ ReturnsExact(M) /\ NativeLives(M) /\ PatchesExact(M)
    BY <2>2 DEF Good, Newest, ReturnsExact, ReturnsTo, NativeLives,
                PatchesExact, Patched, Unpatched
  <2>4. LinksExact(M)
    BY <1>0, <1>7, <2>2 DEF Good, LinksExact
  <2>5. SlotsExact(M)
    <3>1. ASSUME NEW k \in Ids, NEW x, SlotExact(S, k, x) PROVE SlotExact(M, k, x)
      BY <1>7, <2>2, <3>1 DEF SlotExact
    <3>2. \A k \in Ids : FixedDestination(k) => k # i
      BY <1>10
    <3> QED BY <1>7, <2>2, <3>1, <3>2 DEF Good, SlotsExact
  <2>6. Good(M)
    BY <2>2, <2>3, <2>4, <2>5 DEF Good
  <2>7. /\ Good(SyncTables(M, {i})) /\ SameLinks(M, SyncTables(M, {i}))
        /\ SyncTables(M, {i}).native = M.native
    BY <2>6, SyncedGood
  <2> QED BY <1>5, <1>10, <2>2, <2>7 DEF SameLinks
<1> QED BY <1>9, <1>10

(* findNext of a fixed destination, which may swap its slots *)
LEMMA ReorderedGood ==
  ASSUME NEW S, Good(S), NEW i \in S.alive, NEW a \in Addrs, NEW T \in Reordered(S, i, a)
  PROVE  Good(T) /\ T.alive = S.alive /\ T.made = S.made /\ T.native = S.native
<1>1. CASE T = S
  BY <1>1
<1>2. CASE T # S
  <2> DEFINE p == S.slots[i][1]
             q == S.slots[i][2]
             slots == [S.slots EXCEPT ![i] = <<q, p>>]
  <2>0. S \in Graph /\ i \in Ids
    BY OneLive DEF Good
  <2>1. FixedDestination(i) /\ q \in FindNext(S, i, a) /\ T = [S EXCEPT !.slots = slots]
    BY <1>2, <2>0 DEF Reordered, FindNext, Graph
  <2>2. q # Null
    <3>1. \A j \in FindNext(S, i, a) : j \in Ids
      BY <2>0, FindNextExact
    <3> QED BY <2>1, <3>1, SegmentsAssumption
  <2>3. /\ p \in Pointers /\ q \in Pointers /\ SlotExact(S, i, p) /\ SlotExact(S, i, q)
        /\ p # Null /\ Start(p) # Start(q)
        /\ \A l \in Ids : <<i, l>> \in S.succ => l = p \/ l = q
    BY <2>0, <2>1, <2>2 DEF Good, Graph, SlotsExact
  <2>4. slots \in [Ids -> [1..2 -> Pointers]]
    <3>1. <<q, p>> \in [1..2 -> Pointers]
      BY <2>3
    <3> QED BY <2>0, <3>1 DEF Graph
  <2>5. T.slots = slots
    BY <2>0, <2>1 DEF Graph
  <2>6. T.slots = [S.slots EXCEPT ![i] = <<q, p>>]
    BY <2>5
  <2> HIDE DEF slots
  <2>7. /\ T \in Graph /\ T.succ = S.succ /\ T.pred = S.pred
        /\ T.made = S.made /\ T.alive = S.alive /\ T.chain = S.chain
        /\ T.callers = S.callers /\ T.ret = S.ret /\ T.native = S.native
        /\ T.table = S.table /\ T.jump = S.jump /\ T.cont = S.cont /\ T.push = S.push
    BY <2>0, <2>1, <2>4 DEF Graph
  <2>8. /\ Newest(T) /\ LinksExact(T) /\ ReturnsExact(T) /\ NativeLives(T)
        /\ PatchesExact(T)
    BY <2>7 DEF Good, Newest, LinksExact, ReturnsExact, ReturnsTo, NativeLives,
                PatchesExact, Patched, Unpatched
  <2> HIDE DEF p, q
  <2>9. SlotExact(T, i, p) /\ SlotExact(T, i, q)
    BY <2>3, <2>7 DEF SlotExact
  <2>10. SlotsExact(T)
    <3>1. /\ S.succ \subseteq T.succ
          /\ \A k, l \in Ids : <<k, l>> \in T.succ /\ k # i => <<k, l>> \in S.succ
          /\ \A l \in Ids : <<i, l>> \in T.succ => l = q \/ l = p
          /\ p # Null => q # Null /\ Start(q) # Start(p)
      BY <2>2, <2>3, <2>7
    <3>2. FixedDestination(i) /\ p \in Pointers /\ q \in Pointers /\ T \in Graph
      BY <2>1, <2>3, <2>7
    <3> QED BY <2>0, <2>6, <2>9, <3>1, <3>2, SlotsPut
  <2> QED BY <2>7, <2>8, <2>10 DEF Good
<1> QED BY <1>1, <1>2

(* addReturn, of the block that follows the call *)
LEMMA ReturnAdded ==
  ASSUME NEW S, Good(S), NEW i \in S.alive, NEW j \in S.alive, IsCall(i),
         Start(j) = After[Start(i)]
  PROVE  LET T == AddReturn(S, i, j) IN
         Good(T) /\ T.alive = S.alive /\ T.made = S.made /\ T.native = S.native
<1> DEFINE ret == [S.ret EXCEPT ![i] = j]
           callers == Inserted(S, S.callers, j, i)
           T == AddReturn(S, i, j)
<1>0. S \in Graph /\ i \in Ids /\ j \in Ids
  BY DEF Good, Graph
<1>1. ret \in [Ids -> Pointers] /\ callers \in Links
  BY <1>0 DEF Graph, Links, Pointers, Inserted
<1>2. T = [S EXCEPT !.ret = ret, !.callers = callers]
  BY <1>0 DEF AddReturn, Graph
<1>3. /\ \A k \in Ids : ret[k] = S.ret[k] \/ (k = i /\ ret[k] = j)
      /\ \A k, l \in Ids : <<l, k>> \in callers => <<l, k>> \in S.callers \/ (k = i /\ l = j)
  BY <1>0 DEF Graph, Inserted
<1> HIDE DEF T, ret, callers
<1>4. /\ T \in Graph /\ T.ret = ret /\ T.callers = callers
      /\ T.succ = S.succ /\ T.pred = S.pred /\ T.slots = S.slots
      /\ T.made = S.made /\ T.alive = S.alive /\ T.chain = S.chain
      /\ T.native = S.native
      /\ T.table = S.table /\ T.jump = S.jump /\ T.cont = S.cont /\ T.push = S.push
  BY <1>0, <1>1, <1>2 DEF Graph
<1>5. /\ Newest(T) /\ LinksExact(T) /\ SlotsExact(T) /\ NativeLives(T)
      /\ PatchesExact(T)
  BY <1>4 DEF Good, Newest, LinksExact, SlotsExact, SlotExact, NativeLives,
              PatchesExact, Patched, Unpatched
<1>6. ReturnsExact(T)
  BY <1>3, <1>4 DEF Good, ReturnsExact, ReturnsTo
<1> QED BY <1>4, <1>5, <1>6 DEF Good, T

(* Fixed destinations and returns of a block are in its own mapping. *)
LEMMA SameMapping ==
  ASSUME LinkedAtRunTime, NEW i \in Ids
  PROVE  /\ FixedDestination(i) => \A a \in Named(i) : a \in Library <=> Start(i) \in Library
         /\ FixedDestination(i) => \A a \in Dests[Start(i)] : a \in Library <=> Start(i) \in Library
         /\ IsCall(i) \/ Ends[Start(i)] = "jcc" =>
              (After[Start(i)] \in Library <=> Start(i) \in Library)
<1>1. Start(i) \in Addrs
  BY DEF Ids, Start
<1> QED BY <1>1 DEF LinkedAtRunTime, FixedDestination, IsCall, Named

(* removeFromCaches, of all the blocks of a mapping *)
LEMMA RemovedGood ==
  ASSUME LinkedAtRunTime, NEW S, Good(S),
         NEW D, D = {i \in S.alive : Start(i) \in Library}
  PROVE  LET T == Remove(S, D) IN
         Good(T) /\ T.alive = S.alive \ D /\ T.made = S.made /\ T.native = S.native \ D
<1> DEFINE Gone(i) == {d \in D : <<d, i>> \in S.pred}
           Kept(links, back) == {p \in Without(links, S, D, back) : p[1] \notin D}
           slots == [i \in Ids |-> [k \in 1..2 |->
             IF i \in D \/ S.slots[i][k] \in Gone(i) THEN Null ELSE S.slots[i][k]]]
           ret == [i \in Ids |-> IF i \in D THEN Null ELSE S.ret[i]]
           chain == {p \in S.chain : p[1] \notin D /\ Gone(p[1]) = {}}
           table == ClearedTable(S, D)
           succ == Kept(S.succ, S.pred)
           pred == Kept(S.pred, S.succ)
           callers == Kept(S.callers, S.callers)
           T == [S EXCEPT !.alive = S.alive \ D, !.native = S.native \ D,
             !.slots = slots, !.ret = ret, !.chain = chain, !.table = table,
             !.succ = succ, !.pred = pred, !.callers = callers]
<1>0. S \in Graph /\ D \subseteq Ids /\ Null \notin D
  BY SegmentsAssumption DEF Good, Graph
<1>1. Remove(S, D) = T
  BY <1>0 DEF Remove, Graph
<1>2. \A i \in S.alive : i \in D <=> Start(i) \in Library
  OBVIOUS
<1>3. \A i, d \in Ids : d \in Gone(i) <=> d \in D /\ <<i, d>> \in S.succ
  BY <1>0 DEF Good, LinksExact
<1>4. \A i, j \in Ids : <<i, j>> \in succ <=> <<i, j>> \in S.succ /\ i \notin D /\ j \notin D
  <2>1. ASSUME NEW i \in Ids, NEW j \in Ids, <<i, j>> \in S.succ, NEW d \in D,
               <<d, i>> \in S.pred, Start(d) = Start(j)
        PROVE  d = j
    <3>1. <<i, d>> \in S.succ /\ d \in S.alive /\ j \in S.alive
      BY <1>0, <2>1 DEF Good, LinksExact
    <3> QED BY <2>1, <3>1, OneLive
  <2>2. \A i, j \in Ids : <<i, j>> \in S.succ => <<j, i>> \in S.pred
    BY DEF Good, LinksExact
  <2> QED BY <2>1, <2>2 DEF Without
<1>5. \A i, j \in Ids : <<j, i>> \in pred <=> <<j, i>> \in S.pred /\ i \notin D /\ j \notin D
  <2>1. ASSUME NEW i \in Ids, NEW j \in Ids, <<j, i>> \in S.pred, NEW d \in D,
               <<d, j>> \in S.succ, Start(d) = Start(i)
        PROVE  d = i
    <3>1. <<i, j>> \in S.succ /\ d \in S.alive /\ i \in S.alive
      BY <1>0, <2>1 DEF Good, LinksExact
    <3> QED BY <2>1, <3>1, OneLive
  <2>2. \A i, j \in Ids : <<j, i>> \in S.pred => <<i, j>> \in S.succ
    BY DEF Good, LinksExact
  <2> QED BY <2>1, <2>2 DEF Without
<1>6. \A i, j \in Ids : <<j, i>> \in callers => <<j, i>> \in S.callers /\ j \notin D
  BY DEF Without
<1>7. \A i, j \in Ids : <<i, j>> \in chain <=> <<i, j>> \in S.chain /\ i \notin D /\ Gone(i) = {}
  OBVIOUS
<1>8. \A i, j \in Ids : <<i, j>> \in table <=>
        <<i, j>> \in S.table /\ (i \in S.native => Gone(i) = {})
  BY DEF ClearedTable
<1>9. /\ succ \in Links /\ pred \in Links /\ callers \in Links /\ chain \in Links
      /\ table \in Links
  BY <1>0 DEF Graph, Links, Without, ClearedTable
<1>10. slots \in [Ids -> [1..2 -> Pointers]] /\ ret \in [Ids -> Pointers]
  BY <1>0 DEF Graph, Pointers
<1>11. ASSUME NEW i \in Ids, FixedDestination(i), i \notin D
       PROVE  \A d \in Ids : <<i, d>> \in S.succ => d \notin D
  <2>1. ASSUME NEW d \in Ids, <<i, d>> \in S.succ
        PROVE  d \notin D
    <3>1. i \in S.alive /\ d \in S.alive /\ d # Null
      BY <2>1, SegmentsAssumption DEF Good, LinksExact
    <3>2. SlotExact(S, i, d)
      <4>1. /\ SlotExact(S, i, S.slots[i][1]) /\ SlotExact(S, i, S.slots[i][2])
            /\ d = S.slots[i][1] \/ d = S.slots[i][2]
        BY <1>11, <2>1 DEF Good, SlotsExact
      <4> QED BY <4>1
    <3>3. Start(d) \in Named(i)
      BY <3>1, <3>2 DEF SlotExact
    <3> QED BY <1>2, <1>11, <3>1, <3>3, SameMapping
  <2> QED BY <2>1
<1>12. ASSUME NEW i \in Ids, NEW k \in 1..2
       PROVE  slots[i][k] = IF i \in D THEN Null ELSE S.slots[i][k]
  <2>1. slots[i][k] = IF i \in D \/ S.slots[i][k] \in Gone(i) THEN Null ELSE S.slots[i][k]
    OBVIOUS
  <2> HIDE DEF slots
  <2>2. CASE i \notin D /\ S.slots[i][k] \in Gone(i)
    <3> DEFINE d == S.slots[i][k]
    <3>1. d \in Ids /\ d \in D /\ <<i, d>> \in S.succ
      BY <1>0, <1>3, <2>2
    <3>2. SlotExact(S, i, d)
      <4>1. SlotExact(S, i, S.slots[i][1]) /\ SlotExact(S, i, S.slots[i][2])
        BY DEF Good, SlotsExact
      <4>2. k = 1 \/ k = 2
        OBVIOUS
      <4> QED BY <4>1, <4>2
    <3> HIDE DEF d
    <3>3. FixedDestination(i)
      BY <3>1, <3>2, SegmentsAssumption DEF SlotExact
    <3> QED BY <1>11, <2>2, <3>1, <3>3
  <2> QED BY <2>1, <2>2
<1>13. \A i \in Ids : ret[i] = IF i \in D THEN Null ELSE S.ret[i]
  OBVIOUS
<1> HIDE DEF slots, ret, chain, table, succ, pred, callers, Kept
<1>14. /\ T \in Graph /\ T.alive = S.alive \ D /\ T.native = S.native \ D
       /\ T.slots = slots /\ T.ret = ret /\ T.chain = chain /\ T.table = table
       /\ T.succ = succ /\ T.pred = pred /\ T.callers = callers
       /\ T.made = S.made /\ T.jump = S.jump /\ T.cont = S.cont /\ T.push = S.push
  <2> DEFINE alive == S.alive \ D
             native == S.native \ D
  <2>1. alive \subseteq Ids /\ native \subseteq Ids
    BY <1>0 DEF Graph
  <2> HIDE DEF alive, native
  <2> DEFINE W == [made |-> S.made, alive |-> alive, slots |-> slots, chain |-> chain,
                   succ |-> succ, pred |-> pred, callers |-> callers, ret |-> ret,
                   native |-> native, tried |-> S.tried, jump |-> S.jump,
                   cont |-> S.cont, push |-> S.push, table |-> table]
  <2>4. T = W
    <3> DEFINE R == [made |-> S.made, alive |-> S.alive, slots |-> S.slots,
                     chain |-> S.chain, succ |-> S.succ, pred |-> S.pred,
                     callers |-> S.callers, ret |-> S.ret, native |-> S.native,
                     tried |-> S.tried, jump |-> S.jump, cont |-> S.cont,
                     push |-> S.push, table |-> S.table]
    <3>1. S = R
      BY <1>0 DEF Graph
    <3>2. T = [R EXCEPT
                 !.alive = alive, !.native = native,
                 !.slots = slots, !.ret = ret, !.chain = chain, !.table = table,
                 !.succ = succ, !.pred = pred, !.callers = callers]
      BY <3>1 DEF alive, native
    <3> HIDE DEF T
    <3> QED BY <3>2
  <2>5. /\ S.made \in [Addrs -> 0..MaxMade] /\ S.tried \subseteq Ids
        /\ S.jump \in [Ids -> Pointers] /\ S.cont \in [Ids -> Pointers]
        /\ S.push \in [Ids -> Pointers]
    BY <1>0 DEF Graph
  <2> HIDE DEF T
  <2>2. W \in Graph
    BY <1>9, <1>10, <2>1, <2>5 DEF Graph
  <2>3. /\ T.alive = alive /\ T.native = native
        /\ T.slots = slots /\ T.ret = ret /\ T.chain = chain /\ T.table = table
        /\ T.succ = succ /\ T.pred = pred /\ T.callers = callers
        /\ T.made = S.made /\ T.jump = S.jump /\ T.cont = S.cont /\ T.push = S.push
    BY <2>4
  <2> HIDE DEF W
  <2> QED BY <2>2, <2>3, <2>4 DEF alive, native
<1> HIDE DEF T
<1>15. Newest(T) /\ NativeLives(T)
  BY <1>14 DEF Good, Newest, NativeLives
<1>16. LinksExact(T)
  BY <1>3, <1>4, <1>5, <1>7, <1>14 DEF Good, LinksExact
<1>17. SlotsExact(T)
  <2>1. ASSUME NEW i \in Ids, NEW j \in Pointers, SlotExact(S, i, j), i \notin D
        PROVE  SlotExact(T, i, j)
    BY <1>4, <1>11, <1>14, <2>1 DEF SlotExact, Pointers
  <2>2. \A i \in Ids : SlotExact(T, i, Null)
    BY DEF SlotExact
  <2>3. \A i, j \in Ids : <<i, j>> \in T.succ => <<i, j>> \in S.succ /\ i \notin D
    BY <1>4, <1>14
  <2>4. ASSUME NEW i \in Ids
        PROVE  /\ T.slots[i][1] = IF i \in D THEN Null ELSE S.slots[i][1]
               /\ T.slots[i][2] = IF i \in D THEN Null ELSE S.slots[i][2]
               /\ S.slots[i][1] \in Pointers /\ S.slots[i][2] \in Pointers
    BY <1>0, <1>12, <1>14 DEF Graph
  <2> QED BY <2>1, <2>2, <2>3, <2>4 DEF Good, SlotsExact
<1>18. ReturnsExact(T)
  <2>1. ASSUME NEW i \in Ids, NEW j, ReturnsTo(S, i, j), i \notin D \/ j \notin D
        PROVE  ReturnsTo(T, i, j)
    <3>1. i \in S.alive /\ j \in S.alive /\ (Start(j) \in Library <=> Start(i) \in Library)
      BY <2>1, SameMapping DEF ReturnsTo
    <3>2. i \notin D /\ j \notin D
      BY <1>2, <2>1, <3>1
    <3> QED BY <1>14, <2>1, <3>1, <3>2 DEF ReturnsTo
  <2> QED BY <1>6, <1>13, <1>14, <2>1 DEF Good, ReturnsExact
<1>19. PatchesExact(T)
  <2>1. ASSUME NEW i \in T.native
        PROVE  Patched(T, i)
    <3>1. i \in Ids /\ i \notin D /\ i \in S.alive /\ i \in S.native /\ Patched(S, i)
      BY <1>0, <1>14 DEF Good, PatchesExact, NativeLives, Graph
    <3>2. ASSUME NEW j \in S.native, Start(j) \in Library <=> Start(i) \in Library
          PROVE  j \in T.native
      BY <1>2, <1>14, <3>1, <3>2 DEF Good, NativeLives
    <3>3. ASSUME NEW j \in Ids, <<i, j>> \in T.table
          PROVE  <<i, j>> \in T.chain /\ j \in T.native
      <4>1. <<i, j>> \in S.table /\ Gone(i) = {}
        BY <1>8, <1>14, <3>1, <3>3
      <4>2. <<i, j>> \in S.chain /\ j \in S.native /\ <<i, j>> \in S.succ
        BY <3>1, <4>1 DEF Patched, Good, LinksExact
      <4> QED BY <1>3, <1>7, <1>14, <3>1, <4>1, <4>2
    <3>4. T.jump[i] # Null => /\ FixedDestination(i) /\ T.jump[i] \in T.native
                              /\ Start(T.jump[i]) \in Dests[Start(i)]
      BY <1>14, <3>1, <3>2, SameMapping DEF Patched
    <3>5. T.cont[i] # Null => /\ Ends[Start(i)] = "jcc" /\ T.cont[i] \in T.native
                              /\ Start(T.cont[i]) = After[Start(i)]
      BY <1>14, <3>1, <3>2, SameMapping DEF Patched
    <3>6. T.push[i] # Null => /\ IsCall(i) /\ T.push[i] \in T.native
                              /\ Start(T.push[i]) = After[Start(i)]
      BY <1>14, <3>1, <3>2, SameMapping DEF Patched
    <3> QED BY <3>3, <3>4, <3>5, <3>6 DEF Patched
  <2>2. ASSUME NEW i \in Ids \ T.native, i \in T.alive \/ i[2] > T.made[Start(i)]
        PROVE  Unpatched(T, i)
    <3>1. i \notin S.native
      <4>1. i \in D => i \in S.alive /\ i[2] = S.made[Start(i)]
        BY DEF Good, Newest
      <4>2. i \in D => S.made[Start(i)] \in Nat
        BY <1>0, SegmentsAssumption DEF Graph, Ids, Start
      <4> QED BY <1>14, <2>2, <4>1, <4>2
    <3>2. Unpatched(S, i)
      BY <1>14, <2>2, <3>1 DEF Good, PatchesExact
    <3> QED BY <1>8, <1>14, <3>2 DEF Unpatched
  <2> QED BY <2>1, <2>2 DEF PatchesExact
<1> QED BY <1>1, <1>14, <1>15, <1>16, <1>17, <1>18, <1>19 DEF Good

-----------------------------------------------------------------------------
(* The loop.                                                               *)

LEMMA GrowsFacts ==
  ASSUME NEW S, NEW T, NEW U
  PROVE  /\ Grows(S, T) /\ Grows(T, U) => Grows(S, U)
         /\ S.alive = T.alive /\ S.made = T.made /\ S.native \subseteq T.native => Grows(S, T)
         /\ SameLinks(S, T) /\ S.native \subseteq T.native => Grows(S, T)
<1>1. Grows(S, T) /\ Grows(T, U) => Grows(S, U)
  BY DEF Grows
<1>2. S.alive = T.alive /\ S.made = T.made /\ S.native \subseteq T.native => Grows(S, T)
  BY DEF Grows, CanGet, Known
<1> QED BY <1>1, <1>2 DEF SameLinks

(* verify(foundSlot) of addSuccessor: a jump has as many slots as          *)
(* destinations.                                                           *)
LEMMA SlotIsLeft ==
  ASSUME LinkedAtRunTime, NEW S, Good(S), NEW i \in S.alive, FixedDestination(i),
         NEW a \in Named(i), FindNext(S, i, a) = {}
  PROVE  SlotLeft(S, i)
<1> DEFINE p == S.slots[i][1]
           q == S.slots[i][2]
<1>1. i \in Ids /\ Start(i) \in Addrs
  BY OneLive
<1>2. a \in Addrs
  BY <1>1, ProgramAssumption DEF Named
<1>3. \A j \in Ids : <<i, j>> \in S.succ => Start(j) # a
  BY <1>1, <1>2, FindNextExact
<1>4. \A d, e, f \in Named(i) : d = e \/ d = f \/ e = f
  BY <1>1 DEF LinkedAtRunTime, FixedDestination, Named
<1>5. SlotExact(S, i, p) /\ SlotExact(S, i, q) /\ (q # Null => p # Null /\ Start(p) # Start(q))
      /\ p \in Pointers /\ q \in Pointers
  BY <1>1 DEF Good, SlotsExact, Graph
<1> SUFFICES ASSUME p # Null, q # Null PROVE FALSE
  BY DEF SlotLeft
<1> HIDE DEF p, q
<1>6. /\ p \in Ids /\ q \in Ids /\ <<i, p>> \in S.succ /\ <<i, q>> \in S.succ
      /\ Start(p) \in Named(i) /\ Start(q) \in Named(i)
  BY <1>5 DEF SlotExact, Pointers
<1> QED BY <1>3, <1>4, <1>5, <1>6

(* The block of the next address is found, or made and linked. *)
LEMMA LinkedGood ==
  ASSUME LinkedAtRunTime, NEW S, Good(S), NEW i \in S.alive, NEW a \in Addrs,
         FixedDestination(i) => a \in Named(i), CanGet(S, a), NEW T \in Linked(S, i, a)
  PROVE  /\ Good(T) /\ Grows(S, T)
         /\ Destination(S, i, a) \in T.alive /\ Start(Destination(S, i, a)) = a
<1>0. i \in Ids
  BY OneLive
<1>1. CASE FindNext(S, i, a) # {}
  <2>1. PICK j \in FindNext(S, i, a) : j = Destination(S, i, a)
    BY <1>1 DEF Destination
  <2>2. j \in Ids /\ <<i, j>> \in S.succ /\ Start(j) = a
    BY <1>0, FindNextExact
  <2>3. j \in S.alive
    BY <1>0, <2>2 DEF Good, LinksExact
  <2>4. T \in Reordered(S, i, a)
    BY <1>1 DEF Linked
  <2>5. Good(T) /\ T.alive = S.alive /\ T.made = S.made /\ T.native = S.native
    BY <2>4, ReorderedGood
  <2>6. Grows(S, T)
    BY <2>5, GrowsFacts
  <2> QED BY <2>1, <2>2, <2>3, <2>5, <2>6
<1>2. CASE FindNext(S, i, a) = {}
  <2> DEFINE F == Fetched(S, a)
             j == At(F, a)
  <2>1. T = AddSuccessor(F, i, j) /\ Destination(S, i, a) = j
    BY <1>2 DEF Linked, Destination
  <2>2. Good(F) /\ Grows(S, F) /\ j \in F.alive /\ Start(j) = a
        /\ F.succ = S.succ /\ F.slots = S.slots
    BY FetchedGood
  <2> HIDE DEF j, F
  <2>3. FindNext(F, i, Start(j)) = {}
    <3>1. ASSUME NEW k \in FindNext(F, i, a) PROVE FALSE
      <4>1. k \in Ids /\ <<i, k>> \in F.succ /\ Start(k) = a
        BY <1>0, <2>2, FindNextExact
      <4> QED BY <1>0, <1>2, <2>2, <4>1, FindNextExact
    <3> QED BY <2>2, <3>1
  <2>4. FixedDestination(i) => SlotLeft(F, i)
    <3>1. FixedDestination(i) => SlotLeft(S, i)
      BY <1>2, SlotIsLeft
    <3> QED BY <2>2, <3>1 DEF SlotLeft
  <2>5. i \in F.alive
    BY <2>2 DEF Grows
  <2>6. Good(T) /\ T.alive = F.alive /\ T.made = F.made /\ T.native = F.native
    BY <2>1, <2>2, <2>3, <2>4, <2>5, AddedGood
  <2>7. Grows(F, T)
    BY <2>6, GrowsFacts
  <2>8. Grows(S, T)
    BY <2>2, <2>7, GrowsFacts
  <2> QED BY <2>1, <2>2, <2>6, <2>8
<1> QED BY <1>1, <1>2

LEMMA JumpPatchedGood ==
  ASSUME NEW S, Good(S), NEW i, NEW a
  PROVE  LET T == JumpPatched(S, i, a) IN Good(T) /\ Grows(S, T)
<1>1. Good(TryPatch(S, {i})) /\ Grows(S, TryPatch(S, {i}))
  BY TryPatchGood, GrowsFacts
<1>2. Grows(S, S)
  BY GrowsFacts
<1> QED BY <1>1, <1>2 DEF JumpPatched

(* the block that a call returns to is fetched with it *)
LEMMA ReturnPatchedGood ==
  ASSUME NEW S, Good(S), NEW i \in S.alive, IsCall(i) => CanGet(S, After[Start(i)])
  PROVE  LET T == ReturnPatched(S, i) IN Good(T) /\ Grows(S, T)
<1> DEFINE after == After[Start(i)]
           F == Fetched(S, after)
           j == At(F, after)
           R == AddReturn(F, i, j)
<1>1. CASE ~IsCall(i)
  BY <1>1, GrowsFacts DEF ReturnPatched
<1>2. CASE IsCall(i)
  <2>1. after \in Addrs /\ CanGet(S, after)
    BY <1>2, OneLive, ProgramAssumption
  <2>2. Good(F) /\ Grows(S, F) /\ j \in F.alive /\ Start(j) = After[Start(i)]
    BY <2>1, FetchedGood
  <2>3. i \in F.alive
    BY <2>2 DEF Grows
  <2>4. ReturnPatched(S, i) = IF CallChaining THEN TryPatch(R, {i}) ELSE F
    BY <1>2 DEF ReturnPatched
  <2> HIDE DEF F, j
  <2>5. Good(R) /\ R.alive = F.alive /\ R.made = F.made /\ R.native = F.native
    BY <1>2, <2>2, <2>3, ReturnAdded
  <2>6. Grows(F, R)
    BY <2>5, GrowsFacts
  <2> HIDE DEF R
  <2>7. /\ Good(TryPatch(R, {i})) /\ SameLinks(R, TryPatch(R, {i}))
        /\ TryPatch(R, {i}).native = R.native
    BY <2>5, TryPatchGood
  <2>8. Grows(R, TryPatch(R, {i}))
    BY <2>7, GrowsFacts
  <2>9. Grows(S, R)
    BY <2>2, <2>6, GrowsFacts
  <2>10. Grows(S, TryPatch(R, {i}))
    BY <2>8, <2>9, GrowsFacts
  <2> QED BY <2>2, <2>4, <2>7, <2>10
<1> QED BY <1>1, <1>2

(* verify(!ret || ret == other) of addReturn *)
LEMMA ReturnHolds ==
  ASSUME NEW S, Good(S), NEW i \in S.alive, IsCall(i) => CanGet(S, After[Start(i)])
  PROVE  ~ReturnFails(S, i)
<1> DEFINE after == After[Start(i)]
           F == Fetched(S, after)
<1> SUFFICES ASSUME IsCall(i), S.ret[i] # Null
             PROVE  S.ret[i] = At(F, after)
  BY DEF ReturnFails
<1>1. after \in Addrs /\ CanGet(S, after) /\ i \in Ids
  BY OneLive, ProgramAssumption
<1>2. S.ret[i] \in S.alive /\ Start(S.ret[i]) = after
  BY <1>1 DEF Good, ReturnsExact, ReturnsTo
<1>3. Good(F) /\ Grows(S, F)
  BY <1>1, FetchedGood
<1>4. S.ret[i] \in F.alive
  BY <1>2, <1>3 DEF Grows
<1> HIDE DEF F
<1> QED BY <1>2, <1>3, <1>4, OneLive

LEMMA LandGood ==
  ASSUME LinkedAtRunTime, NEW t, NEW S, Good(S), NEW i \in S.alive, NEW a \in Addrs,
         FixedDestination(i) => a \in Named(i), NEW jit, Land(t, S, i, a, jit)
  PROVE  Landed(t, S, a, jit)
<1>1. CanGet(S, a) /\ (IsCall(i) => CanGet(S, After[Start(i)]))
  BY DEF Land, CanFetch, CanGet, Visits
<1>2. ~SlotFails(S, i, a)
  BY SlotIsLeft DEF SlotFails
<1>3. ~ReturnFails(S, i)
  BY <1>1, ReturnHolds
<1>4. failed' = failed
  BY <1>2, <1>3 DEF Land
<1>5. /\ \E T \in Linked(S, i, a) : seg' = ReturnPatched(JumpPatched(T, i, a), i)
      /\ vm' = Slice("loop", t, Destination(S, i, a), jit)
  BY <1>4 DEF Land, Slice
<1>6. PICK T \in Linked(S, i, a) : seg' = ReturnPatched(JumpPatched(T, i, a), i)
  BY <1>5
<1> DEFINE J == JumpPatched(T, i, a)
<1>7. /\ Good(T) /\ Grows(S, T)
      /\ Destination(S, i, a) \in T.alive /\ Start(Destination(S, i, a)) = a
  BY <1>1, LinkedGood
<1>8. Good(J) /\ Grows(T, J)
  BY <1>7, JumpPatchedGood
<1> HIDE DEF J
<1>9. Grows(S, J)
  BY <1>7, <1>8, GrowsFacts
<1>10. i \in J.alive /\ (IsCall(i) => CanGet(J, After[Start(i)]))
  <2>1. Start(i) \in Addrs /\ After[Start(i)] \in Addrs
    BY OneLive, ProgramAssumption
  <2> QED BY <1>1, <1>9, <2>1 DEF Grows
<1>11. Good(seg') /\ Grows(J, seg')
  <2>1. seg' = ReturnPatched(J, i)
    BY <1>6 DEF J
  <2> QED BY <1>8, <1>10, <2>1, ReturnPatchedGood
<1>12. Grows(S, seg') /\ Grows(T, seg')
  BY <1>8, <1>9, <1>11, GrowsFacts
<1> QED BY <1>4, <1>5, <1>7, <1>11, <1>12 DEF Grows, Landed

-----------------------------------------------------------------------------
(* The steps of the program.                                               *)

LEMMA OutcomesExact ==
  ASSUME NEW a \in Addrs, NEW s \in Seq(Addrs), NEW o \in Outcomes(a, s)
  PROVE  /\ o[1] \in Addrs /\ o[2] \in Seq(Addrs)
         /\ Ends[a] \in {"jmp", "ijmp"} => o[1] \in Dests[a] /\ o[2] = s
         /\ Ends[a] = "jcc" => o[1] \in Dests[a] \cup {After[a]} /\ o[2] = s
         /\ Ends[a] \in {"call", "icall"} => o[1] \in Dests[a] /\ o[2] = Append(s, After[a])
         /\ Ends[a] = "syscall" => o[2] = s
         /\ Ends[a] = "ret" => s # <<>> /\ o[1] = s[Len(s)] /\ o[2] = Front(s)
         /\ Ends[a] = "longjmp" => Len(o[2]) <= Len(s)
<1>0. Ends[a] \in EndsWith /\ Dests[a] \subseteq Addrs /\ After[a] \in Addrs
  BY ProgramAssumption
<1>1. CASE Ends[a] \in {"jmp", "ijmp"}
  BY <1>0, <1>1 DEF Outcomes
<1>2. CASE Ends[a] = "jcc"
  BY <1>0, <1>2 DEF Outcomes
<1>3. CASE Ends[a] \in {"call", "icall"}
  <2>1. \E d \in Dests[a] : o = <<d, Append(s, After[a])>>
    BY <1>3 DEF Outcomes
  <2> QED BY <1>0, <1>3, <2>1
<1>4. CASE Ends[a] = "syscall"
  BY <1>0, <1>4 DEF Outcomes
<1>5. CASE Ends[a] = "ret"
  <2>1. s # <<>> /\ o = <<s[Len(s)], Front(s)>>
    BY <1>5 DEF Outcomes, Front
  <2>2. Len(s) > 0 /\ Len(s) \in 1..Len(s)
    BY <2>1
  <2>3. Front(s) \in Seq(Addrs) /\ s[Len(s)] \in Addrs
    BY <2>2, FrontFacts
  <2> QED BY <1>5, <2>1, <2>3
<1>6. CASE Ends[a] = "longjmp"
  <2>1. PICK k \in 1..Len(s) : o = <<s[k], SubSeq(s, 1, k - 1)>>
    BY <1>6 DEF Outcomes
  <2>2. k - 1 \in Nat /\ k - 1 <= Len(s) /\ s[k] \in Addrs
    OBVIOUS
  <2>3. SubSeq(s, 1, k - 1) \in Seq(Addrs) /\ Len(SubSeq(s, 1, k - 1)) = k - 1
    BY <2>2
  <2> QED BY <1>6, <2>1, <2>2, <2>3
<1> QED BY <1>0, <1>1, <1>2, <1>3, <1>4, <1>5, <1>6 DEF EndsWith

(* The native stack is pushed and popped with the frames, whoever does it. *)
LEMMA NativeStackTracks ==
  ASSUME NEW N, NEW i \in Ids, NEW s \in Seq(Addrs), NEW o \in Outcomes(Start(i), s),
         vm.jit \in Seq(Pointers), Tracks(N, vm.jit, s), NEW e \in Pointers,
         IsCall(i) /\ e # Null => e \in N /\ Start(e) = After[Start(i)]
  PROVE  /\ NativeStack(i, e) \in Seq(Pointers)
         /\ Tracks(N, NativeStack(i, e), o[2])
<1> DEFINE a == Start(i)
           jit == vm.jit
<1>0. a \in Addrs /\ Ends[a] \in EndsWith /\ After[a] \in Addrs
  BY ProgramAssumption DEF Ids, Start
<1>1. CASE IsCall(i)
  <2>1. NativeStack(i, e) = Append(jit, e) /\ o[2] = Append(s, After[a])
    BY <1>0, <1>1, OutcomesExact DEF NativeStack, IsCall
  <2>2. Append(jit, e) \in Seq(Pointers)
    OBVIOUS
  <2> QED BY <1>0, <1>1, <2>1, <2>2, TracksCall
<1>2. CASE Ends[a] = "ret"
  <2>1. NativeStack(i, e) = Front(jit) /\ o[2] = Front(s) /\ s # <<>>
    BY <1>0, <1>2, OutcomesExact DEF NativeStack, IsCall
  <2>2. Len(jit) > 0
    BY <2>1 DEF Tracks
  <2>3. Front(jit) \in Seq(Pointers)
    BY <2>2, FrontFacts
  <2> QED BY <2>1, <2>3, TracksReturn
<1>3. CASE Ends[a] = "longjmp"
  <2>1. NativeStack(i, e) = Nulls(jit) /\ o[2] \in Seq(Addrs) /\ Len(o[2]) <= Len(s)
    BY <1>0, <1>3, OutcomesExact DEF NativeStack, IsCall
  <2>2. Len(o[2]) <= Len(jit)
    BY <2>1 DEF Tracks
  <2> QED BY <2>1, <2>2, TracksNulls
<1>4. CASE ~IsCall(i) /\ Ends[a] \notin {"ret", "longjmp"}
  BY <1>0, <1>4, OutcomesExact DEF NativeStack, IsCall, EndsWith
<1> QED BY <1>1, <1>2, <1>3, <1>4

(* A jump, a table entry or an entry of the native stack that native code  *)
(* follows leads to native code of the address its thread is going to.     *)
LEMMA ChainedExact ==
  ASSUME LinkedAtRunTime, Good(seg), NEW i \in seg.native, NEW s \in Seq(Addrs),
         vm.jit \in Seq(Pointers), Tracks(seg.native, vm.jit, s),
         NEW o \in Outcomes(Start(i), s), NEW target \in Chained(i, o[1]), target # Null
  PROVE  target \in seg.native /\ Start(target) = o[1]
<1> DEFINE a == Start(i)
<1>0. /\ i \in Ids /\ a \in Addrs /\ Patched(seg, i)
      /\ Ends[a] \in {"jmp", "jcc", "call", "icall", "ijmp", "ret"}
  <2>1. i \in seg.alive /\ a \in Compilable /\ Patched(seg, i)
    BY DEF Good, NativeLives, PatchesExact
  <2> QED BY <2>1, OneLive, ProgramAssumption, SegmentsAssumption DEF EndsWith
<1>1. CASE Ends[a] \in {"jmp", "call"}
  <2>1. target = seg.jump[i]
    BY <1>1 DEF Chained
  <2>2. o[1] \in Dests[a]
    BY <1>0, <1>1, OutcomesExact
  <2>3. \A d, f \in Dests[a] : d = f
    BY <1>0, <1>1 DEF LinkedAtRunTime
  <2> QED BY <1>0, <2>1, <2>2, <2>3 DEF Patched
<1>2. CASE Ends[a] = "jcc"
  <2>1. \/ target = seg.jump[i] /\ o[1] \in Dests[a]
        \/ target = seg.cont[i] /\ o[1] = After[a]
    BY <1>2 DEF Chained
  <2>2. \A d, f \in Dests[a] : d = f
    BY <1>0, <1>2 DEF LinkedAtRunTime
  <2> QED BY <1>0, <2>1, <2>2 DEF Patched
<1>3. CASE Ends[a] \in {"icall", "ijmp"}
  <2>1. PICK p \in seg.table : p[1] = i /\ Start(p[2]) = o[1] /\ target = p[2]
    BY <1>3 DEF Chained
  <2>2. p = <<i, target>> /\ target \in Ids
    BY <2>1 DEF Good, Graph, Links
  <2> QED BY <1>0, <2>1, <2>2 DEF Patched
<1>4. CASE Ends[a] = "ret"
  <2>1. target = vm.jit[Len(vm.jit)] /\ s # <<>> /\ o[1] = s[Len(s)]
    BY <1>0, <1>4, OutcomesExact DEF Chained
  <2>2. Len(s) > 0 /\ Len(vm.jit) > 0 /\ 0 \in 0..Len(vm.jit) - 1
    BY <2>1 DEF Tracks
  <2>3. Entry(seg.native, vm.jit[Len(vm.jit) - 0], 0, s)
    BY <2>2 DEF Tracks
  <2>4. Len(vm.jit) - 0 = Len(vm.jit) /\ Len(s) - 0 = Len(s)
    OBVIOUS
  <2> QED BY <2>1, <2>3, <2>4 DEF Entry
<1> QED BY <1>0, <1>1, <1>2, <1>3, <1>4

(* where a block sends its thread is named by it, if it is fixed *)
LEMMA OutcomeNamed ==
  ASSUME NEW i \in Ids, NEW s \in Seq(Addrs), NEW o \in Outcomes(Start(i), s),
         FixedDestination(i)
  PROVE  o[1] \in Named(i)
<1>1. Start(i) \in Addrs
  BY DEF Ids, Start
<1> QED BY <1>1, OutcomesExact DEF FixedDestination, Named

LEMMA InitInvariant == Init => IInv
<1> SUFFICES ASSUME Init PROVE IInv
  OBVIOUS
<1>1. /\ seg.alive = {} /\ seg.native = {} /\ seg.chain = {} /\ seg.succ = {}
      /\ seg.pred = {} /\ seg.callers = {} /\ seg.table = {} /\ seg.tried = {}
      /\ seg.made = [a \in Addrs |-> 0] /\ seg.slots = [i \in Ids |-> <<Null, Null>>]
      /\ seg.ret = [i \in Ids |-> Null] /\ seg.jump = [i \in Ids |-> Null]
      /\ seg.cont = [i \in Ids |-> Null] /\ seg.push = [i \in Ids |-> Null]
  BY DEF Init, NoSegment
<1>2. seg \in Graph
  <2>1. <<Null, Null>> \in [1..2 -> Pointers] /\ Null \in Pointers
    BY DEF Pointers
  <2>2. 0 \in 0..MaxMade
    BY SegmentsAssumption
  <2>3. seg.slots \in [Ids -> [1..2 -> Pointers]] /\ seg.made \in [Addrs -> 0..MaxMade]
        /\ seg.ret \in [Ids -> Pointers]
    BY <1>1, <2>1, <2>2
  <2>4. seg = NoSegment
    BY DEF Init
  <2> QED BY <1>1, <2>3, <2>4 DEF NoSegment, Graph, Links
<1>3. Newest(seg) /\ LinksExact(seg) /\ NativeLives(seg)
  BY <1>1 DEF Newest, LinksExact, NativeLives
<1>4. SlotsExact(seg) /\ ReturnsExact(seg) /\ PatchesExact(seg)
  BY <1>1 DEF SlotsExact, SlotExact, ReturnsExact, PatchesExact, Unpatched
<1>5. Typed
  <2>1. rip \in [Threads -> Addrs \cup {Absent}] /\ frames \in [Threads -> Seq(Addrs)]
    BY ProgramAssumption DEF Init, GuestInit
  <2>2. vm = [mode |-> "idle", thread |-> Absent, cur |-> Null, jit |-> <<>>]
    BY DEF Init, Idle
  <2>3. <<>> \in Seq(Pointers) /\ Null \in Pointers
    BY DEF Pointers
  <2>4. saved \in [Threads -> Seq(Pointers)] /\ asks \in [Threads -> BOOLEAN]
    BY <2>3 DEF Init
  <2> QED BY <2>1, <2>2, <2>3, <2>4 DEF Typed
<1>6. AtItsBlock
  BY DEF Init, Idle, AtItsBlock
<1>7. OnCourse
  <2>1. \A t \in Threads : StackOf(t) = <<>> /\ frames[t] = <<>>
    BY DEF Init, Idle, StackOf, GuestInit
  <2>2. Tracks(seg.native, <<>>, <<>>)
    BY DEF Tracks
  <2> QED BY <2>1, <2>2 DEF OnCourse
<1> QED BY <1>2, <1>3, <1>4, <1>5, <1>6, <1>7 DEF IInv, Good, Init

(* A step of the thread of the slice, to a live block of its new address. *)
LEMMA MovedGood ==
  ASSUME IInv, NEW t \in Threads, vm.mode # "idle", vm.thread = t,
         NEW o, o[1] \in Addrs, o[2] \in Seq(Addrs), Goes(t, o),
         Good(seg'), seg.native \subseteq seg'.native,
         NEW j \in seg'.alive, Start(j) = o[1],
         NEW mode \in {"loop", "native"}, mode = "native" => j \in seg'.native,
         NEW jit \in Seq(Pointers), Tracks(seg.native, jit, o[2]),
         vm' = Slice(mode, t, j, jit),
         UNCHANGED saved, asks' \in [Threads -> BOOLEAN], failed' = failed
  PROVE  IInv'
<1>0. Typed /\ j \in Pointers
  BY OneLive DEF IInv, Pointers
<1>1. /\ rip'[t] = o[1] /\ frames'[t] = o[2]
      /\ \A u \in Threads : u # t => rip'[u] = rip[u] /\ frames'[u] = frames[u]
      /\ rip' \in [Threads -> Addrs \cup {Absent}] /\ frames' \in [Threads -> Seq(Addrs)]
  BY <1>0 DEF Goes, Typed
<1>2. /\ vm'.mode = mode /\ vm'.thread = t /\ vm'.cur = j /\ vm'.jit = jit
      /\ vm' \in [mode : {"idle", "loop", "native"}, thread : Threads \cup {Absent},
                  cur : Pointers, jit : Seq(Pointers)]
  BY <1>0 DEF Slice
<1>3. Typed'
  BY <1>0, <1>1, <1>2 DEF Typed
<1>4. AtItsBlock'
  BY <1>1, <1>2 DEF AtItsBlock
<1>5. OnCourse'
  <2>1. ASSUME NEW u \in Threads, rip'[u] = Absent PROVE frames'[u] = <<>>
    BY <1>1, <2>1, ProgramAssumption DEF IInv, OnCourse
  <2>2. Tracks(seg'.native, StackOf(t)', frames'[t])
    <3>1. StackOf(t)' = jit
      BY <1>2 DEF StackOf
    <3> QED BY <1>1, <3>1, TracksMore
  <2>3. ASSUME NEW u \in Threads, u # t
        PROVE  Tracks(seg'.native, StackOf(u)', frames'[u])
    <3>1. StackOf(u)' = saved[u] /\ StackOf(u) = saved[u]
      BY <1>2, <2>3 DEF StackOf
    <3>2. Tracks(seg.native, saved[u], frames[u])
      BY <3>1 DEF IInv, OnCourse
    <3>3. saved[u] \in Seq(Pointers) /\ frames[u] \in Seq(Addrs)
      BY <1>0 DEF Typed
    <3> QED BY <1>1, <2>3, <3>1, <3>2, <3>3, TracksMore
  <2> QED BY <2>1, <2>2, <2>3 DEF OnCourse
<1> QED BY <1>3, <1>4, <1>5 DEF IInv

(* A step that moves no thread. *)
LEMMA StaysOnCourse ==
  ASSUME IInv, Typed', AtItsBlock', Good(seg'), seg.native \subseteq seg'.native,
         UNCHANGED <<rip, frames, failed>>,
         \A t \in Threads : StackOf(t)' = StackOf(t)
  PROVE  IInv'
<1>1. \A t \in Threads : StackOf(t) \in Seq(Pointers) /\ frames[t] \in Seq(Addrs)
  BY DEF IInv, Typed, StackOf
<1>2. \A t \in Threads : Tracks(seg'.native, StackOf(t), frames[t])
  BY <1>1, TracksMore DEF IInv, OnCourse
<1>3. OnCourse'
  BY <1>2 DEF IInv, OnCourse
<1> QED BY <1>3 DEF IInv

LEMMA BeginStep ==
  ASSUME IInv, NEW t \in Threads, Begin(t)
  PROVE  IInv'
<1> DEFINE j == At(seg', rip[t])
<1>0. Typed /\ Good(seg) /\ rip[t] \in Addrs /\ saved[t] \in Seq(Pointers)
  BY DEF IInv, Typed, Begin
<1>1. /\ vm.mode = "idle" /\ CanGet(seg, rip[t]) /\ seg' = Fetched(seg, rip[t])
      /\ UNCHANGED <<rip, frames, saved, asks, failed>>
      /\ vm' = [mode |-> "loop", thread |-> t, cur |-> j, jit |-> saved[t]]
  BY DEF Begin, CanFetch, CanGet
<1>2. Good(seg') /\ Grows(seg, seg') /\ j \in seg'.alive /\ Start(j) = rip[t]
  BY <1>0, <1>1, FetchedGood
<1>3. j \in Pointers
  BY <1>2, OneLive DEF Pointers
<1> HIDE DEF j
<1>4. /\ vm'.mode = "loop" /\ vm'.thread = t /\ vm'.cur = j /\ vm'.jit = saved[t]
      /\ vm' \in [mode : {"idle", "loop", "native"}, thread : Threads \cup {Absent},
                  cur : Pointers, jit : Seq(Pointers)]
  BY <1>0, <1>1, <1>3
<1>5. Typed' /\ AtItsBlock'
  BY <1>0, <1>1, <1>2, <1>4 DEF Typed, AtItsBlock
<1>6. \A u \in Threads : StackOf(u)' = StackOf(u)
  BY <1>1, <1>4 DEF StackOf
<1> QED BY <1>1, <1>2, <1>5, <1>6, StaysOnCourse DEF Grows

LEMMA EndStep ==
  ASSUME IInv, NEW t \in Threads, End(t)
  PROVE  IInv'
<1>0. Typed
  BY DEF IInv
<1>1. /\ vm.mode = "loop" /\ vm.thread = t /\ saved' = [saved EXCEPT ![t] = vm.jit]
      /\ UNCHANGED <<rip, frames, seg, asks, failed>>
      /\ vm'.mode = "idle"
      /\ vm' \in [mode : {"idle", "loop", "native"}, thread : Threads \cup {Absent},
                  cur : Pointers, jit : Seq(Pointers)]
  BY <1>0 DEF End, Typed, Pointers
<1>2. Typed' /\ AtItsBlock'
  BY <1>0, <1>1 DEF Typed, AtItsBlock
<1>3. \A u \in Threads : StackOf(u)' = StackOf(u)
  BY <1>0, <1>1 DEF StackOf, Typed
<1>4. Good(seg') /\ seg.native \subseteq seg'.native
  BY <1>1 DEF IInv
<1> QED BY <1>1, <1>2, <1>3, <1>4, StaysOnCourse

(* what Enter requires and the invariant then says *)
LEMMA Entered ==
  ASSUME IInv, NEW t \in Threads, NEW mode \in {"loop", "native"}, Enter(t, mode)
  PROVE  /\ vm.mode = mode /\ vm.mode # "idle" /\ vm.thread = t /\ failed = "no"
         /\ vm.cur \in seg.alive /\ vm.cur \in Ids /\ Start(vm.cur) = rip[t]
         /\ mode = "native" => vm.cur \in seg.native
         /\ frames[t] \in Seq(Addrs) /\ vm.jit \in Seq(Pointers)
         /\ Tracks(seg.native, vm.jit, frames[t]) /\ Good(seg) /\ Typed
<1>1. vm.mode = mode /\ vm.mode # "idle" /\ vm.thread = t /\ failed = "no"
  BY DEF Enter
<1>2. StackOf(t) = vm.jit
  BY <1>1 DEF StackOf
<1>3. vm.cur \in seg.alive /\ Start(vm.cur) = rip[t] /\ (mode = "native" => vm.cur \in seg.native)
  BY <1>1 DEF IInv, AtItsBlock
<1>4. Good(seg) /\ Typed /\ Tracks(seg.native, vm.jit, frames[t])
  BY <1>2 DEF IInv, OnCourse
<1>5. vm.cur \in Ids
  BY <1>3, <1>4, OneLive
<1>6. frames[t] \in Seq(Addrs) /\ vm.jit \in Seq(Pointers)
  BY <1>4 DEF Typed
<1> QED BY <1>1, <1>3, <1>4, <1>5, <1>6

LEMMA BatchAlive ==
  ASSUME NEW S, NEW i, NEW C \in Batches(S, i)
  PROVE  C \in SUBSET S.alive
BY DEF Batches

LEMMA InterpretStep ==
  ASSUME LinkedAtRunTime, IInv, NEW t \in Threads, Interpret(t)
  PROVE  IInv'
<1> DEFINE i == vm.cur
<1>0. Enter(t, "loop")
  BY DEF Interpret
<1>1. PICK C \in Batches(seg, i), o \in Outcomes(Start(i), frames[t]) :
        /\ Goes(t, o)
        /\ Land(t, Compile(seg, C), i, o[1], NativeStack(i, Null))
  BY DEF Interpret
<1> DEFINE S == Compile(seg, C)
           jit == NativeStack(i, Null)
<1>2. /\ vm.mode # "idle" /\ vm.thread = t
      /\ i \in seg.alive /\ i \in Ids /\ frames[t] \in Seq(Addrs)
      /\ vm.jit \in Seq(Pointers) /\ Tracks(seg.native, vm.jit, frames[t])
      /\ Good(seg) /\ Typed
  BY <1>0, Entered
<1>3. o[1] \in Addrs /\ o[2] \in Seq(Addrs) /\ (FixedDestination(i) => o[1] \in Named(i))
  <2>1. Start(i) \in Addrs
    BY <1>2, OneLive
  <2> QED BY <1>2, <2>1, OutcomesExact, OutcomeNamed
<1>4. C \in SUBSET seg.alive
  BY BatchAlive
<1>5. Good(S) /\ SameLinks(seg, S) /\ seg.native \subseteq S.native
  BY <1>2, <1>4, CompiledGood
<1>6. Null \in Pointers
  BY DEF Pointers
<1>7. jit \in Seq(Pointers) /\ Tracks(seg.native, jit, o[2])
  BY <1>2, <1>6, NativeStackTracks
<1>8. i \in S.alive
  BY <1>2, <1>5 DEF SameLinks
<1>9. Land(t, S, i, o[1], jit)
  BY <1>1
<1>10. UNCHANGED saved /\ asks' \in [Threads -> BOOLEAN]
  <2>1. asks' = [asks EXCEPT ![t] = Ends[Start(i)] = "syscall"] /\ UNCHANGED saved
    BY DEF Interpret
  <2>2. asks \in [Threads -> BOOLEAN] /\ (Ends[Start(i)] = "syscall") \in BOOLEAN
    BY <1>2 DEF Typed
  <2> QED BY <2>1, <2>2
<1> HIDE DEF S, jit, i
<1>11. Landed(t, S, o[1], jit)
  BY <1>3, <1>5, <1>8, <1>9, LandGood
<1>12. PICK j \in seg'.alive : Start(j) = o[1] /\ vm' = Slice("loop", t, j, jit)
  BY <1>11 DEF Landed
<1>13. seg.native \subseteq seg'.native
  BY <1>5, <1>11 DEF Landed
<1>14. failed' = failed /\ Good(seg')
  BY <1>11 DEF Landed
<1> QED BY <1>1, <1>2, <1>3, <1>7, <1>10, <1>12, <1>13, <1>14, MovedGood

LEMMA EnterNativeStep ==
  ASSUME IInv, NEW t \in Threads, EnterNative(t)
  PROVE  IInv'
<1>0. Enter(t, "loop")
  BY DEF EnterNative
<1>1. PICK C \in Batches(seg, vm.cur) : seg' = Compile(seg, C) /\ vm.cur \in seg'.native
  BY DEF EnterNative
<1>2. vm' = [vm EXCEPT !.mode = "native"] /\ UNCHANGED <<rip, frames, saved, asks, failed>>
  BY DEF EnterNative
<1>3. Good(seg) /\ Typed /\ vm.mode = "loop" /\ vm.thread = t
  BY <1>0, Entered
<1>4. C \in SUBSET seg.alive
  BY BatchAlive
<1>5. Good(seg') /\ SameLinks(seg, seg') /\ seg.native \subseteq seg'.native
  BY <1>1, <1>3, <1>4, CompiledGood
<1>6. /\ vm'.mode = "native" /\ vm'.thread = vm.thread /\ vm'.cur = vm.cur
      /\ vm'.jit = vm.jit
      /\ vm' \in [mode : {"idle", "loop", "native"}, thread : Threads \cup {Absent},
                  cur : Pointers, jit : Seq(Pointers)]
  BY <1>2, <1>3 DEF Typed
<1>7. Typed'
  BY <1>2, <1>3, <1>6 DEF Typed
<1>8. AtItsBlock'
  BY <1>1, <1>2, <1>3, <1>5, <1>6 DEF IInv, AtItsBlock, SameLinks
<1>9. \A u \in Threads : StackOf(u)' = StackOf(u)
  BY <1>2, <1>3, <1>6 DEF StackOf
<1> QED BY <1>2, <1>5, <1>7, <1>8, <1>9, StaysOnCourse

LEMMA RunNativeStep ==
  ASSUME LinkedAtRunTime, IInv, NEW t \in Threads, RunNative(t)
  PROVE  IInv'
<1> DEFINE i == vm.cur
           jit == NativeStack(i, seg.push[i])
<1>0. Enter(t, "native")
  BY DEF RunNative
<1>1. PICK o \in Outcomes(Start(i), frames[t]) :
        /\ Goes(t, o)
        /\ \E target \in Chained(i, o[1]) :
             IF target = Null THEN Land(t, seg, i, o[1], jit)
             ELSE /\ vm' = [vm EXCEPT !.cur = target, !.jit = jit]
                  /\ UNCHANGED <<seg, failed>>
  BY DEF RunNative
<1>2. PICK target \in Chained(i, o[1]) :
        IF target = Null THEN Land(t, seg, i, o[1], jit)
        ELSE /\ vm' = [vm EXCEPT !.cur = target, !.jit = jit]
             /\ UNCHANGED <<seg, failed>>
  BY <1>1
<1>3. /\ vm.mode = "native" /\ vm.thread = t
      /\ i \in seg.alive /\ i \in seg.native /\ i \in Ids /\ frames[t] \in Seq(Addrs)
      /\ vm.jit \in Seq(Pointers) /\ Tracks(seg.native, vm.jit, frames[t])
      /\ Good(seg) /\ Typed
  BY <1>0, Entered
<1>4. o[1] \in Addrs /\ o[2] \in Seq(Addrs) /\ (FixedDestination(i) => o[1] \in Named(i))
  <2>1. Start(i) \in Addrs
    BY <1>3, OneLive
  <2> QED BY <1>3, <2>1, OutcomesExact, OutcomeNamed
<1>5. /\ seg.push[i] \in Pointers
      /\ IsCall(i) /\ seg.push[i] # Null =>
           seg.push[i] \in seg.native /\ Start(seg.push[i]) = After[Start(i)]
  BY <1>3 DEF Good, Graph, PatchesExact, Patched
<1>6. jit \in Seq(Pointers) /\ Tracks(seg.native, jit, o[2])
  BY <1>3, <1>5, NativeStackTracks
<1>7. UNCHANGED saved /\ asks' \in [Threads -> BOOLEAN]
  BY <1>3 DEF RunNative, Typed
<1>8. CASE target = Null
  <2>1. Land(t, seg, i, o[1], jit)
    BY <1>2, <1>8
  <2> HIDE DEF i, jit
  <2>2. Landed(t, seg, o[1], jit)
    BY <1>3, <1>4, <2>1, LandGood
  <2>3. PICK j \in seg'.alive : Start(j) = o[1] /\ vm' = Slice("loop", t, j, jit)
    BY <2>2 DEF Landed
  <2>4. failed' = failed /\ Good(seg') /\ seg.native \subseteq seg'.native
    BY <2>2 DEF Landed
  <2>5. vm.mode # "idle"
    BY <1>3
  <2> QED BY <1>1, <1>3, <1>4, <1>6, <1>7, <2>3, <2>4, <2>5, MovedGood
<1>9. CASE target # Null
  <2>1. target \in seg.native /\ Start(target) = o[1]
    BY <1>3, <1>9, ChainedExact
  <2> HIDE DEF i, jit
  <2>2. vm' = Slice("native", t, target, jit)
    <3>1. vm' = [vm EXCEPT !.cur = target, !.jit = jit]
      BY <1>2, <1>9
    <3> QED BY <1>3, <3>1 DEF Typed, Slice
  <2>3. UNCHANGED <<seg, failed>>
    BY <1>2, <1>9
  <2>4. target \in seg'.alive /\ target \in seg'.native
    BY <1>3, <2>1, <2>3 DEF Good, NativeLives
  <2>5. Good(seg') /\ seg.native \subseteq seg'.native /\ vm.mode # "idle" /\ failed' = failed
    BY <1>3, <2>3
  <2> QED BY <1>1, <1>3, <1>4, <1>6, <1>7, <2>1, <2>2, <2>4, <2>5, MovedGood
<1> QED BY <1>8, <1>9

LEMMA OtherCallStep ==
  ASSUME IInv, NEW t \in Threads, OtherCall(t)
  PROVE  IInv'
<1>1. UNCHANGED <<rip, frames, seg, vm, saved, failed>> /\ asks' = [asks EXCEPT ![t] = FALSE]
  BY DEF OtherCall, Serves
<1>2. Typed' /\ AtItsBlock'
  BY <1>1 DEF IInv, Typed, AtItsBlock
<1>3. Good(seg') /\ seg.native \subseteq seg'.native
  BY <1>1 DEF IInv
<1>4. \A u \in Threads : StackOf(u)' = StackOf(u)
  BY <1>1 DEF StackOf
<1> QED BY <1>1, <1>2, <1>3, <1>4, StaysOnCourse

LEMMA RemapStep ==
  ASSUME LinkedAtRunTime, IInv, NEW t \in Threads, Remap(t)
  PROVE  IInv'
<1> DEFINE D == {i \in seg.alive : Start(i) \in Library}
<1>1. /\ vm.mode = "idle" /\ Unused(Library) /\ seg' = Remove(seg, D)
      /\ UNCHANGED <<rip, frames, vm, saved, failed>>
      /\ asks' = [asks EXCEPT ![t] = FALSE]
  BY DEF Remap, Serves
<1>2. Good(seg') /\ seg'.native = seg.native \ D
  BY <1>1, RemovedGood DEF IInv
<1>3. Typed' /\ AtItsBlock'
  BY <1>1 DEF IInv, Typed, AtItsBlock
<1>4. \A i \in D : Start(i) \in Library
  OBVIOUS
<1> HIDE DEF D
<1>5. ASSUME NEW u \in Threads
      PROVE  Tracks(seg'.native, StackOf(u)', frames'[u])
  <2>1. StackOf(u) = saved[u] /\ StackOf(u)' = saved[u]
    BY <1>1 DEF StackOf
  <2>2. Tracks(seg.native, saved[u], frames[u])
    BY <2>1 DEF IInv, OnCourse
  <2>3. saved[u] \in Seq(Pointers) /\ frames[u] \in Seq(Addrs)
    BY DEF IInv, Typed
  <2>4. \A k \in 1..Len(frames[u]) : frames[u][k] \notin Library
    BY <1>1 DEF Unused
  <2>5. Tracks(seg.native \ D, saved[u], frames[u])
    BY <1>4, <2>2, <2>3, <2>4, TracksRemoved
  <2> QED BY <1>1, <1>2, <2>1, <2>5
<1>6. OnCourse'
  BY <1>1, <1>5 DEF IInv, OnCourse
<1> QED BY <1>1, <1>2, <1>3, <1>6 DEF IInv

LEMMA CloneStep ==
  ASSUME IInv, NEW t \in Threads, Clone(t)
  PROVE  IInv'
<1>1. PICK u \in Threads :
        /\ Serves(t) /\ Appears(u)
        /\ saved' = [saved EXCEPT ![u] = Inherited(saved[t])]
        /\ UNCHANGED <<seg, vm, failed>>
  BY DEF Clone
<1>2. PICK a \in Starts :
        /\ rip[u] = Absent /\ rip' = [rip EXCEPT ![u] = a] /\ UNCHANGED frames
  BY <1>1 DEF Appears
<1>3. a \in Addrs /\ vm.mode = "idle" /\ asks' = [asks EXCEPT ![t] = FALSE]
  BY <1>1, ProgramAssumption DEF Serves
<1>4. frames[u] = <<>> /\ Typed
  BY <1>2 DEF IInv, OnCourse
<1>5. saved[t] \in Seq(Pointers) /\ <<>> \in Seq(Addrs) /\ Len(<<>>) <= Len(saved[t])
  BY <1>4 DEF Typed
<1>6. /\ Inherited(saved[t]) \in Seq(Pointers)
      /\ Tracks(seg.native, Inherited(saved[t]), <<>>)
  BY <1>5, TracksNulls DEF Inherited
<1>7. Typed'
  BY <1>1, <1>2, <1>3, <1>4, <1>6 DEF Typed
<1>8. AtItsBlock'
  BY <1>1, <1>3 DEF AtItsBlock
<1>9. OnCourse'
  <2>1. ASSUME NEW w \in Threads, rip'[w] = Absent PROVE frames'[w] = <<>>
    BY <1>2, <1>3, <1>4, <2>1 DEF IInv, OnCourse, Typed
  <2>2. ASSUME NEW w \in Threads
        PROVE  Tracks(seg'.native, StackOf(w)', frames'[w])
    <3>1. StackOf(w)' = saved'[w] /\ StackOf(w) = saved[w]
      BY <1>1, <1>3 DEF StackOf
    <3>2. Tracks(seg.native, saved[w], frames[w])
      BY <3>1 DEF IInv, OnCourse
    <3>3. w = u => saved'[w] = Inherited(saved[t])
      BY <1>1, <1>4 DEF Typed
    <3>4. w # u => saved'[w] = saved[w]
      BY <1>1, <1>4 DEF Typed
    <3> QED BY <1>1, <1>2, <1>4, <1>6, <3>1, <3>2, <3>3, <3>4
  <2> QED BY <2>1, <2>2 DEF OnCourse
<1> QED BY <1>1, <1>7, <1>8, <1>9 DEF IInv

LEMMA StutterStep ==
  ASSUME IInv, UNCHANGED svars
  PROVE  IInv'
<1>1. UNCHANGED <<rip, frames, seg, vm, saved, asks, failed>>
  BY DEF svars
<1>2. Typed' /\ AtItsBlock'
  BY <1>1 DEF IInv, Typed, AtItsBlock
<1>3. Good(seg') /\ seg.native \subseteq seg'.native
  BY <1>1 DEF IInv
<1>4. \A u \in Threads : StackOf(u)' = StackOf(u)
  BY <1>1 DEF StackOf
<1> QED BY <1>1, <1>2, <1>3, <1>4, StaysOnCourse

LEMMA NextKeeps ==
  ASSUME LinkedAtRunTime, IInv, [Next]_svars
  PROVE  IInv'
<1>1. CASE UNCHANGED svars
  BY <1>1, StutterStep
<1>2. ASSUME NEW t \in Threads,
             \/ Begin(t) \/ End(t) \/ Interpret(t) \/ EnterNative(t) \/ RunNative(t)
             \/ OtherCall(t) \/ Remap(t) \/ Clone(t)
      PROVE  IInv'
  BY <1>2, BeginStep, EndStep, InterpretStep, EnterNativeStep, RunNativeStep,
     OtherCallStep, RemapStep, CloneStep
<1> QED BY <1>1, <1>2 DEF Next

-----------------------------------------------------------------------------
(* The invariant: the graph is exact, each thread that runs is at its      *)
(* block, and its native stack follows its frames.                         *)
THEOREM Invariant == LinkedAtRunTime => (Spec => []IInv)
<1> SUFFICES ASSUME LinkedAtRunTime PROVE Spec => []IInv
  OBVIOUS
<1>1. Init => IInv
  BY InitInvariant
<1>2. IInv /\ [Next]_svars => IInv'
  BY NextKeeps
<1> QED BY <1>1, <1>2, PTL DEF Spec

LEMMA GoodGraph ==
  ASSUME IInv
  PROVE  LinksAreLive /\ LinksAgree /\ OneSegment /\ TypeOK
<1>1. Good(seg) /\ seg \in Graph /\ Typed /\ failed = "no"
  BY DEF IInv, Good
<1>2. \A i, j \in Ids : <<i, j>> \in seg.succ => i \in seg.alive /\ j \in seg.alive
  BY <1>1 DEF Good, LinksExact
<1>3. \A p \in seg.chain \cup seg.succ \cup seg.pred \cup seg.callers :
        p = <<p[1], p[2]>> /\ p[1] \in Ids /\ p[2] \in Ids
  BY <1>1 DEF Graph, Links
<1>4. ASSUME NEW i \in Ids, NEW k \in 1..2, seg.slots[i][k] # Null
      PROVE  /\ <<i, seg.slots[i][k]>> \in seg.succ
             /\ seg.slots[i][k] \in Ids
  <2>1. SlotExact(seg, i, seg.slots[i][1]) /\ SlotExact(seg, i, seg.slots[i][2])
    BY <1>1 DEF Good, SlotsExact
  <2>2. k = 1 \/ k = 2
    OBVIOUS
  <2>3. seg.slots[i][k] \in Pointers
    BY <1>1 DEF Graph
  <2> QED BY <1>4, <2>1, <2>2, <2>3 DEF SlotExact, Pointers
<1>5. LinksAreLive
  <2>1. ASSUME NEW i \in seg.alive
        PROVE  /\ seg.slots[i][1] \in seg.alive \cup {Null}
               /\ seg.slots[i][2] \in seg.alive \cup {Null}
    <3>1. i \in Ids /\ 1 \in 1..2 /\ 2 \in 1..2
      BY <1>1, OneLive
    <3> QED BY <1>2, <1>4, <3>1
  <2>2. ASSUME NEW i \in seg.alive
        PROVE  seg.ret[i] \in seg.alive \cup {Null}
    BY <1>1, OneLive DEF Good, ReturnsExact, ReturnsTo
  <2>3. ASSUME NEW p \in seg.chain \cup seg.succ \cup seg.pred \cup seg.callers
        PROVE  p[2] \in seg.alive
    <3>1. PICK i \in Ids, j \in Ids : p = <<i, j>>
      BY <1>3
    <3>2. <<i, j>> \in seg.callers => j \in seg.alive
      BY <1>1 DEF Good, ReturnsExact, ReturnsTo
    <3>3. <<i, j>> \in seg.chain \cup seg.succ \cup seg.pred => j \in seg.alive
      BY <1>1, <1>2 DEF Good, LinksExact
    <3>4. j \in seg.alive
      BY <3>1, <3>2, <3>3
    <3> QED BY <3>1, <3>4
  <2> QED BY <2>1, <2>2, <2>3 DEF LinksAreLive
<1>6. LinksAgree
  <2>1. seg.pred = {<<p[2], p[1]>> : p \in seg.succ}
    <3>1. \A i, j \in Ids : <<j, i>> \in seg.pred <=> <<i, j>> \in seg.succ
      BY <1>1 DEF Good, LinksExact
    <3>2. ASSUME NEW p \in seg.pred PROVE p \in {<<q[2], q[1]>> : q \in seg.succ}
      <4>1. p = <<p[1], p[2]>> /\ <<p[2], p[1]>> \in seg.succ
        BY <1>3, <3>1
      <4> QED BY <4>1
    <3>3. ASSUME NEW q \in seg.succ PROVE <<q[2], q[1]>> \in seg.pred
      <4>1. q = <<q[1], q[2]>> /\ q[1] \in Ids /\ q[2] \in Ids
        BY <1>3
      <4>2. <<q[1], q[2]>> \in seg.succ
        BY <4>1
      <4> QED BY <3>1, <4>1, <4>2
    <3> QED BY <3>2, <3>3
  <2>2. seg.chain \subseteq seg.succ
    BY <1>1, <1>3 DEF Good, LinksExact
  <2>3. ASSUME NEW i \in seg.alive, NEW k \in 1..2
        PROVE  seg.slots[i][k] = Null \/ <<i, seg.slots[i][k]>> \in seg.succ
    BY <1>1, <1>4, OneLive
  <2> QED BY <2>1, <2>2, <2>3 DEF LinksAgree
<1>7. OneSegment
  BY <1>1, OneLive DEF OneSegment
<1>8. TypeOK
  <2>1. seg.alive \subseteq {i \in Ids : i[2] <= seg.made[Start(i)]}
    <3>1. ASSUME NEW i \in seg.alive PROVE i \in Ids /\ i[2] <= seg.made[Start(i)]
      <4>1. i \in Ids /\ i[2] = seg.made[Start(i)] /\ i[2] \in Nat
        BY <1>1, OneLive DEF Good, Newest, Ids
      <4> QED BY <4>1
    <3> QED BY <3>1
  <2>2. /\ seg.made \in [Addrs -> 0..MaxMade] /\ seg.slots \in [Ids -> [1..2 -> Pointers]]
        /\ seg.chain \subseteq Ids \X Ids /\ seg.succ \subseteq Ids \X Ids
        /\ seg.pred \subseteq Ids \X Ids /\ seg.callers \subseteq Ids \X Ids
        /\ seg.table \subseteq Ids \X Ids
        /\ seg.native \subseteq Ids /\ seg.tried \subseteq Ids
        /\ seg.ret \in [Ids -> Pointers] /\ seg.jump \in [Ids -> Pointers]
        /\ seg.cont \in [Ids -> Pointers] /\ seg.push \in [Ids -> Pointers]
    BY <1>1 DEF Graph, Links
  <2>3. /\ rip \in [Threads -> Addrs \cup {Absent}] /\ frames \in [Threads -> Seq(Addrs)]
        /\ vm.mode \in {"idle", "loop", "native"} /\ vm.thread \in Threads \cup {Absent}
        /\ vm.cur \in Pointers /\ vm.jit \in Seq(Pointers)
        /\ saved \in [Threads -> Seq(Pointers)] /\ asks \in [Threads -> BOOLEAN]
    BY <1>1 DEF Typed
  <2>4. failed \in {"no", "slot", "return"}
    BY <1>1
  <2>5. \A f \in {seg.ret, seg.jump, seg.cont, seg.push} : f \in [Ids -> Pointers]
    BY <2>2
  <2> QED BY <2>1, <2>2, <2>3, <2>4, <2>5 DEF TypeOK
<1> QED BY <1>5, <1>6, <1>7, <1>8

(* removeFromCaches and addSuccessor: every pointer that a live segment    *)
(* holds leads to a live segment, both ends of a link agree, and an        *)
(* address has one live segment, however blocks are fetched and purged.    *)
THEOREM GraphStaysExact == LinkedAtRunTime => (Spec => []GraphIsExact)
<1> SUFFICES ASSUME LinkedAtRunTime PROVE Spec => []GraphIsExact
  OBVIOUS
<1>1. IInv => GraphIsExact
  BY GoodGraph DEF GraphIsExact
<1>2. Spec => []IInv
  BY Invariant
<1> QED BY <1>1, <1>2, PTL

LEMMA GoodCourse ==
  ASSUME IInv
  PROVE  RunsCurrentCode /\ NativeStackFollows /\ PatchesAreCurrent
<1>1. Good(seg)
  BY DEF IInv
<1>2. RunsCurrentCode
  BY DEF IInv, AtItsBlock, RunsCurrentCode
<1>3. NativeStackFollows
  <2>1. ASSUME NEW t \in Threads PROVE Follows(StackOf(t), frames[t])
    <3>1. Tracks(seg.native, StackOf(t), frames[t])
      BY DEF IInv, OnCourse
    <3> HIDE DEF StackOf
    <3> QED BY <3>1 DEF Tracks, Entry, Follows
  <2> QED BY <2>1 DEF NativeStackFollows
<1>4. PatchesAreCurrent
  <2>1. ASSUME NEW i \in seg.native
        PROVE  \A p \in seg.table : p[1] = i => p \in seg.chain /\ p[2] \in seg.native
    <3>1. \A p \in seg.table : p = <<p[1], p[2]>> /\ p[2] \in Ids
      BY <1>1 DEF Good, Graph, Links
    <3>2. \A j \in Ids : <<i, j>> \in seg.table => <<i, j>> \in seg.chain /\ j \in seg.native
      BY <1>1 DEF Good, PatchesExact, Patched
    <3> QED BY <3>1, <3>2
  <2> QED BY <1>1, <2>1 DEF Good, PatchesExact, Patched, PatchesAreCurrent
<1> QED BY <1>2, <1>3, <1>4

(* Jit::exec, notifyCall and notifyRet: the block that runs is the live    *)
(* one of the address its thread is at, the native stack of every thread   *)
(* follows its frames, and the verify of addReturn never fails.            *)
THEOREM ReturnsStayTrue == LinkedAtRunTime => (Spec => []ReturnsFollow)
<1> SUFFICES ASSUME LinkedAtRunTime PROVE Spec => []ReturnsFollow
  OBVIOUS
<1>1. IInv => ReturnsFollow
  BY GoodCourse DEF ReturnsFollow, VerifyReturns, IInv
<1>2. Spec => []IInv
  BY Invariant
<1> QED BY <1>1, <1>2, PTL

(* tryPatch and syncBlockLookupTable: what native code jumps, returns and  *)
(* is looked up to is live native code of the right address after any      *)
(* purge, and the verify of addSuccessor never fails.                      *)
THEOREM CodeStaysCurrent == LinkedAtRunTime => (Spec => []CodeIsCurrent)
<1> SUFFICES ASSUME LinkedAtRunTime PROVE Spec => []CodeIsCurrent
  OBVIOUS
<1>1. IInv => CodeIsCurrent
  BY GoodGraph, GoodCourse DEF CodeIsCurrent, VerifySlots, IInv
<1>2. Spec => []IInv
  BY Invariant
<1> QED BY <1>1, <1>2, PTL

-----------------------------------------------------------------------------
(* Refinement.                                                             *)

LEMMA BlockIsTheProgram ==
  ASSUME IInv, NEW t \in Threads, NEW mode \in {"loop", "native"}, Enter(t, mode),
         NEW o \in Outcomes(Start(vm.cur), frames[t]), Goes(t, o)
  PROVE  GuestNext
<1>1. Start(vm.cur) = rip[t] /\ Start(vm.cur) \in Addrs
  BY Entered, OneLive
<1>2. rip[t] # Absent
  BY <1>1, ProgramAssumption
<1>3. Runs(t)
  BY <1>1 DEF Runs, Goes
<1> QED BY <1>2, <1>3 DEF GuestNext

LEMMA StepIsTheProgram ==
  ASSUME IInv, [Next]_svars
  PROVE  [GuestNext]_<<rip, frames>>
<1>1. CASE UNCHANGED svars
  BY <1>1 DEF svars
<1>2. ASSUME NEW t \in Threads, Interpret(t)
      PROVE  GuestNext
  <2>1. Enter(t, "loop") /\ \E o \in Outcomes(Start(vm.cur), frames[t]) : Goes(t, o)
    BY <1>2 DEF Interpret
  <2> QED BY <2>1, BlockIsTheProgram
<1>3. ASSUME NEW t \in Threads, RunNative(t)
      PROVE  GuestNext
  <2>1. Enter(t, "native") /\ \E o \in Outcomes(Start(vm.cur), frames[t]) : Goes(t, o)
    BY <1>3 DEF RunNative
  <2> QED BY <2>1, BlockIsTheProgram
<1>4. ASSUME NEW t \in Threads, Clone(t)
      PROVE  GuestNext
  BY <1>4 DEF Clone, GuestNext
<1>5. ASSUME NEW t \in Threads,
             Begin(t) \/ End(t) \/ EnterNative(t) \/ OtherCall(t) \/ Remap(t)
      PROVE  UNCHANGED <<rip, frames>>
  BY <1>5 DEF Begin, End, EnterNative, OtherCall, Remap
<1> QED BY <1>1, <1>2, <1>3, <1>4, <1>5 DEF Next

(* VM::execute: with every cache, patch and native stack, the threads of   *)
(* the program go where the code at their addresses sends them, and        *)
(* nothing else moves them.                                                *)
THEOREM ImplementsTheProgram == LinkedAtRunTime => (Spec => RunsTheProgram)
<1> SUFFICES ASSUME LinkedAtRunTime PROVE Spec => RunsTheProgram
  OBVIOUS
<1>1. Init => GuestInit
  BY DEF Init
<1>2. IInv /\ [Next]_svars => [GuestNext]_<<rip, frames>>
  BY StepIsTheProgram
<1>3. Spec => []IInv
  BY Invariant
<1> QED BY <1>1, <1>2, <1>3, PTL DEF Spec, RunsTheProgram, GuestSpec
=============================================================================
