---------------------------- MODULE AddressSpace ----------------------------
(***************************************************************************)
(* The address space of one emulated process (x64/mmu.cpp) and the code    *)
(* caches that follow it: its regions and the table that finds the region  *)
(* of a page, the intervals of executable memory that own the translated   *)
(* blocks (intervalvector.h) and the index of the blocks by their first    *)
(* address (kernel/linux/process.cpp).  A region that is created, changed  *)
(* or destroyed calls back into the caches.                                *)
(*                                                                         *)
(* The calls that change an address space are system calls, which run      *)
(* alone (module Scheduler): each is one step, and within it every add and *)
(* take of a region is an operator on the whole space.  A verify that      *)
(* fails anywhere in a call panics the kernel; what the call has done so   *)
(* far is then of no interest.                                             *)
(*                                                                         *)
(* Memory is counted in pages.  Of an address of code the model keeps its  *)
(* page and whether it is the first byte of the page, which is all that    *)
(* the comparisons with the bounds of regions can tell.                    *)
(***************************************************************************)
EXTENDS Integers, FiniteSets

CONSTANTS
  NPages,     \* the pages of the reserved range memoryRange_
  NullPages,  \* the size of the null page region: 16 in the code
  Unmapped,   \* a null pointer of regionLookup
  Image,      \* the regions of a program that has just been loaded
  Prots,      \* the protections programs ask for
  Lengths,    \* the lengths programs ask for
  Calls,      \* the system calls programs make
  Stores,     \* the pages programs store to
  Jumps       \* the addresses of code they jump to

Pages == 0..NPages - 1
Bounds == 0..NPages
Protections == SUBSET {"r", "w", "x"}
AllCalls == {"mmap", "mapfile", "munmap", "mprotect", "brk", "fork", "execve"}
Contents == {"zero", "file", "stored"}
Regions == [base : Pages, end : Bounds, prot : Protections,
            heap : BOOLEAN, fresh : BOOLEAN]
Starts == [page : Pages, first : BOOLEAN]
Segments == [page : Pages, first : BOOLEAN, last : Pages]
Intervals == [start : Pages, end : Bounds, items : SUBSET Segments]
Reasons == {"overlap", "insert", "interval", "length", "nullpage", "heap", "mprotect"}

Contains(r, p) == r.base <= p /\ p < r.end
PagesOf(r) == {p \in Pages : Contains(r, p)}
Meets(r, lo, hi) == lo < hi /\ r.base < hi /\ lo < r.end
Executable(r) == "x" \in r.prot

ASSUME BoundsAssumption ==
  /\ NPages \in Nat \ {0} /\ NullPages \in 1..NPages /\ Lengths \subseteq Nat
ASSUME ValuesAssumption ==
  /\ Unmapped \notin Pages /\ Unmapped \notin [prot : Protections, data : Contents]
  /\ Prots \subseteq Protections
  /\ Calls \subseteq AllCalls /\ Stores \subseteq Pages /\ Jumps \subseteq Starts
ASSUME ImageAssumption ==
  /\ Image \subseteq Regions
  /\ \A r \in Image : r.base < r.end /\ ~r.fresh
  /\ \A r, q \in Image : r # q => r.end <= q.base \/ q.end <= r.base

VARIABLE
  mm    \* mm.regions    regions, a set: they are sorted by their bases
        \* mm.lookup     regionLookup: the base of the region of each page
        \* mm.data       what the host memory of each page holds
        \* mm.intervals  codeSegments_, with the blocks each interval owns
        \* mm.index      codeSegmentsByAddress_, owner: whose items have it
        \* mm.failed     the verify that has failed, "no" if none has

vars == <<mm>>

-----------------------------------------------------------------------------
(* The code caches: IntervalVector and the callbacks of Process.           *)

StartOf(g) == [page |-> g.page, first |-> g.first]

(* the interval find returns: lower_bound on the ends *)
NotBefore(i, at) == IF at.first THEN i.end >= at.page ELSE i.end > at.page
Finds(I, at, i) ==
  /\ i \in I /\ NotBefore(i, at)
  /\ \A j \in I : NotBefore(j, at) => i.start <= j.start

(* Faulty: only the intervals inside of the range are visited. *)
Visited_Inside(I, r) == {i \in I : i.start >= r.base /\ i.end <= r.end}

(* what forEachMutable visits and remove erases for the range of a region.  *)
(* Both split the intervals at the bounds of the range first: there is      *)
(* nothing to split, an interval being one region (IntervalsAreRegions).    *)
Visited(I, r) == {i \in I : i.end >= r.base /\ i.start <= r.end}
Erased(I, r) == {i \in I : i.start >= r.base /\ i.start <= r.end}

(* onRegionDestruction, and onRegionProtectionChange if they lose "x".     *)
(* The order of the regions does not matter, what one call erases being    *)
(* visited by that call.                                                   *)
Forget(s, R) ==
  LET visited == UNION {Visited(s.intervals, r) : r \in R}
      erased == UNION {Erased(s.intervals, r) : r \in R}
      purged == {StartOf(g) : g \in UNION {i.items : i \in visited}}
  IN  [s EXCEPT !.intervals = @ \ erased,
                !.index = {e \in @ : StartOf(e) \notin purged}]

Failing(s, why) == [s EXCEPT !.failed = why]
Ok(s) == s.failed = "no"

(* onRegionCreation, and onRegionProtectionChange if they get "x"; insert  *)
(* verifies that the next interval is not reached.  "insert" is a failure  *)
(* although the region itself fits.                                        *)
IntervalOf(r) == [start |-> r.base, end |-> r.end, items |-> {}]
Reached(s, r) == \E i \in s.intervals : r.base <= i.start /\ i.start < r.end
Reserve(s, R) ==
  IF \E r \in R : Reached(s, r) THEN Failing(s, "insert")
  ELSE [s EXCEPT !.intervals = @ \cup {IntervalOf(r) : r \in R}]

-----------------------------------------------------------------------------
(* Mmu: adding, taking and splitting regions.                              *)

FindAddress(s, p) == IF p \in Pages THEN s.lookup[p] ELSE Unmapped
RegionAt(s, b) == CHOOSE r \in s.regions : r.base = b

(* Faulty: the lookup of a region that is taken is not invalidated. *)
TakeRegions_StaleLookup(s, R) ==
  Forget([s EXCEPT !.regions = @ \ R], {r \in R : Executable(r)})

TakeRegions(s, R) ==
  LET t == [s EXCEPT !.regions = @ \ R,
                     !.lookup = [p \in Pages |->
                       IF \E r \in R : Contains(r, p) THEN Unmapped ELSE @[p]]]
  IN  Forget(t, {r \in R : Executable(r)})

Settled(r) == [r EXCEPT !.fresh = FALSE]

(* A region that does not fit fails one of three verifies, whichever comes *)
(* first: that of addRegion, which looks at its ends only, that of insert  *)
(* if both are executable, or that of fillRegionLookup, which looks at all *)
(* of its pages.  The reason is "overlap" for all three.                   *)
Fits(s, r) ==
  /\ r.base < r.end
  /\ \A q \in s.regions : ~Contains(q, r.base) /\ ~Contains(q, r.end - 1)
  /\ \A p \in PagesOf(r) : s.lookup[p] = Unmapped

AddRegion(s, r) ==
  LET t == [s EXCEPT !.regions = @ \cup {Settled(r)},
                     !.lookup = [p \in Pages |->
                       IF Contains(r, p) THEN r.base ELSE @[p]],
                     !.data = [p \in Pages |->
                       IF r.fresh /\ Contains(r, p) THEN "zero" ELSE @[p]]]
  IN  IF ~Ok(s) THEN s
      ELSE IF ~Fits(s, r) THEN Failing(s, "overlap")
      ELSE IF Executable(r) THEN Reserve(t, {r}) ELSE t

Split(s, p) ==
  LET r == RegionAt(s, FindAddress(s, p))
      left == [r EXCEPT !.end = p]
      right == [r EXCEPT !.base = p]
  IN  IF FindAddress(s, p) \in {Unmapped, p} THEN s
      ELSE AddRegion(AddRegion(TakeRegions(s, {r}), left), right)

(* Faulty: the region of the end is not split. *)
SplitAround_StartOnly(s, lo, hi) == Split(s, lo)

SplitAround(s, lo, hi) == Split(Split(s, lo), hi)

NewRegion(lo, hi, prot) == [base |-> lo, end |-> hi, prot |-> prot,
                            heap |-> FALSE, fresh |-> TRUE]

AddAndEraseExisting(s, r) ==
  LET t == SplitAround(s, r.base, r.end)
      old == {q \in t.regions : Contains(q, r.base) \/ Contains(q, r.end - 1)}
  IN  AddRegion(TakeRegions(t, old), r)

(* the base firstFitPageAligned returns: the lowest end of a region with   *)
(* room above it and another region above that, or the top                 *)
HasRoom(s, n, r) ==
  /\ \E q \in s.regions : r.end + n <= q.base
  /\ \A q \in s.regions : ~Meets(q, r.end, r.end + n)
FirstFit(s, n, b) ==
  IF \E r \in s.regions : HasRoom(s, n, r)
  THEN /\ \E r \in s.regions : HasRoom(s, n, r) /\ b = r.end
       /\ \A r \in s.regions : HasRoom(s, n, r) => b <= r.end
  ELSE /\ b = 0 \/ \E r \in s.regions : b = r.end
       /\ \A r \in s.regions : r.end <= b

(* Mmu::mmap; how says whether the address is a hint, MAP_FIXED or         *)
(* MAP_FIXED_NOREPLACE                                                     *)
Mmap(s, how, b, n, prot) ==
  LET r == NewRegion(b, b + n, prot)
  IN  IF n = 0 THEN Failing(s, "length")
      ELSE IF b + n > NPages THEN s
      ELSE IF how = "fixed" THEN AddAndEraseExisting(s, r) ELSE AddRegion(s, r)

Within(s, lo, hi) == {r \in s.regions : Meets(r, lo, hi)}

Munmap(s, lo, hi) ==
  LET t == SplitAround(s, lo, hi)
  IN  TakeRegions(t, Within(t, lo, hi))

(* no two regions of the range have a hole between them *)
Contiguous(R) ==
  \A r \in R : (\E q \in R : q.base < r.base) => \E q \in R : q.end = r.base

(* the errors of Mmu::mprotect: -EACCES and -ENOMEM *)
Denied(s, lo, hi, prot) ==
  \/ {"w", "x"} \subseteq prot
  \/ Within(s, lo, hi) = {}
  \/ ~Contiguous(Within(s, lo, hi))

(* Faulty: the code of memory that is not executable any more is kept.     *)
SetProtection_KeepCode(s, R, prot) ==
  LET t == [s EXCEPT !.regions = (@ \ R) \cup {[r EXCEPT !.prot = prot] : r \in R}]
  IN  IF "x" \in prot THEN Reserve(t, {r \in R : ~Executable(r)}) ELSE t

SetProtection(s, R, prot) ==
  LET t == [s EXCEPT !.regions = (@ \ R) \cup {[r EXCEPT !.prot = prot] : r \in R}]
  IN  IF "x" \in prot THEN Reserve(t, {r \in R : ~Executable(r)})
                      ELSE Forget(t, {r \in R : Executable(r)})

Mprotect(s, lo, hi, prot) ==
  LET t == SplitAround(s, lo, hi)
  IN  IF Denied(s, lo, hi, prot) THEN s
      ELSE IF ~Ok(t) THEN t
      ELSE SetProtection(t, Within(t, lo, hi), prot)

(* Sys::mmap of a file of m pages: the mapping is made writable, filled    *)
(* and given the protection that was asked for                             *)
Fill(s, b, n, m) ==
  [s EXCEPT !.data = [p \in Pages |->
    IF b <= p /\ p < b + n /\ p < b + m THEN "file" ELSE @[p]]]
MapFile(s, how, b, n, prot, m) ==
  LET t == Mmap(s, how, b, n, prot)
      u == Mprotect(t, b, b + n, (prot \cup {"w"}) \ {"x"})
      filled == Fill(u, b, n, m)
  IN  IF b + n > NPages \/ ~Ok(t) THEN t
      ELSE IF {"w", "x"} \subseteq prot THEN Failing(s, "mprotect")
      ELSE Mprotect(filled, b, b + n, prot)

(* Mmu::brk: the address is p, or inside page p                            *)
FirstHeap(s, h) ==
  /\ h \in s.regions /\ h.heap
  /\ \A q \in s.regions : q.heap => h.base <= q.base
BrkRefused(s, h, p, inside) ==
  \/ ~inside /\ p = h.end
  \/ inside /\ p = NPages
  \/ FindAddress(s, p) \notin {Unmapped, h.base}
  \/ \E q \in s.regions : q # h /\ h.end <= q.base /\ q.end <= p

(* Faulty: the extension is not cleared. *)
Grow_Dirty(s, h, hi) ==
  AddRegion(TakeRegions(s, {h}), [h EXCEPT !.end = hi])

Grow(s, h, hi) ==
  LET t == AddRegion(TakeRegions(s, {h}), NewRegion(h.end, hi, {"r", "w"}))
      extension == Settled(NewRegion(h.end, hi, {"r", "w"}))
  IN  IF ~Ok(t) THEN t
      ELSE IF h.prot # extension.prot THEN Failing(s, "heap")
      ELSE AddRegion(TakeRegions(t, {extension}), [h EXCEPT !.end = hi])
Shrink(s, h, hi) ==
  IF hi <= h.base THEN Failing(s, "heap")
  ELSE AddRegion(TakeRegions(s, {h}), [h EXCEPT !.end = hi])
Brk(s, h, p, inside) ==
  LET hi == IF inside THEN p + 1 ELSE p
  IN  IF BrkRefused(s, h, p, inside) THEN s
      ELSE IF p >= h.end THEN Grow(s, h, hi) ELSE Shrink(s, h, hi)

(* AddressSpace::clone: every region is mapped writable, filled if it can  *)
(* be read, and given its protection, which mprotect may refuse            *)
Inherited(r) ==
  [r EXCEPT !.prot = IF {"w", "x"} \subseteq @ THEN {"r", "w"} ELSE @]
Clone(s) ==
  [s EXCEPT
    !.regions = {Inherited(r) : r \in @},
    !.data = [p \in Pages |->
      IF \E r \in s.regions : Contains(r, p) /\ "r" \in r.prot
      THEN @[p] ELSE "zero"],
    !.intervals = {IntervalOf(r) : r \in {q \in s.regions : Executable(Inherited(q))}},
    !.index = {}]

-----------------------------------------------------------------------------
Loaded(R) ==
  [regions |-> R,
   lookup |-> [p \in Pages |->
     IF \E r \in R : Contains(r, p)
     THEN (CHOOSE r \in R : Contains(r, p)).base ELSE Unmapped],
   data |-> [p \in Pages |->
     IF \E r \in R : Contains(r, p) /\ Executable(r) THEN "file" ELSE "zero"],
   intervals |-> {IntervalOf(r) : r \in {q \in R : Executable(q)}},
   index |-> {},
   failed |-> "no"]

Init == mm = Loaded(Image)

(* a call that throws leaves nothing behind but the panic *)
Becomes(s) == mm' = IF Ok(s) THEN s ELSE Failing(mm, s.failed)

(* Whatever runs makes an Mmu, whose constructor maps the null page if it  *)
(* is not there and verifies its protection: nothing else happens to the   *)
(* space before it has                                                     *)
NullPage == [base |-> 0, end |-> NullPages, prot |-> {}, heap |-> FALSE, fresh |-> FALSE]
Ready ==
  /\ Ok(mm) /\ FindAddress(mm, 0) # Unmapped
  /\ RegionAt(mm, FindAddress(mm, 0)).prot = {}
EnsureNullPage ==
  /\ Ok(mm) /\ ~Ready
  /\ IF FindAddress(mm, 0) = Unmapped THEN Becomes(AddRegion(mm, NullPage))
     ELSE Becomes(Failing(mm, "nullpage"))
Enter(call) == call \in Calls /\ Ready

Hows == {"hint", "fixed", "noreplace"}
Base(how, n, b) == how = "hint" => FirstFit(mm, n, b)

SysMmap(how, b, n, prot) ==
  /\ Enter("mmap") /\ Base(how, n, b)
  /\ Becomes(Mmap(mm, how, b, n, prot))

(* A file that cannot be read leaves the mapping as mmap made it. *)
SysMapFile(how, b, n, prot) ==
  /\ Enter("mapfile") /\ Base(how, n, b)
  /\ \/ \E m \in Lengths \cap 0..n : Becomes(MapFile(mm, how, b, n, prot, m))
     \/ Becomes(Mmap(mm, how, b, n, prot))

SysMunmap(b, n) ==
  /\ Enter("munmap")
  /\ Becomes(Munmap(mm, b, b + n))

SysMprotect(b, n, prot) ==
  /\ Enter("mprotect")
  /\ Becomes(Mprotect(mm, b, b + n, prot))

SysBrk(p, inside) ==
  /\ Enter("brk")
  /\ \/ \E h \in mm.regions : FirstHeap(mm, h) /\ Becomes(Brk(mm, h, p, inside))
     \/ (\A r \in mm.regions : ~r.heap) /\ Becomes(Failing(mm, "heap"))

(* Process::clone without CLONE_VM; the behaviour goes on with the child *)
SysFork ==
  /\ Enter("fork")
  /\ Becomes(Clone(mm))

(* Process::prepareExec and the loader: a new address space, empty caches *)
SysExecve ==
  /\ Enter("execve")
  /\ Becomes(Loaded(Image))

Store(p) ==
  /\ Ready /\ p \in Stores
  /\ \E r \in mm.regions : Contains(r, p) /\ "w" \in r.prot
  /\ mm' = [mm EXCEPT !.data[p] = "stored"]

(* Process::fetchSegment of an address that is not in the index: a block   *)
(* is decoded, which may run into the next page, and added to the interval *)
(* that find returns                                                       *)
CanRun(p) == \E r \in mm.regions : Contains(r, p) /\ Executable(r)
AddSegment(s, g, i) ==
  [s EXCEPT
    !.intervals = (@ \ {i}) \cup {[i EXCEPT !.items = @ \cup {g}]},
    !.index = @ \cup {[page |-> g.page, first |-> g.first,
                       last |-> g.last, owner |-> i.start]}]
FetchSegment(at, last) ==
  LET g == [page |-> at.page, first |-> at.first, last |-> last]
  IN  /\ Ready /\ at \in Jumps
      /\ \A e \in mm.index : StartOf(e) # at
      /\ \A p \in at.page..last : CanRun(p)
      /\ \/ \E i \in mm.intervals : Finds(mm.intervals, at, i) /\ Becomes(AddSegment(mm, g, i))
         \/ /\ \A i \in mm.intervals : ~NotBefore(i, at)
            /\ Becomes(Failing(mm, "interval"))

(* nothing runs once the kernel has panicked *)
Panicked == ~Ok(mm) /\ UNCHANGED mm

Next ==
  \/ EnsureNullPage
  \/ \E n \in Lengths :
       \/ \E b \in Pages :
            \/ SysMunmap(b, n)
            \/ \E prot \in Prots : SysMprotect(b, n, prot)
       \/ \E b \in Bounds, how \in Hows, prot \in Prots :
            \/ SysMmap(how, b, n, prot)
            \/ SysMapFile(how, b, n, prot)
  \/ \E p \in Bounds, inside \in BOOLEAN : SysBrk(p, inside)
  \/ SysFork
  \/ SysExecve
  \/ \E p \in Pages : Store(p)
  \/ \E at \in Starts :
       \E last \in {at.page, at.page + 1} \cap Pages : FetchSegment(at, last)
  \/ Panicked

Spec == Init /\ [][Next]_vars

-----------------------------------------------------------------------------
Spaces == [regions : SUBSET Regions, lookup : [Pages -> Pages \cup {Unmapped}],
           data : [Pages -> Contents], intervals : SUBSET Intervals,
           index : SUBSET [page : Pages, first : BOOLEAN, last : Pages,
                           owner : Pages],
           failed : Reasons \cup {"no"}]
TypeOK ==
  /\ mm \in Spaces
  /\ \A r \in mm.regions : r.base < r.end /\ ~r.fresh

(* regionLookup finds the region of a page, the only one, and nothing      *)
(* where there is none: regions never overlap, whatever was split, erased  *)
(* or moved (mmu.cpp:557-589)                                              *)
LookupIsExact ==
  \A p \in Pages :
    /\ \A r, q \in mm.regions :
         Contains(r, p) /\ Contains(q, p) => r = q /\ mm.lookup[p] = r.base
    /\ mm.lookup[p] # Unmapped => \E r \in mm.regions : Contains(r, p)

(* An interval of code is exactly one executable region, so the purge of   *)
(* its range never has to split it (intervalvector.h:134-155)              *)
IntervalsAreRegions ==
  \A i \in mm.intervals :
    \E r \in mm.regions : Executable(r) /\ i.start = r.base /\ i.end = r.end

(* codeSegmentsByAddress_ never holds a pointer to a block that has been   *)
(* destroyed with its interval (process.cpp:164-179)                       *)
IndexNeverDangles ==
  \A e \in mm.index : \E i \in mm.intervals :
    /\ i.start = e.owner
    /\ [page |-> e.page, first |-> e.first, last |-> e.last] \in i.items

(* The promise to the program: the address space implements the page table *)
TableOf(s) ==
  [p \in Pages |->
     IF s.lookup[p] = Unmapped THEN Unmapped
     ELSE [prot |-> RegionAt(s, s.lookup[p]).prot, data |-> s.data[p]]]
PT == INSTANCE PageTable WITH table <- TableOf(mm), Program <- TableOf(Loaded(Image))
ImplementsPageTable == PT!Spec

(* A call changes the pages it names, however they are spread over regions *)
(* that have to be split, and no other                                     *)
CallsAreExact ==
  Ready => \A b \in Pages, n \in Lengths :
    LET R == {p \in Pages : b <= p /\ p < b + n}
        Is(s, table) == Ok(s) => TableOf(s) = table
    IN  /\ Is(Munmap(mm, b, b + n), PT!Unmap(TableOf(mm), R))
        /\ \A prot \in Prots :
             /\ Is(Mprotect(mm, b, b + n, prot),
                   IF Denied(mm, b, b + n, prot) THEN TableOf(mm)
                   ELSE PT!Protect(TableOf(mm), R, prot))
             /\ b + n <= NPages => \A how \in {"fixed", "noreplace"} :
                  /\ Is(Mmap(mm, how, b, n, prot), PT!Map(TableOf(mm), R, prot, 0))
                  /\ \A m \in 0..n :
                       Is(MapFile(mm, how, b, n, prot, m),
                          PT!Map(TableOf(mm), R, prot, b + m))

(* The verify of IntervalVector::insert: the intervals follow the regions  *)
(* so closely that none is in the way of a region that fits, or of one     *)
(* that becomes executable (intervalvector.h:128-130)                      *)
VerifyInsert == mm.failed # "insert"

-----------------------------------------------------------------------------
(* mmu.cpp:76-81: MAP_FIXED replaces whatever was mapped in the range *)
FixedReplaces ==
  [][\A b \in Pages, n \in Lengths, prot \in Prots :
       SysMmap("fixed", b, n, prot) => mm'.failed # "overlap"]_vars

(* intervalvector.h:111: an executable region has an interval to add to *)
VerifyInterval == mm.failed # "interval"
=============================================================================
