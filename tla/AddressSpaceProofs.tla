------------------------- MODULE AddressSpaceProofs -------------------------
(***************************************************************************)
(* Whatever the size of the address space, the program that is loaded and  *)
(* the calls it makes: regionLookup is exact, regions never overlap, an    *)
(* interval of code is an executable region, the index of blocks never     *)
(* dangles and no interval is in the way of a region that fits; and what   *)
(* the program sees of all that is the page table of module PageTable.     *)
(*                                                                         *)
(* A system call is a composition of operators on the whole space (take,   *)
(* add, split, ...).  The invariant is therefore stated for any space s:   *)
(* Good(s).  A lemma for each operator says that its result is good, and   *)
(* one for its fields, from which the first follows.  A third one says     *)
(* what the operator does to the entry of each page, from which it follows *)
(* what a call does to the table: regions are split into parts that have   *)
(* the same pages (Parts), at both ends of the range of the call (Cut), so *)
(* that it takes or changes whole regions and no page outside of them.     *)
(***************************************************************************)
EXTENDS AddressSpace, TLAPS

Typed(s) ==
  /\ s \in Spaces
  /\ \A r \in s.regions : r.base < r.end /\ ~r.fresh
Exact(s) ==
  \A p \in Pages :
    /\ \A r, q \in s.regions :
         Contains(r, p) /\ Contains(q, p) => r = q /\ s.lookup[p] = r.base
    /\ s.lookup[p] # Unmapped => \E r \in s.regions : Contains(r, p)
Matched(s) ==
  \A i \in s.intervals :
    \E r \in s.regions : Executable(r) /\ i.start = r.base /\ i.end = r.end
BlockOf(e) == [page |-> e.page, first |-> e.first, last |-> e.last]
Indexed(s) ==
  \A e \in s.index :
    \E i \in s.intervals : i.start = e.owner /\ BlockOf(e) \in i.items
Good(s) ==
  Typed(s) /\ Exact(s) /\ Matched(s) /\ Indexed(s) /\ s.failed # "insert"

(* Every reachable space is good. *)
IInv == Good(mm)

-----------------------------------------------------------------------------
(* Two regions of a good space with a page in common are the same. *)
LEMMA Disjoint ==
  ASSUME NEW s, Good(s), NEW r \in s.regions, NEW q \in s.regions,
         r.base < q.end, q.base < r.end
  PROVE  r = q
<1>1. r \in Regions /\ q \in Regions /\ r.base < r.end /\ q.base < q.end
  BY DEF Good, Typed, Spaces
<1>2. PICK p \in Pages : Contains(r, p) /\ Contains(q, p)
  <2>1. CASE r.base <= q.base
    BY <1>1, <2>1 DEF Contains, Regions, Pages, Bounds
  <2>2. CASE q.base <= r.base
    BY <1>1, <2>2 DEF Contains, Regions, Pages, Bounds
  <2> QED BY <1>1, <2>1, <2>2 DEF Regions, Pages
<1> QED BY <1>2 DEF Good, Exact

(* regionLookup leads to the region of a page (Mmu::findAddress). *)
LEMMA RegionFound ==
  ASSUME NEW s, Good(s), NEW p \in Pages, s.lookup[p] # Unmapped
  PROVE  /\ RegionAt(s, s.lookup[p]) \in s.regions
         /\ Contains(RegionAt(s, s.lookup[p]), p)
         /\ RegionAt(s, s.lookup[p]).base = s.lookup[p]
<1>1. PICK r \in s.regions : Contains(r, p) /\ s.lookup[p] = r.base
  BY DEF Good, Exact
<1>2. \A q \in s.regions : q.base = r.base => q = r
  <2> SUFFICES ASSUME NEW q \in s.regions, q.base = r.base PROVE q = r
    OBVIOUS
  <2>1. r \in Regions /\ q \in Regions /\ r.base < r.end /\ q.base < q.end
    BY DEF Good, Typed, Spaces
  <2>2. r.base < q.end /\ q.base < r.end
    BY <2>1 DEF Regions, Pages, Bounds
  <2> QED BY <2>2, Disjoint
<1>3. RegionAt(s, s.lookup[p]) = r
  BY <1>1, <1>2 DEF RegionAt
<1> QED BY <1>1, <1>3

(* The verify that fails does not matter to the rest of the space. *)
LEMMA FailingGood ==
  ASSUME NEW s, Good(s), NEW why \in Reasons \ {"insert"}
  PROVE  Good(Failing(s, why))
<1> DEFINE u == Failing(s, why)
<1>1. /\ u.regions = s.regions /\ u.lookup = s.lookup /\ u.intervals = s.intervals
      /\ u.index = s.index /\ u.failed = why /\ u \in Spaces
  BY DEF Failing, Good, Typed, Spaces
<1> HIDE DEF u
<1>2. Typed(u) /\ Exact(u) /\ Matched(u) /\ Indexed(u)
  BY <1>1 DEF Good, Typed, Exact, Matched, Indexed
<1> QED BY <1>1, <1>2 DEF Good, u

-----------------------------------------------------------------------------
(* Taking regions out of the space. *)

(* A purge keeps the intervals that do not start in a range of X or at its *)
(* end.  The blocks of those it erases have been visited, so the index     *)
(* finds its blocks as before (onRegionDestruction).                       *)
LEMMA ForgetKeeps ==
  ASSUME NEW s, s \in Spaces, Indexed(s), NEW X \in SUBSET Regions,
         \A i \in s.intervals : i.start < i.end
  PROVE  LET u == Forget(s, X)
         IN  /\ u \in Spaces /\ u.regions = s.regions /\ u.lookup = s.lookup
             /\ u.data = s.data /\ u.failed = s.failed
             /\ u.intervals \subseteq s.intervals /\ u.index \subseteq s.index
             /\ \A i \in u.intervals, r \in X :
                  ~(r.base <= i.start /\ i.start <= r.end)
             /\ Indexed(u)
<1> DEFINE u == Forget(s, X)
           I == s.intervals \ UNION {Erased(s.intervals, r) : r \in X}
           P == {StartOf(g) : g \in UNION {i.items :
                   i \in UNION {Visited(s.intervals, r) : r \in X}}}
           E == {e \in s.index : StartOf(e) \notin P}
<1>1. I \subseteq s.intervals /\ E \subseteq s.index
  OBVIOUS
<1>2. u = [s EXCEPT !.intervals = I, !.index = E]
  BY DEF Forget
<1>3. \A i \in I, r \in X : ~(r.base <= i.start /\ i.start <= r.end)
  BY DEF Erased
<1>4. ASSUME NEW e \in E
      PROVE  \E i \in I : i.start = e.owner /\ BlockOf(e) \in i.items
  <2>1. e \in s.index /\ StartOf(e) \notin P
    OBVIOUS
  <2>2. PICK i \in s.intervals : i.start = e.owner /\ BlockOf(e) \in i.items
    BY <2>1 DEF Indexed
  <2>3. StartOf(BlockOf(e)) = StartOf(e)
    BY DEF StartOf, BlockOf
  <2>4. ASSUME NEW r \in X PROVE i \notin Visited(s.intervals, r)
    BY <2>1, <2>2, <2>3
  <2>5. ASSUME NEW r \in X, i \in Erased(s.intervals, r) PROVE FALSE
    <3>1. i.start >= r.base /\ i.start <= r.end /\ i.start < i.end
      BY <2>5 DEF Erased
    <3>2. i.start \in Int /\ i.end \in Int /\ r.base \in Int /\ r.end \in Int
      BY DEF Spaces, Intervals, Regions, Pages, Bounds
    <3>3. i.end >= r.base
      BY <3>1, <3>2
    <3> QED BY <2>4, <3>1, <3>3 DEF Visited
  <2> QED BY <2>2, <2>5
<1> HIDE DEF I, E, u
<1>5. /\ u \in Spaces /\ u.regions = s.regions /\ u.lookup = s.lookup
      /\ u.data = s.data /\ u.failed = s.failed
      /\ u.intervals = I /\ u.index = E
  BY <1>1, <1>2 DEF Spaces
<1>6. Indexed(u)
  BY <1>4, <1>5 DEF Indexed
<1> QED BY <1>1, <1>3, <1>5, <1>6 DEF u

(* An interval is a region, so it is not empty. *)
LEMMA IntervalsNotEmpty ==
  ASSUME NEW s, Good(s), NEW i \in s.intervals
  PROVE  i.start < i.end
BY DEF Good, Typed, Matched

(* What takeRegion does: the regions leave regions and regionLookup, and   *)
(* the caches forget those that were executable.                           *)
LEMMA TakeFields ==
  ASSUME NEW s, Good(s), NEW R \in SUBSET Regions
  PROVE  LET u == TakeRegions(s, R)
         IN  /\ u \in Spaces
             /\ u.regions = s.regions \ R
             /\ u.lookup = [p \in Pages |->
                  IF \E r \in R : Contains(r, p) THEN Unmapped ELSE s.lookup[p]]
             /\ u.data = s.data
             /\ u.failed = s.failed
             /\ u.intervals \subseteq s.intervals
             /\ \A i \in u.intervals, r \in R : Executable(r) =>
                  ~(r.base <= i.start /\ i.start <= r.end)
             /\ Indexed(u)
<1> DEFINE X == {r \in R : Executable(r)}
           L == [p \in Pages |->
                  IF \E r \in R : Contains(r, p) THEN Unmapped ELSE s.lookup[p]]
           t == [s EXCEPT !.regions = @ \ R, !.lookup = L]
           u == Forget(t, X)
<1>1. s \in Spaces
  BY DEF Good, Typed
<1>2. L \in [Pages -> Pages \cup {Unmapped}]
  BY <1>1 DEF Spaces
<1> HIDE DEF L
<1>3. /\ t \in Spaces /\ t.regions = s.regions \ R /\ t.lookup = L
      /\ t.data = s.data /\ t.failed = s.failed
      /\ t.intervals = s.intervals /\ t.index = s.index
  BY <1>1, <1>2 DEF Spaces
<1>4. TakeRegions(s, R) = u
  BY DEF TakeRegions, L
<1> HIDE DEF t, u
<1>5. Indexed(t)
  BY <1>3 DEF Good, Indexed
<1>6. \A i \in t.intervals : i.start < i.end
  BY <1>3, IntervalsNotEmpty
<1>7. /\ u \in Spaces /\ u.regions = t.regions /\ u.lookup = t.lookup
      /\ u.data = t.data /\ u.failed = t.failed
      /\ u.intervals \subseteq t.intervals
      /\ \A i \in u.intervals, r \in X : ~(r.base <= i.start /\ i.start <= r.end)
      /\ Indexed(u)
  <2>1. X \in SUBSET Regions
    OBVIOUS
  <2> HIDE DEF X
  <2> QED BY <1>3, <1>5, <1>6, <2>1, ForgetKeeps DEF u
<1> QED BY <1>3, <1>4, <1>7 DEF L

(* Regions leave the space with their intervals. *)
LEMMA TakeGood ==
  ASSUME NEW s, Good(s), NEW R \in SUBSET s.regions
  PROVE  Good(TakeRegions(s, R))
<1> DEFINE u == TakeRegions(s, R)
<1>1. R \in SUBSET Regions
  BY DEF Good, Typed, Spaces
<1>2. /\ u \in Spaces /\ u.regions = s.regions \ R /\ u.failed = s.failed
      /\ u.lookup = [p \in Pages |->
            IF \E r \in R : Contains(r, p) THEN Unmapped ELSE s.lookup[p]]
      /\ u.intervals \subseteq s.intervals
      /\ \A i \in u.intervals, r \in R : Executable(r) =>
            ~(r.base <= i.start /\ i.start <= r.end)
      /\ Indexed(u)
  BY <1>1, TakeFields
<1> HIDE DEF u
<1>3. Typed(u)
  BY <1>2 DEF Good, Typed
<1>4. Exact(u)
  <2> SUFFICES ASSUME NEW p \in Pages
               PROVE  /\ \A r, q \in u.regions :
                           Contains(r, p) /\ Contains(q, p)
                             => r = q /\ u.lookup[p] = r.base
                      /\ u.lookup[p] # Unmapped => \E r \in u.regions : Contains(r, p)
    BY DEF Exact
  <2>1. ASSUME NEW r \in u.regions, NEW q \in u.regions, Contains(r, p), Contains(q, p)
        PROVE  r = q /\ u.lookup[p] = r.base
    <3>1. r \in s.regions /\ q \in s.regions /\ r \notin R
      BY <1>2
    <3>2. r = q /\ s.lookup[p] = r.base
      BY <2>1, <3>1 DEF Good, Exact
    <3>3. \A o \in R : ~Contains(o, p)
      BY <2>1, <3>1 DEF Good, Exact
    <3> QED BY <1>2, <3>2, <3>3
  <2>2. ASSUME u.lookup[p] # Unmapped PROVE \E r \in u.regions : Contains(r, p)
    <3>1. s.lookup[p] # Unmapped /\ \A o \in R : ~Contains(o, p)
      BY <1>2, <2>2
    <3>2. PICK r \in s.regions : Contains(r, p)
      BY <3>1 DEF Good, Exact
    <3> QED BY <1>2, <3>1, <3>2
  <2> QED BY <2>1, <2>2
<1>5. Matched(u)
  <2> SUFFICES ASSUME NEW i \in u.intervals
               PROVE  \E r \in u.regions :
                        Executable(r) /\ i.start = r.base /\ i.end = r.end
    BY DEF Matched
  <2>1. PICK r \in s.regions : Executable(r) /\ i.start = r.base /\ i.end = r.end
    BY <1>2 DEF Good, Matched
  <2>2. r.base <= i.start /\ i.start <= r.end
    BY <2>1 DEF Good, Typed, Spaces, Regions, Pages, Bounds
  <2> QED BY <1>2, <2>1, <2>2
<1> QED BY <1>2, <1>3, <1>4, <1>5 DEF Good, u

-----------------------------------------------------------------------------
(* Adding a region to the space. *)

(* An interval that is reserved for a region that has no page in common    *)
(* with the executable ones meets no other interval.                       *)
LEMMA ReserveFields ==
  ASSUME NEW s, s \in Spaces, NEW R \in SUBSET Regions,
         \A r \in R : ~Reached(s, r)
  PROVE  LET u == Reserve(s, R)
         IN  /\ u \in Spaces /\ u.regions = s.regions /\ u.lookup = s.lookup
             /\ u.data = s.data /\ u.index = s.index /\ u.failed = s.failed
             /\ u.intervals = s.intervals \cup {IntervalOf(r) : r \in R}
<1>1. {IntervalOf(r) : r \in R} \subseteq Intervals
  BY DEF IntervalOf, Intervals, Regions
<1>2. Reserve(s, R) = [s EXCEPT !.intervals = @ \cup {IntervalOf(r) : r \in R}]
  BY DEF Reserve
<1> DEFINE I == s.intervals \cup {IntervalOf(r) : r \in R}
<1>3. I \subseteq Intervals
  BY <1>1 DEF Spaces
<1> HIDE DEF I
<1>4. /\ [s EXCEPT !.intervals = I] \in Spaces
      /\ [s EXCEPT !.intervals = I].regions = s.regions
      /\ [s EXCEPT !.intervals = I].lookup = s.lookup
      /\ [s EXCEPT !.intervals = I].data = s.data
      /\ [s EXCEPT !.intervals = I].index = s.index
      /\ [s EXCEPT !.intervals = I].failed = s.failed
      /\ [s EXCEPT !.intervals = I].intervals = I
  BY <1>3 DEF Spaces
<1> QED BY <1>2, <1>4 DEF I

(* What addRegion does with a region that fits. *)
LEMMA AddFields ==
  ASSUME NEW s, Good(s), Ok(s), NEW r \in Regions, Fits(s, r)
  PROVE  LET u == AddRegion(s, r)
         IN  /\ u \in Spaces
             /\ u.regions = s.regions \cup {Settled(r)}
             /\ u.lookup = [p \in Pages |->
                  IF Contains(r, p) THEN r.base ELSE s.lookup[p]]
             /\ u.data = [p \in Pages |->
                  IF r.fresh /\ Contains(r, p) THEN "zero" ELSE s.data[p]]
             /\ u.index = s.index /\ u.failed = "no"
             /\ u.intervals = s.intervals \cup
                  (IF Executable(r) THEN {IntervalOf(r)} ELSE {})
<1> DEFINE L == [p \in Pages |-> IF Contains(r, p) THEN r.base ELSE s.lookup[p]]
           D == [p \in Pages |->
                  IF r.fresh /\ Contains(r, p) THEN "zero" ELSE s.data[p]]
           t == [s EXCEPT !.regions = @ \cup {Settled(r)}, !.lookup = L, !.data = D]
<1>1. s \in Spaces
  BY DEF Good, Typed
<1>2. L \in [Pages -> Pages \cup {Unmapped}] /\ D \in [Pages -> Contents]
  BY <1>1 DEF Spaces, Regions, Contents
<1>3. Settled(r) \in Regions
  BY DEF Settled, Regions
<1> HIDE DEF L, D
<1>4. /\ t \in Spaces /\ t.regions = s.regions \cup {Settled(r)}
      /\ t.lookup = L /\ t.data = D /\ t.failed = s.failed
      /\ t.intervals = s.intervals /\ t.index = s.index
  BY <1>1, <1>2, <1>3 DEF Spaces
<1>5. AddRegion(s, r) = IF Executable(r) THEN Reserve(t, {r}) ELSE t
  BY <1>1 DEF AddRegion, Fits, L, D, Spaces
<1> HIDE DEF t
<1>6. ~Reached(t, r)
  <2> SUFFICES ASSUME NEW i \in s.intervals, r.base <= i.start, i.start < r.end
               PROVE  FALSE
    BY <1>4 DEF Reached
  <2>1. PICK q \in s.regions : i.start = q.base
    BY DEF Good, Matched
  <2>2. q \in Regions /\ q.base < q.end
    BY DEF Good, Typed, Spaces
  <2>3. Contains(q, q.base) /\ Contains(r, q.base) /\ q.base \in Pages
    BY <2>1, <2>2 DEF Contains, Regions, Pages
  <2>4. s.lookup[q.base] = q.base
    BY <2>3 DEF Good, Exact
  <2>5. s.lookup[q.base] = Unmapped
    BY <2>3 DEF Fits, PagesOf
  <2> QED BY <2>3, <2>4, <2>5, ValuesAssumption
<1>7. s.failed = "no"
  BY DEF Ok
<1>8. CASE Executable(r)
  BY <1>4, <1>5, <1>6, <1>7, <1>8, ReserveFields DEF L, D
<1>9. CASE ~Executable(r)
  BY <1>4, <1>5, <1>7, <1>9 DEF L, D
<1> QED BY <1>8, <1>9

(* A region that addRegion could add is there (Mmu::brk takes it again). *)
LEMMA AddedIsThere ==
  ASSUME NEW s, Good(s), Ok(s), NEW r \in Regions, Ok(AddRegion(s, r))
  PROVE  Settled(r) \in AddRegion(s, r).regions
<1>1. CASE Fits(s, r)
  <2>1. AddRegion(s, r).regions = s.regions \cup {Settled(r)}
    BY <1>1, AddFields, Zenon
  <2> QED BY <2>1
<1>2. CASE ~Fits(s, r)
  <2>1. AddRegion(s, r) = Failing(s, "overlap")
    BY <1>2 DEF AddRegion
  <2>2. Failing(s, "overlap").failed = "overlap"
    BY DEF Failing, Good, Typed, Spaces
  <2> QED BY <2>1, <2>2 DEF Ok
<1> QED BY <1>1, <1>2

(* addRegion either fails, or adds a region to pages that have none. *)
LEMMA AddGood ==
  ASSUME NEW s, Good(s), NEW r \in Regions
  PROVE  Good(AddRegion(s, r))
<1>1. CASE ~Ok(s)
  BY <1>1 DEF AddRegion
<1>2. CASE Ok(s) /\ ~Fits(s, r)
  <2>1. AddRegion(s, r) = Failing(s, "overlap")
    BY <1>2 DEF AddRegion
  <2> QED BY <2>1, FailingGood DEF Reasons
<1>3. CASE Ok(s) /\ Fits(s, r)
  <2> DEFINE u == AddRegion(s, r)
             q == Settled(r)
  <2>1. /\ u \in Spaces /\ u.regions = s.regions \cup {q}
        /\ u.lookup = [p \in Pages |->
             IF Contains(r, p) THEN r.base ELSE s.lookup[p]]
        /\ u.index = s.index /\ u.failed = "no"
        /\ u.intervals = s.intervals \cup
             (IF Executable(r) THEN {IntervalOf(r)} ELSE {})
    BY <1>3, AddFields
  <2>2. /\ q.base = r.base /\ q.end = r.end /\ q.prot = r.prot /\ ~q.fresh
        /\ r.base < r.end
    BY <1>3 DEF Settled, Regions, Fits
  <2>3. \A p \in Pages : Contains(q, p) <=> Contains(r, p)
    BY <2>2 DEF Contains
  <2>4. \A p \in Pages : Contains(r, p) => s.lookup[p] = Unmapped
    BY <1>3 DEF Fits, PagesOf
  <2> HIDE DEF u, q
  <2>5. Typed(u)
    BY <2>1, <2>2 DEF Good, Typed
  <2>6. Exact(u)
    <3> SUFFICES ASSUME NEW p \in Pages
                 PROVE  /\ \A o, o2 \in u.regions :
                             Contains(o, p) /\ Contains(o2, p)
                               => o = o2 /\ u.lookup[p] = o.base
                        /\ u.lookup[p] # Unmapped => \E o \in u.regions : Contains(o, p)
      BY DEF Exact
    <3>1. \A o \in s.regions : Contains(o, p) => s.lookup[p] = o.base /\ o.base \in Pages
      BY DEF Good, Exact, Typed, Spaces, Regions
    <3>2. CASE Contains(r, p)
      <4>1. \A o \in s.regions : ~Contains(o, p)
        BY <2>4, <3>1, <3>2, ValuesAssumption
      <4> QED BY <2>1, <2>2, <2>3, <3>2, <4>1
    <3>3. CASE ~Contains(r, p)
      BY <2>1, <2>3, <3>3 DEF Good, Exact
    <3> QED BY <3>2, <3>3
  <2>7. Matched(u)
    <3>1. IntervalOf(r).start = r.base /\ IntervalOf(r).end = r.end
      BY DEF IntervalOf
    <3> QED BY <2>1, <2>2, <3>1 DEF Good, Matched, Executable
  <2>8. Indexed(u)
    BY <2>1 DEF Good, Indexed
  <2> QED BY <2>1, <2>5, <2>6, <2>7, <2>8 DEF Good, u
<1> QED BY <1>1, <1>2, <1>3

-----------------------------------------------------------------------------
(* The operations of Mmu. *)

(* A region is only split inside, so both parts have pages. *)
LEMMA SplitGood ==
  ASSUME NEW s, Good(s), NEW p
  PROVE  Good(Split(s, p))
<1>1. CASE FindAddress(s, p) \in {Unmapped, p}
  BY <1>1 DEF Split
<1>2. CASE FindAddress(s, p) \notin {Unmapped, p}
  <2> DEFINE r == RegionAt(s, FindAddress(s, p))
             left == [r EXCEPT !.end = p]
             right == [r EXCEPT !.base = p]
  <2>1. p \in Pages /\ FindAddress(s, p) = s.lookup[p]
    BY <1>2 DEF FindAddress
  <2>2. r \in s.regions /\ Contains(r, p) /\ r.base # p
    BY <1>2, <2>1, RegionFound
  <2>3. r \in Regions
    BY <2>2 DEF Good, Typed, Spaces
  <2> HIDE DEF r
  <2>4. left \in Regions /\ right \in Regions
    BY <2>1, <2>3, BoundsAssumption DEF Regions, Pages, Bounds
  <2>5. Good(TakeRegions(s, {r}))
    BY <2>2, TakeGood
  <2>6. Good(AddRegion(AddRegion(TakeRegions(s, {r}), left), right))
    BY <2>4, <2>5, AddGood
  <2>7. Split(s, p) = AddRegion(AddRegion(TakeRegions(s, {r}), left), right)
    BY <1>2 DEF Split, r
  <2> QED BY <2>6, <2>7
<1> QED BY <1>1, <1>2

(* Both ends of a range are split. *)
LEMMA SplitAroundGood ==
  ASSUME NEW s, Good(s), NEW lo, NEW hi
  PROVE  Good(SplitAround(s, lo, hi))
BY SplitGood DEF SplitAround

(* Mmu::mmap *)
LEMMA MmapGood ==
  ASSUME NEW s, Good(s), NEW how, NEW b \in Bounds, NEW n \in Nat,
         NEW prot \in Protections
  PROVE  Good(Mmap(s, how, b, n, prot))
<1> DEFINE r == NewRegion(b, b + n, prot)
<1>1. CASE n = 0
  BY <1>1, FailingGood DEF Mmap, Reasons
<1>2. CASE n # 0 /\ b + n > NPages
  BY <1>2 DEF Mmap
<1>3. CASE n # 0 /\ b + n <= NPages
  <2>1. r \in Regions
    BY <1>3, BoundsAssumption DEF NewRegion, Regions, Pages, Bounds
  <2>2. ~(b + n > NPages)
    BY <1>3, BoundsAssumption DEF Bounds
  <2>3. CASE how = "fixed"
    <3> DEFINE t == SplitAround(s, r.base, r.end)
               old == {q \in t.regions : Contains(q, r.base) \/ Contains(q, r.end - 1)}
    <3>1. Good(t)
      BY SplitAroundGood
    <3>2. Good(TakeRegions(t, old))
      BY <3>1, TakeGood
    <3>3. Mmap(s, how, b, n, prot) = AddRegion(TakeRegions(t, old), r)
      BY <1>3, <2>2, <2>3 DEF Mmap, AddAndEraseExisting
    <3> QED BY <2>1, <3>2, <3>3, AddGood
  <2>4. CASE how # "fixed"
    <3>1. Mmap(s, how, b, n, prot) = AddRegion(s, r)
      BY <1>3, <2>2, <2>4 DEF Mmap
    <3> QED BY <2>1, <3>1, AddGood
  <2> QED BY <2>3, <2>4
<1> QED BY <1>1, <1>2, <1>3, BoundsAssumption DEF Bounds

(* Mmu::munmap *)
LEMMA MunmapGood ==
  ASSUME NEW s, Good(s), NEW lo, NEW hi
  PROVE  Good(Munmap(s, lo, hi))
BY SplitAroundGood, TakeGood DEF Munmap, Within

(* The loop of Mmu::mprotect and the callbacks: regions that become        *)
(* executable get an interval, those that are not any more lose theirs.    *)
LEMMA SetProtectionGood ==
  ASSUME NEW s, Good(s), NEW R \in SUBSET s.regions, NEW prot \in Protections
  PROVE  Good(SetProtection(s, R, prot))
<1> DEFINE As(r) == [r EXCEPT !.prot = prot]
           N == (s.regions \ R) \cup {As(r) : r \in R}
           t == [s EXCEPT !.regions = N]
<1>1. s \in Spaces /\ s.regions \subseteq Regions
  BY DEF Good, Typed, Spaces
<1>2. \A r \in R : /\ As(r) \in Regions /\ As(r).base = r.base /\ As(r).end = r.end
                   /\ As(r).prot = prot /\ As(r).fresh = r.fresh
  BY <1>1 DEF Regions
<1> HIDE DEF As
<1>3. N \subseteq Regions
  BY <1>1, <1>2
<1> HIDE DEF N
<1>4. /\ t \in Spaces /\ t.regions = N /\ t.lookup = s.lookup /\ t.failed = s.failed
      /\ t.intervals = s.intervals /\ t.index = s.index
  BY <1>1, <1>3 DEF Spaces
<1> HIDE DEF t
<1>5. SetProtection(s, R, prot) =
        IF "x" \in prot THEN Reserve(t, {r \in R : ~Executable(r)})
                        ELSE Forget(t, {r \in R : Executable(r)})
  BY DEF SetProtection, t, N, As
<1>6. Typed(t)
  BY <1>2, <1>4 DEF Good, Typed, N
<1>7. Exact(t)
  <2> SUFFICES ASSUME NEW p \in Pages
               PROVE  /\ \A r, q \in N :
                           Contains(r, p) /\ Contains(q, p)
                             => r = q /\ s.lookup[p] = r.base
                      /\ s.lookup[p] # Unmapped => \E r \in N : Contains(r, p)
    BY <1>4 DEF Exact
  <2>1. \A r \in R : Contains(As(r), p) <=> Contains(r, p)
    BY <1>2 DEF Contains
  <2>2. \A r, q \in s.regions :
          Contains(r, p) /\ Contains(q, p) => r = q /\ s.lookup[p] = r.base
    BY DEF Good, Exact
  <2>3. ASSUME NEW r \in N, NEW q \in N, Contains(r, p), Contains(q, p)
        PROVE  r = q /\ s.lookup[p] = r.base
    <3>1. PICK r0 \in s.regions : /\ Contains(r0, p) /\ r0.base = r.base
                                  /\ r = IF r0 \in R THEN As(r0) ELSE r0
      BY <1>2, <2>1, <2>3 DEF N
    <3>2. PICK q0 \in s.regions : /\ Contains(q0, p) /\ q0.base = q.base
                                  /\ q = IF q0 \in R THEN As(q0) ELSE q0
      BY <1>2, <2>1, <2>3 DEF N
    <3> QED BY <2>2, <3>1, <3>2
  <2>4. ASSUME s.lookup[p] # Unmapped PROVE \E r \in N : Contains(r, p)
    <3>1. PICK r \in s.regions : Contains(r, p)
      BY <2>4 DEF Good, Exact
    <3> QED BY <2>1, <3>1 DEF N
  <2> QED BY <2>3, <2>4
<1>8. CASE "x" \in prot
  <2> DEFINE X == {r \in R : ~Executable(r)}
             u == Reserve(t, X)
  <2>1. \A r \in X : ~Reached(t, r)
    <3> SUFFICES ASSUME NEW r \in X, NEW i \in s.intervals,
                        r.base <= i.start, i.start < r.end
                 PROVE  FALSE
      BY <1>4 DEF Reached
    <3>1. PICK q \in s.regions : Executable(q) /\ i.start = q.base
      BY DEF Good, Matched
    <3>2. r \in Regions /\ q \in Regions /\ q.base < q.end /\ r \in s.regions
      BY <1>1 DEF Good, Typed
    <3>3. r.base < q.end /\ q.base < r.end
      BY <3>1, <3>2 DEF Regions, Pages, Bounds
    <3>4. r = q
      BY <3>2, <3>3, Disjoint
    <3> QED BY <3>1, <3>4
  <2>2. /\ u \in Spaces /\ u.regions = N /\ u.lookup = t.lookup /\ u.failed = t.failed
        /\ u.index = t.index
        /\ u.intervals = s.intervals \cup {IntervalOf(r) : r \in X}
    <3>1. X \in SUBSET Regions
      BY <1>1
    <3> QED BY <1>4, <2>1, <3>1, ReserveFields
  <2> HIDE DEF u
  <2>3. Matched(u)
    <3> SUFFICES ASSUME NEW i \in u.intervals
                 PROVE  \E r \in N : Executable(r) /\ i.start = r.base /\ i.end = r.end
      BY <2>2 DEF Matched
    <3>1. PICK r \in s.regions : /\ i.start = r.base /\ i.end = r.end
                                 /\ Executable(r) \/ r \in R
      <4>1. CASE i \in s.intervals
        BY <4>1 DEF Good, Matched
      <4>2. CASE i \in {IntervalOf(r) : r \in X}
        BY <4>2 DEF IntervalOf
      <4> QED BY <2>2, <4>1, <4>2
    <3>2. CASE r \in R
      BY <1>2, <1>8, <3>1, <3>2 DEF N, Executable
    <3>3. CASE r \notin R
      BY <3>1, <3>3 DEF N
    <3> QED BY <3>2, <3>3
  <2>4. Indexed(u)
    BY <1>4, <2>2 DEF Good, Indexed
  <2>5. Typed(u) /\ Exact(u) /\ u.failed # "insert"
    BY <1>4, <1>6, <1>7, <2>2 DEF Good, Typed, Exact
  <2> QED BY <1>5, <1>8, <2>3, <2>4, <2>5 DEF Good, u
<1>9. CASE "x" \notin prot
  <2> DEFINE X == {r \in R : Executable(r)}
             u == Forget(t, X)
  <2>1. X \in SUBSET Regions
    BY <1>1
  <2>2. Indexed(t) /\ \A i \in t.intervals : i.start < i.end
    BY <1>4, IntervalsNotEmpty DEF Good, Indexed
  <2>3. /\ u \in Spaces /\ u.regions = N /\ u.lookup = s.lookup /\ u.failed = s.failed
        /\ u.intervals \subseteq s.intervals
        /\ \A i \in u.intervals, r \in X : ~(r.base <= i.start /\ i.start <= r.end)
        /\ Indexed(u)
    <3> HIDE DEF X
    <3> QED BY <1>4, <2>1, <2>2, ForgetKeeps
  <2> HIDE DEF u
  <2>4. Matched(u)
    <3> SUFFICES ASSUME NEW i \in u.intervals
                 PROVE  \E r \in N : Executable(r) /\ i.start = r.base /\ i.end = r.end
      BY <2>3 DEF Matched
    <3>1. PICK r \in s.regions : Executable(r) /\ i.start = r.base /\ i.end = r.end
      BY <2>3 DEF Good, Matched
    <3>2. r.base <= i.start /\ i.start <= r.end
      BY <3>1 DEF Good, Typed, Spaces, Regions, Pages, Bounds
    <3> QED BY <2>3, <3>1, <3>2 DEF N
  <2>5. Typed(u) /\ Exact(u) /\ u.failed # "insert"
    BY <1>4, <1>6, <1>7, <2>3 DEF Good, Typed, Exact
  <2> QED BY <1>5, <1>9, <2>3, <2>4, <2>5 DEF Good, u
<1> QED BY <1>8, <1>9

(* Mmu::mprotect *)
LEMMA MprotectGood ==
  ASSUME NEW s, Good(s), NEW lo, NEW hi, NEW prot \in Protections
  PROVE  Good(Mprotect(s, lo, hi, prot))
<1> DEFINE t == SplitAround(s, lo, hi)
<1>1. Good(t)
  BY SplitAroundGood
<1>2. Good(SetProtection(t, Within(t, lo, hi), prot))
  <2>1. Within(t, lo, hi) \in SUBSET t.regions
    BY DEF Within
  <2> QED BY <1>1, <2>1, SetProtectionGood
<1>3. Mprotect(s, lo, hi, prot) \in {s, t, SetProtection(t, Within(t, lo, hi), prot)}
  BY DEF Mprotect
<1> QED BY <1>1, <1>2, <1>3

(* Reading a file into the pages only changes what they hold. *)
LEMMA FillGood ==
  ASSUME NEW s, Good(s), NEW b, NEW n, NEW m
  PROVE  Good(Fill(s, b, n, m))
<1> DEFINE D == [p \in Pages |->
                  IF b <= p /\ p < b + n /\ p < b + m THEN "file" ELSE s.data[p]]
           u == [s EXCEPT !.data = D]
<1>1. s \in Spaces
  BY DEF Good, Typed
<1>2. D \in [Pages -> Contents]
  BY <1>1 DEF Spaces, Contents
<1> HIDE DEF D
<1>3. /\ u \in Spaces /\ u.regions = s.regions /\ u.lookup = s.lookup
      /\ u.failed = s.failed /\ u.intervals = s.intervals /\ u.index = s.index
  BY <1>1, <1>2 DEF Spaces
<1>4. Fill(s, b, n, m) = u
  BY DEF Fill, D
<1> HIDE DEF u
<1> QED BY <1>3, <1>4 DEF Good, Typed, Exact, Matched, Indexed

(* Sys::mmap of a file *)
LEMMA MapFileGood ==
  ASSUME NEW s, Good(s), NEW how, NEW b \in Bounds, NEW n \in Nat,
         NEW prot \in Protections, NEW m
  PROVE  Good(MapFile(s, how, b, n, prot, m))
<1> DEFINE t == Mmap(s, how, b, n, prot)
           rw == (prot \cup {"w"}) \ {"x"}
           u == Mprotect(t, b, b + n, rw)
           v == Mprotect(Fill(u, b, n, m), b, b + n, prot)
<1>1. Good(t)
  BY MmapGood
<1>2. rw \in Protections
  BY DEF Protections
<1>3. Good(u)
  BY <1>1, <1>2, MprotectGood
<1>4. Good(Fill(u, b, n, m))
  BY <1>3, FillGood
<1>5. Good(v)
  BY <1>4, MprotectGood
<1>6. Good(Failing(s, "mprotect"))
  BY FailingGood DEF Reasons
<1>7. MapFile(s, how, b, n, prot, m) \in {t, Failing(s, "mprotect"), v}
  BY DEF MapFile
<1> QED BY <1>1, <1>5, <1>6, <1>7

(* Mmu::brk: the extension is added, taken back and appended to the heap,  *)
(* or the heap is taken and added again, shorter.                          *)
LEMMA BrkGood ==
  ASSUME NEW s, Good(s), NEW h \in s.regions, NEW p \in Bounds,
         NEW inside \in BOOLEAN
  PROVE  Good(Brk(s, h, p, inside))
<1> DEFINE hi == IF inside THEN p + 1 ELSE p
<1>1. h \in Regions /\ h.base < h.end
  BY DEF Good, Typed, Spaces
<1>2. Good(TakeRegions(s, {h}))
  BY TakeGood
<1>3. CASE BrkRefused(s, h, p, inside)
  BY <1>3 DEF Brk
<1>4. CASE ~BrkRefused(s, h, p, inside) /\ p >= h.end
  <2>1. h.end \in Pages /\ hi \in Bounds
    BY <1>1, <1>4, BoundsAssumption DEF BrkRefused, Regions, Pages, Bounds
  <2> HIDE DEF hi
  <2> DEFINE r == NewRegion(h.end, hi, {"r", "w"})
             t == AddRegion(TakeRegions(s, {h}), r)
             longer == [h EXCEPT !.end = hi]
  <2>2. r \in Regions /\ longer \in Regions
    BY <1>1, <2>1 DEF NewRegion, Regions, Protections
  <2>3. Good(t)
    BY <1>2, <2>2, AddGood
  <2>4. ASSUME Ok(t) PROVE Good(AddRegion(TakeRegions(t, {Settled(r)}), longer))
    <3>1. Ok(TakeRegions(s, {h}))
      BY <2>4 DEF AddRegion
    <3>2. Settled(r) \in t.regions
      <4> HIDE DEF r
      <4> QED BY <1>2, <2>2, <2>4, <3>1, AddedIsThere
    <3>3. Good(TakeRegions(t, {Settled(r)}))
      BY <2>3, <3>2, TakeGood
    <3> QED BY <2>2, <3>3, AddGood
  <2>5. Good(Failing(s, "heap"))
    BY FailingGood DEF Reasons
  <2>6. Brk(s, h, p, inside) = Grow(s, h, hi)
    BY <1>4 DEF Brk, hi
  <2>7. Grow(s, h, hi) =
          IF ~Ok(t) THEN t
          ELSE IF h.prot # Settled(r).prot THEN Failing(s, "heap")
          ELSE AddRegion(TakeRegions(t, {Settled(r)}), longer)
    BY DEF Grow
  <2> HIDE DEF r, t, longer
  <2> QED BY <2>3, <2>4, <2>5, <2>6, <2>7
<1>5. CASE ~BrkRefused(s, h, p, inside) /\ p < h.end
  <2>1. hi \in Bounds /\ ~(p >= h.end)
    BY <1>1, <1>5, BoundsAssumption DEF Regions, Pages, Bounds
  <2> HIDE DEF hi
  <2>2. [h EXCEPT !.end = hi] \in Regions
    BY <1>1, <2>1 DEF Regions
  <2>3. Good(AddRegion(TakeRegions(s, {h}), [h EXCEPT !.end = hi]))
    BY <1>2, <2>2, AddGood
  <2>4. Good(Failing(s, "heap"))
    BY FailingGood DEF Reasons
  <2>5. Brk(s, h, p, inside) = Shrink(s, h, hi)
    BY <1>5, <2>1 DEF Brk, hi
  <2> QED BY <2>3, <2>4, <2>5 DEF Shrink
<1> QED BY <1>1, <1>3, <1>4, <1>5, BoundsAssumption DEF Regions, Pages, Bounds

(* AddressSpace::clone: the child has the regions of the parent, and an    *)
(* interval for each of them that stays executable.                        *)
LEMMA CloneGood ==
  ASSUME NEW s, Good(s)
  PROVE  Good(Clone(s))
<1> DEFINE N == {Inherited(r) : r \in s.regions}
           D == [p \in Pages |->
                  IF \E r \in s.regions : Contains(r, p) /\ "r" \in r.prot
                  THEN s.data[p] ELSE "zero"]
           I == {IntervalOf(r) : r \in {q \in s.regions : Executable(Inherited(q))}}
           u == [s EXCEPT !.regions = N, !.data = D, !.intervals = I, !.index = {}]
<1>1. s \in Spaces /\ s.regions \subseteq Regions
  BY DEF Good, Typed, Spaces
<1>2. \A r \in s.regions :
        /\ Inherited(r) \in Regions /\ Inherited(r).base = r.base
        /\ Inherited(r).end = r.end /\ Inherited(r).fresh = r.fresh
  <2> SUFFICES ASSUME NEW r \in Regions
               PROVE  /\ Inherited(r) \in Regions /\ Inherited(r).base = r.base
                      /\ Inherited(r).end = r.end /\ Inherited(r).fresh = r.fresh
    BY <1>1
  <2>1. (IF {"w", "x"} \subseteq r.prot THEN {"r", "w"} ELSE r.prot) \in Protections
    BY DEF Regions, Protections
  <2> QED BY <2>1 DEF Inherited, Regions
<1>3. N \subseteq Regions
  BY <1>2
<1>4. D \in [Pages -> Contents]
  BY <1>1 DEF Spaces, Contents
<1>5. I \subseteq Intervals
  BY <1>1 DEF IntervalOf, Intervals, Regions
<1> HIDE DEF N, D, I
<1>6. /\ u \in Spaces /\ u.regions = N /\ u.lookup = s.lookup /\ u.failed = s.failed
      /\ u.intervals = I /\ u.index = {}
  BY <1>1, <1>3, <1>4, <1>5 DEF Spaces
<1>7. Clone(s) = u
  BY DEF Clone, N, D, I
<1> HIDE DEF u
<1>8. Typed(u)
  BY <1>2, <1>6 DEF Good, Typed, N
<1>9. Exact(u)
  <2> SUFFICES ASSUME NEW p \in Pages
               PROVE  /\ \A r, q \in N :
                           Contains(r, p) /\ Contains(q, p)
                             => r = q /\ s.lookup[p] = r.base
                      /\ s.lookup[p] # Unmapped => \E r \in N : Contains(r, p)
    BY <1>6 DEF Exact
  <2>1. \A r \in s.regions : Contains(Inherited(r), p) <=> Contains(r, p)
    BY <1>2 DEF Contains
  <2>2. /\ \A r, q \in s.regions :
             Contains(r, p) /\ Contains(q, p) => r = q /\ s.lookup[p] = r.base
        /\ s.lookup[p] # Unmapped => \E r \in s.regions : Contains(r, p)
    BY DEF Good, Exact
  <2> QED BY <1>2, <2>1, <2>2 DEF N
<1>10. Matched(u)
  <2> SUFFICES ASSUME NEW i \in I
               PROVE  \E r \in N : Executable(r) /\ i.start = r.base /\ i.end = r.end
    BY <1>6 DEF Matched
  <2>1. PICK r \in s.regions : Executable(Inherited(r)) /\ i = IntervalOf(r)
    BY DEF I
  <2> QED BY <1>2, <2>1 DEF N, IntervalOf
<1>11. Indexed(u)
  BY <1>6 DEF Indexed
<1> QED BY <1>6, <1>7, <1>8, <1>9, <1>10, <1>11 DEF Good

(* The space of a program that has just been loaded. *)
LEMMA LoadedGood == Good(Loaded(Image))
<1> DEFINE At(p) == CHOOSE r \in Image : Contains(r, p)
           L == [p \in Pages |->
                  IF \E r \in Image : Contains(r, p) THEN At(p).base ELSE Unmapped]
           D == [p \in Pages |->
                  IF \E r \in Image : Contains(r, p) /\ Executable(r)
                  THEN "file" ELSE "zero"]
           I == {IntervalOf(r) : r \in {q \in Image : Executable(q)}}
           u == Loaded(Image)
<1>1. Image \subseteq Regions
  BY ImageAssumption
<1>2. ASSUME NEW p \in Pages, NEW r \in Image, Contains(r, p)
      PROVE  At(p) \in Image /\ Contains(At(p), p) /\ At(p) = r
  <2>1. At(p) \in Image /\ Contains(At(p), p)
    BY <1>2
  <2> HIDE DEF At
  <2>2. At(p) = r
    BY <1>1, <1>2, <2>1, ImageAssumption DEF Contains, Regions, Pages, Bounds
  <2> QED BY <2>1, <2>2
<1> HIDE DEF At
<1>3. L \in [Pages -> Pages \cup {Unmapped}]
  BY <1>1, <1>2 DEF Regions
<1>4. D \in [Pages -> Contents]
  BY DEF Contents
<1>5. I \subseteq Intervals
  BY <1>1 DEF IntervalOf, Intervals, Regions
<1>6. /\ u.regions = Image /\ u.lookup = L /\ u.intervals = I /\ u.index = {}
      /\ u.failed = "no" /\ u.data = D
      /\ u = [regions |-> Image, lookup |-> L, data |-> D, intervals |-> I,
              index |-> {}, failed |-> "no"]
  BY DEF Loaded, At
<1> HIDE DEF L, D, I, u
<1>7. Typed(u)
  BY <1>1, <1>3, <1>4, <1>5, <1>6, ImageAssumption DEF Typed, Spaces
<1>8. Exact(u)
  BY <1>2, <1>6 DEF Exact, L
<1>9. Matched(u)
  BY <1>6 DEF Matched, I, IntervalOf
<1>10. Indexed(u)
  BY <1>6 DEF Indexed
<1> QED BY <1>6, <1>7, <1>8, <1>9, <1>10 DEF Good, u

(* Process::fetchSegment: the interval keeps its bounds and gets a block,  *)
(* which the index finds in it.                                            *)
LEMMA AddSegmentGood ==
  ASSUME NEW s, Good(s), NEW g \in Segments, NEW i \in s.intervals
  PROVE  Good(AddSegment(s, g, i))
<1> DEFINE j == [i EXCEPT !.items = @ \cup {g}]
           n == [page |-> g.page, first |-> g.first, last |-> g.last,
                 owner |-> i.start]
           I == (s.intervals \ {i}) \cup {j}
           E == s.index \cup {n}
           u == [s EXCEPT !.intervals = I, !.index = E]
<1>1. s \in Spaces /\ i \in Intervals
  BY DEF Good, Typed, Spaces
<1>2. /\ j \in Intervals /\ j.start = i.start /\ j.end = i.end
      /\ j.items = i.items \cup {g}
  BY <1>1 DEF Intervals
<1>3. n \in [page : Pages, first : BOOLEAN, last : Pages, owner : Pages]
  BY <1>1 DEF Intervals, Segments
<1>4. BlockOf(n) = g /\ n.owner = i.start
  BY DEF BlockOf, Segments
<1>5. AddSegment(s, g, i) = u
  BY DEF AddSegment
<1> HIDE DEF j, n
<1>6. I \in SUBSET Intervals
      /\ E \in SUBSET [page : Pages, first : BOOLEAN, last : Pages, owner : Pages]
  BY <1>1, <1>2, <1>3 DEF Spaces
<1>7. \A e \in E : \E k \in I : k.start = e.owner /\ BlockOf(e) \in k.items
  <2> SUFFICES ASSUME NEW e \in E
               PROVE  \E k \in I : k.start = e.owner /\ BlockOf(e) \in k.items
    OBVIOUS
  <2>1. CASE e = n
    BY <1>2, <1>4, <2>1
  <2>2. CASE e \in s.index
    <3>1. PICK k \in s.intervals : k.start = e.owner /\ BlockOf(e) \in k.items
      BY <2>2 DEF Good, Indexed
    <3> QED BY <1>2, <3>1
  <2> QED BY <2>1, <2>2
<1>8. \A k \in I : \E o \in s.intervals : k.start = o.start /\ k.end = o.end
  BY <1>2
<1> HIDE DEF I, E
<1>9. /\ u \in Spaces /\ u.regions = s.regions /\ u.lookup = s.lookup
      /\ u.failed = s.failed /\ u.intervals = I /\ u.index = E
  BY <1>1, <1>6 DEF Spaces
<1> HIDE DEF u
<1>10. Matched(u)
  <2> SUFFICES ASSUME NEW k \in I
               PROVE  \E r \in s.regions :
                        Executable(r) /\ k.start = r.base /\ k.end = r.end
    BY <1>9 DEF Matched
  <2>1. PICK o \in s.intervals : k.start = o.start /\ k.end = o.end
    BY <1>8
  <2>2. PICK r \in s.regions : Executable(r) /\ o.start = r.base /\ o.end = r.end
    BY DEF Good, Matched
  <2> QED BY <2>1, <2>2
<1> QED BY <1>5, <1>7, <1>9, <1>10 DEF Good, Typed, Exact, Indexed

(* A store only changes what a page holds. *)
LEMMA StoreGood ==
  ASSUME NEW s, Good(s), NEW p \in Pages
  PROVE  Good([s EXCEPT !.data[p] = "stored"])
<1> DEFINE D == [s.data EXCEPT ![p] = "stored"]
           u == [s EXCEPT !.data = D]
<1>1. s \in Spaces
  BY DEF Good, Typed
<1>2. D \in [Pages -> Contents]
  BY <1>1 DEF Spaces, Contents
<1> HIDE DEF D
<1>3. /\ u \in Spaces /\ u.regions = s.regions /\ u.lookup = s.lookup
      /\ u.failed = s.failed /\ u.intervals = s.intervals /\ u.index = s.index
  BY <1>1, <1>2 DEF Spaces
<1>4. [s EXCEPT !.data[p] = "stored"] = u
  BY DEF D
<1> HIDE DEF u
<1> QED BY <1>3, <1>4 DEF Good, Typed, Exact, Matched, Indexed

-----------------------------------------------------------------------------
(* The steps of the program. *)

(* A call leaves its result, or what was there and the verify that failed. *)
LEMMA BecomesGood ==
  ASSUME Good(mm), NEW s, Good(s), Becomes(s)
  PROVE  Good(mm')
<1>1. CASE Ok(s)
  BY <1>1 DEF Becomes
<1>2. CASE ~Ok(s)
  <2>1. s.failed \in Reasons \ {"insert"}
    BY <1>2 DEF Ok, Good, Typed, Spaces
  <2> QED BY <1>2, <2>1, FailingGood DEF Becomes
<1> QED BY <1>1, <1>2

(* The space that is made for a program or its child is good, and every    *)
(* call keeps it good.                                                     *)
LEMMA NextGood ==
  ASSUME IInv, [Next]_vars
  PROVE  IInv'
<1> SUFFICES Good(mm')
  BY DEF IInv
<1> USE DEF IInv
<1>1. CASE EnsureNullPage
  <2>1. NullPage \in Regions
    BY BoundsAssumption DEF NullPage, Regions, Protections, Pages, Bounds
  <2>2. Good(AddRegion(mm, NullPage))
    BY <2>1, AddGood
  <2>3. Good(Failing(mm, "nullpage"))
    BY FailingGood DEF Reasons
  <2>4. Becomes(AddRegion(mm, NullPage)) \/ Becomes(Failing(mm, "nullpage"))
    BY <1>1 DEF EnsureNullPage
  <2> QED BY <2>2, <2>3, <2>4, BecomesGood
<1>2. ASSUME NEW n \in Lengths, NEW b \in Pages, SysMunmap(b, n)
      PROVE  Good(mm')
  <2>1. Good(Munmap(mm, b, b + n))
    BY MunmapGood
  <2> QED BY <1>2, <2>1, BecomesGood DEF SysMunmap
<1>3. ASSUME NEW n \in Lengths, NEW b \in Pages, NEW prot \in Prots,
             SysMprotect(b, n, prot)
      PROVE  Good(mm')
  <2>1. prot \in Protections
    BY ValuesAssumption
  <2>2. Good(Mprotect(mm, b, b + n, prot))
    BY <2>1, MprotectGood
  <2> QED BY <1>3, <2>2, BecomesGood DEF SysMprotect
<1>12. ASSUME NEW n \in Lengths, NEW b \in Bounds, NEW how, NEW prot \in Prots,
              Becomes(Mmap(mm, how, b, n, prot))
       PROVE  Good(mm')
  <2>1. prot \in Protections /\ n \in Nat
    BY ValuesAssumption, BoundsAssumption
  <2>2. Good(Mmap(mm, how, b, n, prot))
    BY <2>1, MmapGood
  <2> QED BY <1>12, <2>2, BecomesGood
<1>4. ASSUME NEW n \in Lengths, NEW b \in Bounds, NEW how, NEW prot \in Prots,
             SysMmap(how, b, n, prot)
      PROVE  Good(mm')
  BY <1>4, <1>12 DEF SysMmap
<1>5. ASSUME NEW n \in Lengths, NEW b \in Bounds, NEW how, NEW prot \in Prots,
             SysMapFile(how, b, n, prot)
      PROVE  Good(mm')
  <2>1. prot \in Protections /\ n \in Nat
    BY ValuesAssumption, BoundsAssumption
  <2>2. ASSUME NEW m \in Lengths \cap 0..n, Becomes(MapFile(mm, how, b, n, prot, m))
        PROVE  Good(mm')
    <3>1. Good(MapFile(mm, how, b, n, prot, m))
      BY <2>1, MapFileGood
    <3> QED BY <2>2, <3>1, BecomesGood
  <2> QED BY <1>5, <1>12, <2>2 DEF SysMapFile
<1>6. ASSUME NEW p \in Bounds, NEW inside \in BOOLEAN, SysBrk(p, inside)
      PROVE  Good(mm')
  <2>1. CASE Becomes(Failing(mm, "heap"))
    <3>1. Good(Failing(mm, "heap"))
      BY FailingGood DEF Reasons
    <3> QED BY <2>1, <3>1, BecomesGood
  <2>2. ASSUME NEW h \in mm.regions, Becomes(Brk(mm, h, p, inside))
        PROVE  Good(mm')
    <3>1. Good(Brk(mm, h, p, inside))
      BY BrkGood
    <3> QED BY <2>2, <3>1, BecomesGood
  <2> QED BY <1>6, <2>1, <2>2 DEF SysBrk, FirstHeap
<1>7. CASE SysFork
  BY <1>7, CloneGood, BecomesGood DEF SysFork
<1>8. CASE SysExecve
  BY <1>8, LoadedGood, BecomesGood DEF SysExecve
<1>9. ASSUME NEW p \in Pages, Store(p)
      PROVE  Good(mm')
  BY <1>9, StoreGood DEF Store
<1>10. ASSUME NEW at \in Starts, NEW last \in Pages, FetchSegment(at, last)
       PROVE  Good(mm')
  <2> DEFINE g == [page |-> at.page, first |-> at.first, last |-> last]
  <2>1. g \in Segments
    BY DEF Segments, Starts
  <2>2. CASE Becomes(Failing(mm, "interval"))
    <3>1. Good(Failing(mm, "interval"))
      BY FailingGood DEF Reasons
    <3> QED BY <2>2, <3>1, BecomesGood
  <2>3. ASSUME NEW i \in mm.intervals, Becomes(AddSegment(mm, g, i))
        PROVE  Good(mm')
    <3>1. Good(AddSegment(mm, g, i))
      BY <2>1, AddSegmentGood
    <3> QED BY <2>3, <3>1, BecomesGood
  <2> QED BY <1>10, <2>2, <2>3 DEF FetchSegment, Finds
<1>11. CASE UNCHANGED vars \/ Panicked
  BY <1>11 DEF vars, Panicked
<1> QED BY <1>1, <1>2, <1>3, <1>4, <1>5, <1>6, <1>7, <1>8, <1>9, <1>10, <1>11
        DEF Next

-----------------------------------------------------------------------------
(* Every reachable space is good: the induction the properties rest on.    *)
THEOREM Invariant == Spec => []IInv
<1>1. Init => IInv
  BY LoadedGood DEF Init, IInv
<1>2. IInv /\ [Next]_vars => IInv'
  BY NextGood
<1> QED BY <1>1, <1>2, PTL DEF Spec

(* The spaces, regions, intervals and blocks have their types, and no      *)
(* region is empty or still to be cleared.                                 *)
THEOREM TypeCorrect == Spec => []TypeOK
<1>1. IInv => TypeOK
  BY DEF IInv, Good, Typed, TypeOK
<1> QED BY <1>1, Invariant, PTL

(* regionLookup (mmu.cpp:557-589) finds the only region of a page, and     *)
(* none where there is none.                                               *)
THEOREM LookupExact == Spec => []LookupIsExact
<1>1. IInv => LookupIsExact
  BY DEF IInv, Good, Exact, LookupIsExact
<1> QED BY <1>1, Invariant, PTL

(* An interval of codeSegments_ is one executable region, whatever was     *)
(* split, moved, protected or unmapped (intervalvector.h).                 *)
THEOREM IntervalsMatch == Spec => []IntervalsAreRegions
<1>1. IInv => IntervalsAreRegions
  BY DEF IInv, Good, Matched, IntervalsAreRegions
<1> QED BY <1>1, Invariant, PTL

(* A block of codeSegmentsByAddress_ is owned by an interval that is there *)
(* (process.cpp:164-179).                                                  *)
THEOREM IndexSound == Spec => []IndexNeverDangles
<1>1. IInv => IndexNeverDangles
  BY DEF IInv, Good, Indexed, BlockOf, IndexNeverDangles
<1> QED BY <1>1, Invariant, PTL

(* No interval of code is in the way of a region that fits or becomes      *)
(* executable: the verify of IntervalVector::insert (intervalvector.h:130) *)
THEOREM InsertVerified == Spec => []VerifyInsert
<1>1. IInv => VerifyInsert
  BY DEF IInv, Good, VerifyInsert
<1> QED BY <1>1, Invariant, PTL


-----------------------------------------------------------------------------
(* What the operators do to the table of the program.                      *)

Entry(prot, data) == [prot |-> prot, data |-> data]

(* The entry of a page is that of its region.                              *)
LEMMA EntryOfRegion ==
  ASSUME NEW s, Good(s), NEW r \in s.regions, NEW p \in Pages, Contains(r, p)
  PROVE  TableOf(s)[p] = Entry(r.prot, s.data[p])
<1>1. s.lookup[p] = r.base /\ r.base \in Pages
  BY DEF Good, Exact, Typed, Spaces, Regions
<1>2. s.lookup[p] # Unmapped
  BY <1>1, ValuesAssumption
<1>3. RegionAt(s, s.lookup[p]) = r
  BY <1>2, RegionFound DEF Good, Exact
<1> QED BY <1>2, <1>3 DEF TableOf, Entry

(* A page without a region is not mapped.                                  *)
LEMMA EntryOfHole ==
  ASSUME NEW s, Good(s), NEW p \in Pages, \A r \in s.regions : ~Contains(r, p)
  PROVE  TableOf(s)[p] = Unmapped
BY DEF Good, Exact, TableOf

(* What an entry can be.                                                   *)
LEMMA EntryTyped ==
  ASSUME NEW s, Good(s), NEW p \in Pages
  PROVE  /\ TableOf(s)[p] # Unmapped <=> \E r \in s.regions : Contains(r, p)
         /\ TableOf(s)[p] # Unmapped =>
              TableOf(s)[p] \in [prot : Protections, data : Contents]
<1>1. ASSUME NEW r \in s.regions, Contains(r, p)
      PROVE  /\ TableOf(s)[p] \in [prot : Protections, data : Contents]
             /\ TableOf(s)[p] # Unmapped
  <2>1. r.prot \in Protections /\ s.data[p] \in Contents
    BY DEF Good, Typed, Spaces, Regions
  <2>2. Entry(r.prot, s.data[p]) \in [prot : Protections, data : Contents]
    BY <2>1 DEF Entry
  <2> QED BY <1>1, <2>2, EntryOfRegion, ValuesAssumption
<1> QED BY <1>1, EntryOfHole

(* The table is one that the abstract specification speaks of.             *)
LEMMA TableTyped ==
  ASSUME NEW s, Good(s)
  PROVE  TableOf(s) \in PT!Tables
<1>1. \A p \in Pages :
        TableOf(s)[p] \in [prot : Protections, data : Contents] \cup {Unmapped}
  BY EntryTyped
<1>2. TableOf(s) = [p \in Pages |-> TableOf(s)[p]]
  BY DEF TableOf
<1> HIDE DEF TableOf
<1> QED BY <1>1, <1>2
        DEF PT!Tables, PT!Entries, PT!Protections, PT!Contents, PT!Pages,
            Protections, Contents, Pages

(* Regions that are taken are not mapped any more.                         *)
LEMMA TakeTable ==
  ASSUME NEW s, Good(s), NEW R \in SUBSET s.regions, NEW p \in Pages
  PROVE  /\ TakeRegions(s, R).data = s.data
         /\ TakeRegions(s, R).regions = s.regions \ R
         /\ TakeRegions(s, R).failed = s.failed
         /\ TableOf(TakeRegions(s, R))[p] =
              IF \E r \in R : Contains(r, p) THEN Unmapped ELSE TableOf(s)[p]
<1> DEFINE u == TakeRegions(s, R)
<1>1. R \in SUBSET Regions
  BY DEF Good, Typed, Spaces
<1>2. u.regions = s.regions \ R /\ u.data = s.data /\ u.failed = s.failed
  BY <1>1, TakeFields
<1>3. Good(u)
  BY TakeGood
<1> HIDE DEF u
<1>4. CASE \E r \in R : Contains(r, p)
  <2>1. \A q \in u.regions : ~Contains(q, p)
    BY <1>2, <1>4 DEF Good, Exact
  <2> QED BY <1>2, <1>3, <1>4, <2>1, EntryOfHole DEF u
<1>5. CASE \A r \in R : ~Contains(r, p)
  <2>1. CASE \E r \in s.regions : Contains(r, p)
    <3>1. PICK r \in s.regions : Contains(r, p)
      BY <2>1
    <3>2. r \in u.regions
      BY <1>2, <1>5, <3>1
    <3>3. TableOf(u)[p] = Entry(r.prot, u.data[p])
      BY <1>3, <3>1, <3>2, EntryOfRegion
    <3>4. TableOf(s)[p] = Entry(r.prot, s.data[p])
      BY <3>1, EntryOfRegion
    <3> QED BY <1>2, <1>5, <3>3, <3>4 DEF u
  <2>2. CASE \A r \in s.regions : ~Contains(r, p)
    <3>1. TableOf(u)[p] = Unmapped
      BY <1>2, <1>3, <2>2, EntryOfHole
    <3>2. TableOf(s)[p] = Unmapped
      BY <2>2, EntryOfHole
    <3> QED BY <1>2, <1>5, <3>1, <3>2 DEF u
  <2> QED BY <2>1, <2>2
<1> QED BY <1>4, <1>5

(* A region that could be added fits: its pages were not mapped, they have *)
(* its protection now, and are cleared if the region is new.               *)
LEMMA AddTable ==
  ASSUME NEW s, Good(s), NEW r \in Regions, Ok(AddRegion(s, r)), NEW p \in Pages
  PROVE  /\ Ok(s) /\ Fits(s, r)
         /\ AddRegion(s, r).regions = s.regions \cup {Settled(r)}
         /\ AddRegion(s, r).data[p] =
              IF r.fresh /\ Contains(r, p) THEN "zero" ELSE s.data[p]
         /\ Contains(r, p) => TableOf(s)[p] = Unmapped
         /\ TableOf(AddRegion(s, r))[p] =
              IF Contains(r, p)
              THEN Entry(r.prot, IF r.fresh THEN "zero" ELSE s.data[p])
              ELSE TableOf(s)[p]
<1> DEFINE u == AddRegion(s, r)
<1>1. Ok(s)
  BY DEF AddRegion
<1>2. Fits(s, r)
  <2> SUFFICES ASSUME ~Fits(s, r) PROVE FALSE
    OBVIOUS
  <2>1. u = Failing(s, "overlap")
    BY <1>1 DEF AddRegion
  <2>2. Failing(s, "overlap").failed = "overlap"
    BY DEF Failing, Good, Typed, Spaces
  <2> QED BY <2>1, <2>2 DEF Ok
<1>3. /\ u.regions = s.regions \cup {Settled(r)}
      /\ u.data = [q \in Pages |->
           IF r.fresh /\ Contains(r, q) THEN "zero" ELSE s.data[q]]
  BY <1>1, <1>2, AddFields, Zenon
<1>4. Good(u)
  BY AddGood
<1>5. /\ Settled(r).base = r.base /\ Settled(r).end = r.end
      /\ Settled(r).prot = r.prot
  BY DEF Settled, Regions
<1>6. Contains(Settled(r), p) <=> Contains(r, p)
  BY <1>5 DEF Contains
<1> HIDE DEF u
<1>7. CASE Contains(r, p)
  <2>1. TableOf(u)[p] = Entry(Settled(r).prot, u.data[p])
    BY <1>3, <1>4, <1>6, <1>7, EntryOfRegion
  <2>2. s.lookup[p] = Unmapped
    BY <1>2, <1>7 DEF Fits, PagesOf
  <2>3. TableOf(s)[p] = Unmapped
    BY <2>2 DEF TableOf
  <2> QED BY <1>1, <1>2, <1>3, <1>5, <1>7, <2>1, <2>3 DEF u
<1>8. CASE ~Contains(r, p)
  <2>1. u.data[p] = s.data[p]
    BY <1>3, <1>8
  <2>2. CASE \E q \in s.regions : Contains(q, p)
    <3>1. PICK q \in s.regions : Contains(q, p)
      BY <2>2
    <3>2. TableOf(u)[p] = Entry(q.prot, u.data[p])
      BY <1>3, <1>4, <3>1, EntryOfRegion
    <3>3. TableOf(s)[p] = Entry(q.prot, s.data[p])
      BY <3>1, EntryOfRegion
    <3> QED BY <1>1, <1>2, <1>3, <1>8, <2>1, <3>2, <3>3 DEF u
  <2>3. CASE \A q \in s.regions : ~Contains(q, p)
    <3>1. \A q \in u.regions : ~Contains(q, p)
      BY <1>3, <1>6, <1>8, <2>3
    <3>2. TableOf(u)[p] = Unmapped
      BY <1>4, <3>1, EntryOfHole
    <3>3. TableOf(s)[p] = Unmapped
      BY <2>3, EntryOfHole
    <3> QED BY <1>1, <1>2, <1>3, <1>8, <2>1, <3>2, <3>3 DEF u
  <2> QED BY <2>2, <2>3
<1> QED BY <1>7, <1>8

(* No region has pages on both sides of the lower bound of p.              *)
Cut(s, p) == \A r \in s.regions : ~(r.base < p /\ p < r.end)

(* u has the pages of s, and its regions are parts of those of s.          *)
Parts(s, u) ==
  /\ u.data = s.data
  /\ \A r \in u.regions : \E q \in s.regions :
       q.base <= r.base /\ r.end <= q.end /\ r.prot = q.prot
  /\ \A q \in s.regions, p \in Pages :
       Contains(q, p) => \E r \in u.regions : Contains(r, p)

(* To the program a region and its parts are the same.                     *)
LEMMA PartsTable ==
  ASSUME NEW s, NEW u, Good(s), Good(u), Parts(s, u)
  PROVE  TableOf(u) = TableOf(s)
<1>1. ASSUME NEW p \in Pages PROVE TableOf(u)[p] = TableOf(s)[p]
  <2>1. CASE \E r \in u.regions : Contains(r, p)
    <3>1. PICK r \in u.regions : Contains(r, p)
      BY <2>1
    <3>2. PICK q \in s.regions : q.base <= r.base /\ r.end <= q.end /\ r.prot = q.prot
      BY DEF Parts
    <3>3. r \in Regions /\ q \in Regions
      BY DEF Good, Typed, Spaces
    <3>4. Contains(q, p)
      BY <3>1, <3>2, <3>3 DEF Contains, Regions, Pages, Bounds
    <3>5. TableOf(u)[p] = Entry(r.prot, u.data[p])
      BY <3>1, EntryOfRegion
    <3>6. TableOf(s)[p] = Entry(q.prot, s.data[p])
      BY <3>4, EntryOfRegion
    <3> QED BY <3>2, <3>5, <3>6 DEF Parts
  <2>2. CASE \A r \in u.regions : ~Contains(r, p)
    <3>1. \A q \in s.regions : ~Contains(q, p)
      BY <2>2 DEF Parts
    <3>2. TableOf(u)[p] = Unmapped
      BY <2>2, EntryOfHole
    <3>3. TableOf(s)[p] = Unmapped
      BY <3>1, EntryOfHole
    <3> QED BY <3>2, <3>3
  <2> QED BY <2>1, <2>2
<1>2. /\ TableOf(u) = [p \in Pages |-> TableOf(u)[p]]
      /\ TableOf(s) = [p \in Pages |-> TableOf(s)[p]]
  BY DEF TableOf
<1> HIDE DEF TableOf
<1>3. [p \in Pages |-> TableOf(u)[p]] = [p \in Pages |-> TableOf(s)[p]]
  BY <1>1
<1> QED BY <1>2, <1>3

(* Where no region goes on, none of its parts does.                        *)
LEMMA PartsCut ==
  ASSUME NEW s, NEW u, Good(s), Good(u), Parts(s, u), NEW p \in Nat, Cut(s, p)
  PROVE  Cut(u, p)
<1> SUFFICES ASSUME NEW r \in u.regions, r.base < p, p < r.end PROVE FALSE
  BY DEF Cut
<1>1. PICK q \in s.regions : q.base <= r.base /\ r.end <= q.end
  BY DEF Parts
<1>2. r \in Regions /\ q \in Regions
  BY DEF Good, Typed, Spaces
<1>3. q.base < p /\ p < q.end
  BY <1>1, <1>2 DEF Regions, Pages, Bounds
<1> QED BY <1>3 DEF Cut

(* Mmu::split: the region that goes on beyond p is replaced by two.        *)
LEMMA SplitParts ==
  ASSUME NEW s, Good(s), NEW p \in Nat, Ok(Split(s, p))
  PROVE  Ok(s) /\ Parts(s, Split(s, p)) /\ Cut(Split(s, p), p)
<1>0. s.regions \subseteq Regions /\ \A q \in s.regions : q.base < q.end /\ ~q.fresh
  BY DEF Good, Typed, Spaces
<1>1. CASE FindAddress(s, p) \in {Unmapped, p}
  <2>1. Split(s, p) = s
    BY <1>1 DEF Split
  <2>2. Parts(s, s)
    BY <1>0 DEF Parts, Regions, Pages, Bounds
  <2>3. Cut(s, p)
    <3> SUFFICES ASSUME NEW r \in s.regions, r.base < p, p < r.end PROVE FALSE
      BY DEF Cut
    <3>1. p \in Pages /\ Contains(r, p) /\ r.base \in Pages
      BY <1>0, BoundsAssumption DEF Regions, Pages, Bounds, Contains
    <3>2. s.lookup[p] = r.base
      BY <3>1 DEF Good, Exact
    <3> QED BY <1>1, <3>1, <3>2, ValuesAssumption DEF FindAddress, Pages
  <2> QED BY <2>1, <2>2, <2>3
<1>2. CASE FindAddress(s, p) \notin {Unmapped, p}
  <2> DEFINE r == RegionAt(s, FindAddress(s, p))
             left == [r EXCEPT !.end = p]
             right == [r EXCEPT !.base = p]
             t == TakeRegions(s, {r})
             a == AddRegion(t, left)
             u == AddRegion(a, right)
  <2>1. p \in Pages /\ FindAddress(s, p) = s.lookup[p]
    BY <1>2 DEF FindAddress
  <2>2. r \in s.regions /\ Contains(r, p) /\ r.base # p
    BY <1>2, <2>1, RegionFound
  <2>3. r \in Regions /\ ~r.fresh /\ r.base < p /\ p < r.end
    BY <1>0, <2>1, <2>2 DEF Contains, Regions, Pages, Bounds
  <2>4. Split(s, p) = u
    BY <1>2 DEF Split, r
  <2> HIDE DEF r
  <2>5. /\ left \in Regions /\ left.base = r.base /\ left.end = p
        /\ left.prot = r.prot /\ ~left.fresh
        /\ right \in Regions /\ right.base = p /\ right.end = r.end
        /\ right.prot = r.prot /\ ~right.fresh
    BY <2>1, <2>3, BoundsAssumption DEF Regions, Pages, Bounds
  <2> HIDE DEF left, right, t, a, u
  <2>6. Good(t) /\ t.regions = s.regions \ {r} /\ t.data = s.data /\ t.failed = s.failed
    BY <2>1, <2>2, TakeGood, TakeTable DEF t
  <2>7. Good(a) /\ Good(u)
    BY <2>5, <2>6, AddGood DEF a, u
  <2>8. Ok(u)
    BY <2>4
  <2>9. Ok(a) /\ u.regions = a.regions \cup {Settled(right)} /\ \A q \in Pages : u.data[q] = a.data[q]
    BY <2>1, <2>5, <2>7, <2>8, AddTable DEF u
  <2>10. Ok(t) /\ a.regions = t.regions \cup {Settled(left)} /\ \A q \in Pages : a.data[q] = t.data[q]
    BY <2>1, <2>5, <2>6, <2>9, AddTable DEF a
  <2>11. u.data = s.data
    <3>1. u.data \in [Pages -> Contents] /\ s.data \in [Pages -> Contents]
      BY <2>7 DEF Good, Typed, Spaces
    <3> QED BY <2>6, <2>9, <2>10, <3>1
  <2> DEFINE l == Settled(left)
             w == Settled(right)
  <2>12. /\ l.base = r.base /\ l.end = p /\ l.prot = r.prot
         /\ w.base = p /\ w.end = r.end /\ w.prot = r.prot
    BY <2>5 DEF Settled, Regions
  <2>13. u.regions = ((s.regions \ {r}) \cup {l}) \cup {w}
    BY <2>6, <2>9, <2>10
  <2> HIDE DEF l, w
  <2>14. \A o \in u.regions : \E q \in s.regions :
           q.base <= o.base /\ o.end <= q.end /\ o.prot = q.prot
    <3> SUFFICES ASSUME NEW o \in u.regions
                 PROVE  \E q \in s.regions :
                          q.base <= o.base /\ o.end <= q.end /\ o.prot = q.prot
      OBVIOUS
    <3>1. CASE o \in s.regions
      BY <1>0, <3>1 DEF Regions, Pages, Bounds
    <3>2. CASE o \in {l, w}
      BY <2>1, <2>2, <2>3, <2>12, <3>2 DEF Regions, Pages, Bounds
    <3> QED BY <2>13, <3>1, <3>2
  <2>15. \A q \in s.regions, k \in Pages :
           Contains(q, k) => \E o \in u.regions : Contains(o, k)
    <3> SUFFICES ASSUME NEW q \in s.regions, NEW k \in Pages, Contains(q, k)
                 PROVE  \E o \in u.regions : Contains(o, k)
      OBVIOUS
    <3>1. CASE q # r
      BY <2>13, <3>1
    <3>2. CASE q = r
      <4>1. Contains(l, k) \/ Contains(w, k)
        BY <2>1, <2>3, <2>12, <3>2 DEF Contains, Regions, Pages, Bounds
      <4> QED BY <2>13, <4>1
    <3> QED BY <3>1, <3>2
  <2>16. Cut(u, p)
    <3> SUFFICES ASSUME NEW o \in u.regions, o.base < p, p < o.end PROVE FALSE
      BY DEF Cut
    <3>1. o \notin {l, w}
      BY <2>1, <2>12 DEF Pages
    <3>2. o \in s.regions /\ o # r
      BY <2>13, <3>1
    <3>3. o \in Regions
      BY <1>0, <3>2
    <3>4. o.base < r.end /\ r.base < o.end
      BY <2>1, <2>3, <3>3 DEF Regions, Pages, Bounds
    <3> QED BY <2>2, <3>2, <3>4, Disjoint
  <2>17. Ok(s)
    BY <2>6, <2>10 DEF Ok
  <2> QED BY <2>4, <2>11, <2>14, <2>15, <2>16, <2>17 DEF Parts
<1> QED BY <1>1, <1>2

(* Both ends of a range: afterwards no region extends beyond it.           *)
LEMMA SplitAroundParts ==
  ASSUME NEW s, Good(s), NEW lo \in Nat, NEW hi \in Nat, Ok(SplitAround(s, lo, hi))
  PROVE  LET t == SplitAround(s, lo, hi)
         IN  /\ Ok(s) /\ Good(t) /\ t.data = s.data /\ TableOf(t) = TableOf(s)
             /\ Cut(t, lo) /\ Cut(t, hi)
<1> DEFINE a == Split(s, lo)
           t == Split(a, hi)
<1>1. SplitAround(s, lo, hi) = t
  BY DEF SplitAround
<1>2. Good(a)
  BY SplitGood
<1> HIDE DEF a
<1>3. Good(t)
  BY <1>2, SplitGood
<1>4. Ok(a) /\ Parts(a, t) /\ Cut(t, hi)
  BY <1>1, <1>2, SplitParts
<1>5. Ok(s) /\ Parts(s, a) /\ Cut(a, lo)
  BY <1>4, SplitParts DEF a
<1> HIDE DEF t
<1>6. Cut(t, lo)
  BY <1>2, <1>3, <1>4, <1>5, PartsCut
<1>7. TableOf(a) = TableOf(s) /\ TableOf(t) = TableOf(a)
  BY <1>2, <1>3, <1>4, <1>5, PartsTable
<1>8. t.data = s.data
  BY <1>4, <1>5 DEF Parts
<1> QED BY <1>1, <1>3, <1>4, <1>5, <1>6, <1>7, <1>8

-----------------------------------------------------------------------------
(* What the calls do to the table of the program.                          *)

Range(lo, hi) == {p \in Pages : lo <= p /\ p < hi}

(* The regions of a range that was split at both ends are those of its     *)
(* pages.                                                                  *)
LEMMA WithinCut ==
  ASSUME NEW t, Good(t), NEW lo \in Nat, NEW hi \in Nat, Cut(t, lo), Cut(t, hi),
         NEW r \in t.regions, NEW p \in Pages, Contains(r, p)
  PROVE  r \in Within(t, lo, hi) <=> p \in Range(lo, hi)
<1>1. r \in Regions /\ r.base <= p /\ p < r.end
  BY DEF Good, Typed, Spaces, Contains
<1>2. ~(r.base < lo /\ lo < r.end) /\ ~(r.base < hi /\ hi < r.end)
  BY DEF Cut
<1>3. Meets(r, lo, hi) <=> lo <= p /\ p < hi
  BY <1>1, <1>2 DEF Meets, Regions, Pages, Bounds
<1> QED BY <1>3 DEF Within, Range

(* munmap unmaps the pages of the range.                                   *)
LEMMA MunmapTable ==
  ASSUME NEW s, Good(s), NEW lo \in Nat, NEW hi \in Nat, Ok(Munmap(s, lo, hi))
  PROVE  TableOf(Munmap(s, lo, hi)) = PT!Unmap(TableOf(s), Range(lo, hi))
<1> DEFINE t == SplitAround(s, lo, hi)
           R == Within(t, lo, hi)
           u == TakeRegions(t, R)
<1>1. Munmap(s, lo, hi) = u
  BY DEF Munmap
<1>2. Good(t)
  BY SplitAroundGood
<1>3. R \in SUBSET t.regions
  BY DEF Within
<1>4. u.failed = t.failed
  <2>1. 0 \in Pages
    BY BoundsAssumption DEF Pages
  <2> HIDE DEF t, R
  <2> QED BY <1>2, <1>3, <2>1, TakeTable
<1>5. TableOf(t) = TableOf(s) /\ Cut(t, lo) /\ Cut(t, hi)
  <2>1. Ok(t)
    BY <1>1, <1>4 DEF Ok
  <2> QED BY <2>1, SplitAroundParts
<1> HIDE DEF t
<1>6. ASSUME NEW p \in Pages
      PROVE  TableOf(u)[p] = IF p \in Range(lo, hi) THEN Unmapped ELSE TableOf(s)[p]
  <2>1. TableOf(u)[p] = IF \E r \in R : Contains(r, p) THEN Unmapped ELSE TableOf(t)[p]
    <3> HIDE DEF R
    <3> QED BY <1>2, <1>3, TakeTable
  <2>2. CASE \E r \in t.regions : Contains(r, p)
    <3>1. PICK r \in t.regions : Contains(r, p)
      BY <2>2
    <3>2. (\E q \in R : Contains(q, p)) <=> r \in R
      BY <1>2, <1>3, <3>1 DEF Good, Exact
    <3>3. r \in R <=> p \in Range(lo, hi)
      BY <1>2, <1>5, <3>1, WithinCut
    <3> QED BY <1>5, <2>1, <3>2, <3>3
  <2>3. CASE \A r \in t.regions : ~Contains(r, p)
    <3>1. TableOf(t)[p] = Unmapped
      BY <1>2, <2>3, EntryOfHole
    <3> QED BY <1>3, <1>5, <2>1, <2>3, <3>1
  <2> QED BY <2>2, <2>3
<1>7. TableOf(u) = [p \in Pages |-> IF p \in Range(lo, hi) THEN Unmapped ELSE TableOf(s)[p]]
  <2> HIDE DEF u
  <2>1. TableOf(u) = [p \in Pages |-> TableOf(u)[p]]
    BY DEF TableOf
  <2> HIDE DEF TableOf
  <2> QED BY <1>6, <2>1
<1> QED BY <1>1, <1>7 DEF PT!Unmap, PT!Pages, Pages

(* The loop of Mmu::mprotect: the pages of the regions R.                  *)
LEMMA SetProtectionTable ==
  ASSUME NEW s, Good(s), NEW R \in SUBSET s.regions, NEW prot \in Protections,
         NEW p \in Pages
  PROVE  LET u == SetProtection(s, R, prot)
         IN  /\ Ok(u) => Ok(s)
             /\ u.data = s.data
             /\ TableOf(u)[p] = IF \E r \in R : Contains(r, p)
                                THEN Entry(prot, s.data[p]) ELSE TableOf(s)[p]
<1> DEFINE As(r) == [r EXCEPT !.prot = prot]
           N == (s.regions \ R) \cup {As(r) : r \in R}
           t == [s EXCEPT !.regions = N]
           u == SetProtection(s, R, prot)
           X == {r \in R : ~Executable(r)}
           Y == {r \in R : Executable(r)}
<1>1. s \in Spaces /\ s.regions \subseteq Regions
  BY DEF Good, Typed, Spaces
<1>2. \A r \in R : /\ As(r) \in Regions /\ As(r).base = r.base /\ As(r).end = r.end
                   /\ As(r).prot = prot
  BY <1>1 DEF Regions
<1> HIDE DEF As
<1>3. N \subseteq Regions
  BY <1>1, <1>2
<1> HIDE DEF N
<1>4. /\ t \in Spaces /\ t.regions = N /\ t.lookup = s.lookup /\ t.failed = s.failed
      /\ t.data = s.data /\ t.intervals = s.intervals /\ t.index = s.index
  BY <1>1, <1>3 DEF Spaces
<1>5. u = IF "x" \in prot THEN Reserve(t, X) ELSE Forget(t, Y)
  BY DEF SetProtection, N, As
<1>6. Good(u)
  BY SetProtectionGood
<1> HIDE DEF u, t, X, Y
<1>7. u.regions = N /\ u.data = s.data /\ (Ok(u) => Ok(s))
  <2>1. \A w : Reserve(t, w).regions = t.regions /\ Reserve(t, w).data = t.data
          /\ Reserve(t, w).failed \in {t.failed, "insert"}
    BY <1>4 DEF Reserve, Failing, Spaces
  <2>2. \A w : Forget(t, w).regions = t.regions /\ Forget(t, w).data = t.data
          /\ Forget(t, w).failed = t.failed
    BY <1>4 DEF Forget, Spaces
  <2> QED BY <1>4, <1>5, <2>1, <2>2 DEF Ok
<1>8. CASE \E r \in R : Contains(r, p)
  <2>1. PICK r \in R : Contains(r, p)
    BY <1>8
  <2>2. As(r) \in u.regions /\ Contains(As(r), p)
    BY <1>2, <1>7, <2>1 DEF N, Contains
  <2>3. TableOf(u)[p] = Entry(As(r).prot, u.data[p])
    BY <1>6, <2>2, EntryOfRegion
  <2> QED BY <1>2, <1>7, <1>8, <2>3 DEF u
<1>9. CASE ~\E r \in R : Contains(r, p)
  <2>1. CASE \E r \in s.regions : Contains(r, p)
    <3>1. PICK r \in s.regions : Contains(r, p)
      BY <2>1
    <3>2. r \in u.regions
      BY <1>7, <1>9, <3>1 DEF N
    <3>3. TableOf(u)[p] = Entry(r.prot, u.data[p])
      BY <1>6, <3>1, <3>2, EntryOfRegion
    <3>4. TableOf(s)[p] = Entry(r.prot, s.data[p])
      BY <3>1, EntryOfRegion
    <3> QED BY <1>7, <1>9, <3>3, <3>4 DEF u
  <2>2. CASE \A r \in s.regions : ~Contains(r, p)
    <3>1. \A r \in u.regions : ~Contains(r, p)
      BY <1>2, <1>7, <2>2 DEF N, Contains
    <3>2. TableOf(u)[p] = Unmapped
      BY <1>6, <3>1, EntryOfHole
    <3>3. TableOf(s)[p] = Unmapped
      BY <2>2, EntryOfHole
    <3> QED BY <1>7, <1>9, <3>2, <3>3 DEF u
  <2> QED BY <2>1, <2>2
<1> QED BY <1>8, <1>9

(* mprotect sets the protection of what is mapped in the range.            *)
LEMMA MprotectTable ==
  ASSUME NEW s, Good(s), NEW lo \in Nat, NEW hi \in Nat, NEW prot \in Protections,
         Ok(Mprotect(s, lo, hi, prot))
  PROVE  LET u == Mprotect(s, lo, hi, prot)
         IN  /\ Ok(s) /\ u.data = s.data
             /\ TableOf(u) = IF Denied(s, lo, hi, prot) THEN TableOf(s)
                             ELSE PT!Protect(TableOf(s), Range(lo, hi), prot)
<1>1. CASE Denied(s, lo, hi, prot)
  BY <1>1 DEF Mprotect
<1>2. CASE ~Denied(s, lo, hi, prot)
  <2> DEFINE t == SplitAround(s, lo, hi)
             R == Within(t, lo, hi)
             u == SetProtection(t, R, prot)
  <2>1. Good(t)
    BY SplitAroundGood
  <2>2. Ok(t) /\ Mprotect(s, lo, hi, prot) = u
    BY <1>2 DEF Mprotect
  <2>3. Ok(s) /\ t.data = s.data /\ TableOf(t) = TableOf(s) /\ Cut(t, lo) /\ Cut(t, hi)
    BY <2>2, SplitAroundParts
  <2>4. R \in SUBSET t.regions
    BY DEF Within
  <2> HIDE DEF t
  <2>5. ASSUME NEW p \in Pages
        PROVE  /\ u.data = s.data
               /\ TableOf(u)[p] =
                    IF p \in Range(lo, hi) /\ TableOf(s)[p] # Unmapped
                    THEN [TableOf(s)[p] EXCEPT !.prot = prot] ELSE TableOf(s)[p]
    <3>1. /\ u.data = t.data
          /\ TableOf(u)[p] = IF \E r \in R : Contains(r, p)
                             THEN Entry(prot, t.data[p]) ELSE TableOf(t)[p]
      <4> HIDE DEF R
      <4> QED BY <2>1, <2>4, SetProtectionTable
    <3>2. CASE \E r \in t.regions : Contains(r, p)
      <4>1. PICK r \in t.regions : Contains(r, p)
        BY <3>2
      <4>2. (\E q \in R : Contains(q, p)) <=> r \in R
        BY <2>1, <2>4, <4>1 DEF Good, Exact
      <4>3. r \in R <=> p \in Range(lo, hi)
        BY <2>1, <2>3, <4>1, WithinCut
      <4>4. TableOf(t)[p] = Entry(r.prot, t.data[p]) /\ TableOf(t)[p] # Unmapped
        BY <2>1, <4>1, EntryOfRegion, EntryTyped
      <4>5. [Entry(r.prot, t.data[p]) EXCEPT !.prot = prot] = Entry(prot, t.data[p])
        BY DEF Entry
      <4> QED BY <2>3, <3>1, <4>2, <4>3, <4>4, <4>5
    <3>3. CASE \A r \in t.regions : ~Contains(r, p)
      <4>1. TableOf(t)[p] = Unmapped
        BY <2>1, <3>3, EntryOfHole
      <4> QED BY <2>3, <2>4, <3>1, <3>3, <4>1
    <3> QED BY <3>2, <3>3
  <2>6. TableOf(u) = [p \in Pages |->
          IF p \in Range(lo, hi) /\ TableOf(s)[p] # Unmapped
          THEN [TableOf(s)[p] EXCEPT !.prot = prot] ELSE TableOf(s)[p]]
    <3> HIDE DEF u
    <3>1. TableOf(u) = [p \in Pages |-> TableOf(u)[p]]
      BY DEF TableOf
    <3> HIDE DEF TableOf
    <3> QED BY <2>5, <3>1
  <2>7. 0 \in Pages
    BY BoundsAssumption DEF Pages
  <2>8. u.data = s.data
    BY <2>5, <2>7
  <2> QED BY <1>2, <2>2, <2>3, <2>6, <2>8 DEF PT!Protect, PT!Pages, Pages
<1> QED BY <1>1, <1>2

(* mmap maps pages that read as zeroes, and nothing else.  With MAP_FIXED  *)
(* what is erased lies in the range, which was split off.                  *)
LEMMA MmapTable ==
  ASSUME NEW s, Good(s), NEW how, NEW b \in Bounds, NEW n \in Nat,
         NEW prot \in Protections, b + n <= NPages, Ok(Mmap(s, how, b, n, prot))
  PROVE  /\ Ok(s) /\ n # 0
         /\ TableOf(Mmap(s, how, b, n, prot)) =
              PT!Map(TableOf(s), Range(b, b + n), prot, 0)
<1> DEFINE r == NewRegion(b, b + n, prot)
           u == Mmap(s, how, b, n, prot)
<1>0. NPages \in Nat /\ b \in Nat
  BY BoundsAssumption DEF Bounds
<1>1. n # 0
  <2> SUFFICES ASSUME n = 0 PROVE FALSE
    OBVIOUS
  <2>1. u = Failing(s, "length")
    BY DEF Mmap
  <2>2. Failing(s, "length").failed = "length"
    BY DEF Failing, Good, Typed, Spaces
  <2> QED BY <2>1, <2>2 DEF Ok
<1>2. /\ r \in Regions /\ r.base = b /\ r.end = b + n /\ r.prot = prot /\ r.fresh
      /\ b \in Pages /\ (b + n) - 1 \in Pages /\ b + n \in Nat
  BY <1>0, <1>1 DEF NewRegion, Regions, Pages, Bounds
<1>3. \A p \in Pages : Contains(r, p) <=> p \in Range(b, b + n)
  BY <1>2 DEF Contains, Range
<1>4. u = IF how = "fixed" THEN AddAndEraseExisting(s, r) ELSE AddRegion(s, r)
  BY <1>0, <1>1 DEF Mmap
<1> HIDE DEF r
<1>5. ASSUME NEW p \in Pages
      PROVE  /\ Ok(s)
             /\ TableOf(u)[p] = IF p \in Range(b, b + n)
                                THEN Entry(prot, "zero") ELSE TableOf(s)[p]
  <2>1. CASE how # "fixed"
    <3>1. u = AddRegion(s, r)
      BY <1>4, <2>1
    <3> HIDE DEF u
    <3> QED BY <1>2, <1>3, <3>1, AddTable DEF u
  <2>2. CASE how = "fixed"
    <3> DEFINE t == SplitAround(s, b, b + n)
               old == {q \in t.regions : Contains(q, b) \/ Contains(q, (b + n) - 1)}
               a == TakeRegions(t, old)
    <3> DEFINE Ends(w, lo, hi) ==
                 {q \in w.regions : Contains(q, lo) \/ Contains(q, hi - 1)}
               A(lo, hi) ==
                 AddRegion(TakeRegions(SplitAround(s, lo, hi),
                                       Ends(SplitAround(s, lo, hi), lo, hi)), r)
    <3>1. u = AddRegion(a, r)
      <4>1. AddAndEraseExisting(s, r) = A(r.base, r.end)
        BY DEF AddAndEraseExisting
      <4>2. Ends(t, b, b + n) = old
        OBVIOUS
      <4> HIDE DEF Ends, old, u
      <4>3. A(b, b + n) = AddRegion(a, r)
        BY <4>2
      <4> HIDE DEF A, a
      <4>4. u = A(r.base, r.end)
        BY <1>4, <2>2, <4>1 DEF u
      <4> QED BY <1>2, <4>3, <4>4
    <3> HIDE DEF A, Ends
    <3>2. Good(t)
      BY SplitAroundGood
    <3>3. old \in SUBSET t.regions
      OBVIOUS
    <3> HIDE DEF u, t
    <3>4. Good(a)
      BY <3>2, TakeGood
    <3>5. /\ a.failed = t.failed
          /\ TableOf(a)[p] = IF \E q \in old : Contains(q, p) THEN Unmapped
                             ELSE TableOf(t)[p]
      <4> HIDE DEF old
      <4> QED BY <3>2, <3>3, TakeTable
    <3>6. /\ Ok(a)
          /\ TableOf(u)[p] = IF Contains(r, p) THEN Entry(prot, "zero")
                             ELSE TableOf(a)[p]
      <4> HIDE DEF a
      <4> QED BY <1>2, <3>1, <3>4, AddTable DEF u
    <3>7. Ok(t)
      BY <3>5, <3>6 DEF Ok
    <3>8. Ok(s) /\ TableOf(t) = TableOf(s) /\ Cut(t, b) /\ Cut(t, b + n)
      BY <1>0, <1>2, <3>7, SplitAroundParts DEF t
    <3>9. ASSUME NEW q \in old, Contains(q, p)
          PROVE  p \in Range(b, b + n)
      <4>1. q \in Within(t, b, b + n)
        <5>1. b \in Range(b, b + n) /\ (b + n) - 1 \in Range(b, b + n)
          BY <1>0, <1>1, <1>2 DEF Range, Pages
        <5> QED BY <1>0, <1>2, <3>2, <3>8, <5>1, WithinCut
      <4> QED BY <1>0, <1>2, <3>2, <3>8, <3>9, <4>1, WithinCut
    <3> HIDE DEF old, a
    <3> QED BY <1>3, <3>5, <3>6, <3>8, <3>9 DEF u
  <2> QED BY <2>1, <2>2
<1>6. Ok(s)
  BY <1>2, <1>5
<1>7. TableOf(u) = [p \in Pages |->
        IF p \in Range(b, b + n) THEN Entry(prot, "zero") ELSE TableOf(s)[p]]
  <2> HIDE DEF u
  <2>1. TableOf(u) = [p \in Pages |-> TableOf(u)[p]]
    BY DEF TableOf
  <2> HIDE DEF TableOf
  <2> QED BY <1>5, <2>1
<1>8. \A p \in Pages : ~(p < 0)
  BY DEF Pages
<1> QED BY <1>1, <1>6, <1>7, <1>8 DEF PT!Map, PT!Pages, Pages, Entry

(* A range whose pages are all mapped is not denied (Mmu::mprotect).       *)
LEMMA MappedNotDenied ==
  ASSUME NEW s, Good(s), NEW lo \in Nat, NEW hi \in Nat, lo < hi, hi <= NPages,
         \A p \in Range(lo, hi) : TableOf(s)[p] # Unmapped,
         NEW prot, ~({"w", "x"} \subseteq prot)
  PROVE  ~Denied(s, lo, hi, prot)
<1>0. NPages \in Nat
  BY BoundsAssumption
<1>1. ASSUME NEW p \in Nat, lo <= p, p < hi
      PROVE  \E r \in Within(s, lo, hi) : Contains(r, p)
  <2>1. p \in Range(lo, hi) /\ p \in Pages
    BY <1>0, <1>1 DEF Range, Pages
  <2>2. PICK r \in s.regions : Contains(r, p)
    BY <2>1, EntryTyped
  <2>3. r \in Regions
    BY DEF Good, Typed, Spaces
  <2>4. Meets(r, lo, hi)
    BY <1>1, <2>2, <2>3 DEF Meets, Contains, Regions, Pages, Bounds
  <2> QED BY <2>2, <2>4 DEF Within
<1>2. Within(s, lo, hi) # {}
  BY <1>1
<1>3. ASSUME NEW r \in Within(s, lo, hi), NEW q \in Within(s, lo, hi), q.base < r.base
      PROVE  \E o \in Within(s, lo, hi) : o.end = r.base
  <2>1. /\ r \in s.regions /\ q \in s.regions /\ r \in Regions /\ q \in Regions
        /\ r.base < r.end /\ q.base < q.end
        /\ r.base < hi /\ lo < q.end
    BY DEF Within, Meets, Good, Typed, Spaces
  <2>2. q.end <= r.base
    <3> SUFFICES ASSUME ~(q.end <= r.base) PROVE FALSE
      OBVIOUS
    <3>1. q.base < r.end /\ r.base < q.end
      BY <1>3, <2>1 DEF Regions, Pages, Bounds
    <3>2. r = q
      BY <2>1, <3>1, Disjoint
    <3> QED BY <1>3, <2>1, <3>2 DEF Regions, Pages
  <2>3. r.base - 1 \in Nat /\ lo <= r.base - 1 /\ r.base - 1 < hi
    BY <2>1, <2>2 DEF Regions, Pages, Bounds
  <2>4. PICK o \in Within(s, lo, hi) : Contains(o, r.base - 1)
    BY <1>1, <2>3
  <2>5. o \in s.regions /\ o \in Regions /\ o.base <= r.base - 1 /\ r.base - 1 < o.end
    BY <2>4 DEF Within, Good, Typed, Spaces, Contains
  <2>6. o.end <= r.base
    <3> SUFFICES ASSUME ~(o.end <= r.base) PROVE FALSE
      OBVIOUS
    <3>1. o.base < r.end /\ r.base < o.end
      BY <2>1, <2>5 DEF Regions, Pages, Bounds
    <3>2. r = o
      BY <2>1, <2>5, <3>1, Disjoint
    <3> QED BY <2>1, <2>5, <3>2 DEF Regions, Pages
  <2>7. o.end = r.base
    BY <2>1, <2>5, <2>6 DEF Regions, Pages, Bounds
  <2> QED BY <2>7
<1>4. Contiguous(Within(s, lo, hi))
  BY <1>3 DEF Contiguous
<1> QED BY <1>2, <1>4 DEF Denied

(* What a file fills stays mapped as it was.                               *)
LEMMA FillTable ==
  ASSUME NEW s, Good(s), NEW b \in Nat, NEW n \in Nat, NEW m \in Nat, NEW p \in Pages
  PROVE  /\ Fill(s, b, n, m).failed = s.failed
         /\ TableOf(Fill(s, b, n, m))[p] =
              IF TableOf(s)[p] # Unmapped /\ b <= p /\ p < b + n /\ p < b + m
              THEN Entry(TableOf(s)[p].prot, "file") ELSE TableOf(s)[p]
<1> DEFINE u == Fill(s, b, n, m)
<1>1. /\ u.regions = s.regions /\ u.failed = s.failed
      /\ u.data = [k \in Pages |->
           IF b <= k /\ k < b + n /\ k < b + m THEN "file" ELSE s.data[k]]
  BY DEF Fill, Good, Typed, Spaces
<1>2. Good(u)
  BY FillGood
<1> HIDE DEF u
<1>3. CASE \E r \in s.regions : Contains(r, p)
  <2>1. PICK r \in s.regions : Contains(r, p)
    BY <1>3
  <2>2. TableOf(u)[p] = Entry(r.prot, u.data[p])
    BY <1>1, <1>2, <2>1, EntryOfRegion
  <2>3. TableOf(s)[p] = Entry(r.prot, s.data[p]) /\ TableOf(s)[p] # Unmapped
    BY <2>1, EntryOfRegion, EntryTyped
  <2>4. Entry(r.prot, s.data[p]).prot = r.prot
    BY DEF Entry
  <2>5. u.data[p] = IF b <= p /\ p < b + n /\ p < b + m THEN "file" ELSE s.data[p]
    BY <1>1
  <2> QED BY <1>1, <2>2, <2>3, <2>4, <2>5 DEF u
<1>4. CASE \A r \in s.regions : ~Contains(r, p)
  <2>1. TableOf(u)[p] = Unmapped /\ TableOf(s)[p] = Unmapped
    BY <1>1, <1>2, <1>4, EntryOfHole
  <2> QED BY <1>1, <2>1 DEF u
<1> QED BY <1>3, <1>4

(* mmap of a file, with both of its mprotect                               *)
LEMMA MapFileTable ==
  ASSUME NEW s, Good(s), NEW how, NEW b \in Bounds, NEW n \in Nat,
         NEW prot \in Protections, NEW m \in Nat, b + n <= NPages,
         Ok(MapFile(s, how, b, n, prot, m))
  PROVE  TableOf(MapFile(s, how, b, n, prot, m)) =
           PT!Map(TableOf(s), Range(b, b + n), prot, b + m)
<1> DEFINE rw == (prot \cup {"w"}) \ {"x"}
           t == Mmap(s, how, b, n, prot)
           u == Mprotect(t, b, b + n, rw)
           f == Fill(u, b, n, m)
           v == Mprotect(f, b, b + n, prot)
<1>0. /\ NPages \in Nat /\ b \in Nat /\ b + n \in Nat /\ ~(b + n > NPages)
      /\ rw \in Protections /\ ~({"w", "x"} \subseteq rw)
  BY BoundsAssumption DEF Bounds, Protections
<1> HIDE DEF rw
<1>1. MapFile(s, how, b, n, prot, m) =
        IF ~Ok(t) THEN t
        ELSE IF {"w", "x"} \subseteq prot THEN Failing(s, "mprotect") ELSE v
  BY <1>0 DEF MapFile, rw
<1>2. Ok(t) /\ ~({"w", "x"} \subseteq prot) /\ MapFile(s, how, b, n, prot, m) = v
  <2>1. ~Ok(Failing(s, "mprotect"))
    BY DEF Failing, Ok, Good, Typed, Spaces
  <2> QED BY <1>1, <2>1
<1>3. Good(t) /\ Good(u) /\ Good(f)
  BY <1>0, MmapGood, MprotectGood, FillGood
<1>4. /\ n # 0
      /\ \A p \in Pages : TableOf(t)[p] =
           IF p \in Range(b, b + n) THEN Entry(prot, "zero") ELSE TableOf(s)[p]
  <2>1. n # 0 /\ TableOf(t) = PT!Map(TableOf(s), Range(b, b + n), prot, 0)
    BY <1>0, <1>2, MmapTable
  <2>2. \A p \in Pages : ~(p < 0)
    BY DEF Pages
  <2> HIDE DEF t
  <2> QED BY <2>1, <2>2 DEF PT!Map, PT!Pages, Pages, Entry
<1> HIDE DEF t
<1>5. \A p \in Pages : \A pr \in Protections, d \in Contents : Entry(pr, d) # Unmapped
  BY ValuesAssumption DEF Entry
<1>6. \A d \in {"zero", "file"} : d \in Contents
  BY DEF Contents
<1>7. \A p \in Range(b, b + n) : TableOf(t)[p] # Unmapped
  BY <1>4, <1>5, <1>6 DEF Range
<1>8. ~Denied(t, b, b + n, rw)
  BY <1>0, <1>3, <1>4, <1>7, MappedNotDenied
<1>9. Ok(f)
  BY <1>0, <1>2, <1>3, MprotectTable
<1> HIDE DEF f
<1>10. Ok(u)
  <2>1. 0 \in Pages
    BY BoundsAssumption DEF Pages
  <2> HIDE DEF u
  <2>2. f.failed = u.failed
    BY <1>0, <1>3, <2>1, FillTable DEF f
  <2> QED BY <1>9, <2>2 DEF Ok
<1>11. TableOf(u) = PT!Protect(TableOf(t), Range(b, b + n), rw)
  BY <1>0, <1>3, <1>8, <1>10, MprotectTable
<1> HIDE DEF u
<1>12. \A p \in Pages : TableOf(u)[p] =
         IF p \in Range(b, b + n) THEN Entry(rw, "zero") ELSE TableOf(s)[p]
  <2>1. [Entry(prot, "zero") EXCEPT !.prot = rw] = Entry(rw, "zero")
    BY DEF Entry
  <2>2. \A p \in Pages : TableOf(u)[p] =
          IF p \in Range(b, b + n) /\ TableOf(t)[p] # Unmapped
          THEN [TableOf(t)[p] EXCEPT !.prot = rw] ELSE TableOf(t)[p]
    BY <1>11 DEF PT!Protect, PT!Pages, Pages
  <2> QED BY <1>4, <1>7, <2>1, <2>2
<1>13. \A p \in Pages : TableOf(f)[p] =
         IF p \in Range(b, b + n)
         THEN Entry(rw, IF p < b + m THEN "file" ELSE "zero") ELSE TableOf(s)[p]
  <2> SUFFICES ASSUME NEW p \in Pages
               PROVE  TableOf(f)[p] =
                        IF p \in Range(b, b + n)
                        THEN Entry(rw, IF p < b + m THEN "file" ELSE "zero")
                        ELSE TableOf(s)[p]
    OBVIOUS
  <2>1. TableOf(f)[p] =
          IF TableOf(u)[p] # Unmapped /\ b <= p /\ p < b + n /\ p < b + m
          THEN Entry(TableOf(u)[p].prot, "file") ELSE TableOf(u)[p]
    BY <1>0, <1>3, FillTable DEF f
  <2>2. Entry(rw, "zero").prot = rw /\ Entry(rw, "zero") # Unmapped
    BY <1>0, <1>5, <1>6 DEF Entry
  <2>3. p \in Range(b, b + n) <=> b <= p /\ p < b + n
    BY DEF Range
  <2> QED BY <1>12, <2>1, <2>2, <2>3
<1>14. ~Denied(f, b, b + n, prot)
  <2>1. \A p \in Range(b, b + n) : TableOf(f)[p] # Unmapped
    BY <1>0, <1>5, <1>6, <1>13 DEF Range
  <2> QED BY <1>0, <1>2, <1>3, <1>4, <2>1, MappedNotDenied
<1>15. TableOf(v) = PT!Protect(TableOf(f), Range(b, b + n), prot)
  BY <1>0, <1>2, <1>3, <1>14, MprotectTable
<1> HIDE DEF v
<1>16. \A p \in Pages : TableOf(v)[p] =
         IF p \in Range(b, b + n)
         THEN Entry(prot, IF p < b + m THEN "file" ELSE "zero") ELSE TableOf(s)[p]
  <2>1. \A d : [Entry(rw, d) EXCEPT !.prot = prot] = Entry(prot, d)
    BY DEF Entry
  <2>2. \A p \in Pages : TableOf(v)[p] =
          IF p \in Range(b, b + n) /\ TableOf(f)[p] # Unmapped
          THEN [TableOf(f)[p] EXCEPT !.prot = prot] ELSE TableOf(f)[p]
    BY <1>15 DEF PT!Protect, PT!Pages, Pages
  <2>3. \A p \in Pages : p \in Range(b, b + n) => TableOf(f)[p] # Unmapped
    BY <1>0, <1>5, <1>6, <1>13
  <2>4. ASSUME NEW p \in Pages, p \in Range(b, b + n)
        PROVE  TableOf(v)[p] = Entry(prot, IF p < b + m THEN "file" ELSE "zero")
    <3>1. TableOf(v)[p] = [TableOf(f)[p] EXCEPT !.prot = prot]
      BY <2>2, <2>3, <2>4
    <3>2. TableOf(f)[p] = Entry(rw, IF p < b + m THEN "file" ELSE "zero")
      BY <1>13, <2>4
    <3> QED BY <2>1, <3>1, <3>2
  <2>5. ASSUME NEW p \in Pages, p \notin Range(b, b + n)
        PROVE  TableOf(v)[p] = TableOf(s)[p]
    BY <1>13, <2>2, <2>5
  <2> QED BY <2>4, <2>5
<1>17. TableOf(v) = [p \in Pages |->
         IF p \in Range(b, b + n)
         THEN Entry(prot, IF p < b + m THEN "file" ELSE "zero") ELSE TableOf(s)[p]]
  <2>1. TableOf(v) = [p \in Pages |-> TableOf(v)[p]]
    BY DEF TableOf
  <2> HIDE DEF TableOf
  <2> QED BY <1>16, <2>1
<1> QED BY <1>2, <1>17 DEF PT!Map, PT!Pages, Pages, Entry

(* The program break moves up: the heap's own protection, which must be    *)
(* read-write, is that of the new pages, and they read as zeroes.          *)
LEMMA GrowTable ==
  ASSUME NEW s, Good(s), NEW h \in s.regions, NEW hi \in Bounds, h.end < hi,
         Ok(Grow(s, h, hi))
  PROVE  TableOf(Grow(s, h, hi)) =
           PT!Map(TableOf(s), Range(h.end, hi), {"r", "w"}, 0)
<1> DEFINE n == NewRegion(h.end, hi, {"r", "w"})
           longer == [h EXCEPT !.end = hi]
           a == TakeRegions(s, {h})
           t == AddRegion(a, n)
           c == TakeRegions(t, {Settled(n)})
           u == AddRegion(c, longer)
<1>0. /\ h \in Regions /\ h.base < h.end /\ ~h.fresh /\ h.end \in Pages
      /\ hi \in Nat /\ hi <= NPages /\ NPages \in Nat
  BY BoundsAssumption DEF Good, Typed, Spaces, Regions, Pages, Bounds
<1>1. /\ n \in Regions /\ n.base = h.end /\ n.end = hi /\ n.prot = {"r", "w"} /\ n.fresh
      /\ Settled(n).base = h.end /\ Settled(n).end = hi
      /\ Settled(n).prot = {"r", "w"}
  BY <1>0 DEF NewRegion, Settled, Regions, Protections, Bounds
<1>2. /\ longer \in Regions /\ longer.base = h.base /\ longer.end = hi
      /\ longer.prot = h.prot /\ ~longer.fresh
  BY <1>0 DEF Regions, Bounds
<1>3. Grow(s, h, hi) =
        IF ~Ok(t) THEN t
        ELSE IF h.prot # Settled(n).prot THEN Failing(s, "heap") ELSE u
  BY DEF Grow
<1>4. Ok(t) /\ h.prot = {"r", "w"} /\ Grow(s, h, hi) = u
  <2>1. ~Ok(Failing(s, "heap"))
    BY DEF Failing, Ok, Good, Typed, Spaces
  <2> HIDE DEF n, t, u
  <2> QED BY <1>1, <1>3, <2>1
<1> HIDE DEF n, longer
<1>5. Good(a)
  BY TakeGood
<1> HIDE DEF a
<1>6. Good(t)
  BY <1>1, <1>5, AddGood
<1>7. Settled(n) \in t.regions
  <2>1. 0 \in Pages
    BY BoundsAssumption DEF Pages
  <2> QED BY <1>1, <1>4, <1>5, <2>1, AddTable
<1> HIDE DEF t
<1>8. Good(c)
  BY <1>6, <1>7, TakeGood
<1> HIDE DEF c
<1>9. Good(u)
  BY <1>2, <1>8, AddGood
<1> HIDE DEF u
<1>10. ASSUME NEW p \in Pages
       PROVE  TableOf(u)[p] = IF p \in Range(h.end, hi)
                              THEN Entry({"r", "w"}, "zero") ELSE TableOf(s)[p]
  <2>1. /\ a.data = s.data
        /\ TableOf(a)[p] = IF Contains(h, p) THEN Unmapped ELSE TableOf(s)[p]
    BY TakeTable DEF a
  <2>2. /\ t.data[p] = IF Contains(n, p) THEN "zero" ELSE a.data[p]
        /\ TableOf(t)[p] = IF Contains(n, p) THEN Entry({"r", "w"}, "zero")
                           ELSE TableOf(a)[p]
    <3>1. t.data[p] = IF n.fresh /\ Contains(n, p) THEN "zero" ELSE a.data[p]
      <4>1. Ok(AddRegion(a, n)) /\ n \in Regions
        BY <1>1, <1>4 DEF t
      <4> QED BY <1>5, <4>1, AddTable DEF t
    <3>2. TableOf(t)[p] = IF Contains(n, p)
                          THEN Entry(n.prot, IF n.fresh THEN "zero" ELSE a.data[p])
                          ELSE TableOf(a)[p]
      BY <1>1, <1>4, <1>5, AddTable, Zenon DEF t
    <3> QED BY <1>1, <3>1, <3>2
  <2>3. /\ c.data = t.data
        /\ TableOf(c)[p] = IF Contains(Settled(n), p) THEN Unmapped ELSE TableOf(t)[p]
    BY <1>6, <1>7, TakeTable DEF c
  <2>4. TableOf(u)[p] = IF Contains(longer, p) THEN Entry(h.prot, c.data[p])
                        ELSE TableOf(c)[p]
    <3>1. Ok(u)
      BY <1>4
    <3>2. TableOf(u)[p] = IF Contains(longer, p)
                          THEN Entry(longer.prot, IF longer.fresh THEN "zero" ELSE c.data[p])
                          ELSE TableOf(c)[p]
      BY <1>2, <1>8, <3>1, AddTable, Zenon DEF u
    <3> QED BY <1>2, <3>2
  <2>5. /\ Contains(longer, p) <=> Contains(h, p) \/ Contains(n, p)
        /\ Contains(n, p) <=> p \in Range(h.end, hi)
        /\ Contains(Settled(n), p) <=> Contains(n, p)
        /\ ~(Contains(h, p) /\ Contains(n, p))
    BY <1>0, <1>1, <1>2 DEF Contains, Range, Regions, Pages, Bounds
  <2>6. Contains(h, p) => TableOf(s)[p] = Entry(h.prot, s.data[p])
    BY EntryOfRegion
  <2> QED BY <1>4, <2>1, <2>2, <2>3, <2>4, <2>5, <2>6
<1>11. TableOf(u) = [p \in Pages |->
         IF p \in Range(h.end, hi) THEN Entry({"r", "w"}, "zero") ELSE TableOf(s)[p]]
  <2>1. TableOf(u) = [p \in Pages |-> TableOf(u)[p]]
    BY DEF TableOf
  <2> HIDE DEF TableOf
  <2> QED BY <1>10, <2>1
<1>12. \A p \in Pages : ~(p < 0)
  BY DEF Pages
<1> QED BY <1>4, <1>11, <1>12 DEF PT!Map, PT!Pages, Pages, Entry

(* The program break moves down.                                           *)
LEMMA ShrinkTable ==
  ASSUME NEW s, Good(s), NEW h \in s.regions, NEW hi \in Bounds, hi <= h.end,
         Ok(Shrink(s, h, hi))
  PROVE  TableOf(Shrink(s, h, hi)) = PT!Unmap(TableOf(s), Range(hi, h.end))
<1> DEFINE shorter == [h EXCEPT !.end = hi]
           a == TakeRegions(s, {h})
           u == AddRegion(a, shorter)
<1>0. /\ h \in Regions /\ h.base < h.end /\ ~h.fresh
      /\ hi \in Nat /\ hi <= NPages /\ NPages \in Nat
  BY BoundsAssumption DEF Good, Typed, Spaces, Regions, Pages, Bounds
<1>1. h.base < hi /\ Shrink(s, h, hi) = u
  <2>1. ~Ok(Failing(s, "heap"))
    BY DEF Failing, Ok, Good, Typed, Spaces
  <2>2. ~(hi <= h.base)
    BY <2>1 DEF Shrink
  <2> QED BY <1>0, <2>2 DEF Shrink, Regions, Pages
<1>2. /\ shorter \in Regions /\ shorter.base = h.base /\ shorter.end = hi
      /\ shorter.prot = h.prot /\ ~shorter.fresh
  BY <1>0 DEF Regions, Bounds
<1> HIDE DEF shorter
<1>3. Good(a)
  BY TakeGood
<1> HIDE DEF a, u
<1>4. ASSUME NEW p \in Pages
      PROVE  TableOf(u)[p] = IF p \in Range(hi, h.end) THEN Unmapped ELSE TableOf(s)[p]
  <2>1. /\ a.data = s.data
        /\ TableOf(a)[p] = IF Contains(h, p) THEN Unmapped ELSE TableOf(s)[p]
    BY TakeTable DEF a
  <2>2. TableOf(u)[p] = IF Contains(shorter, p) THEN Entry(h.prot, a.data[p])
                        ELSE TableOf(a)[p]
    BY <1>1, <1>2, <1>3, AddTable DEF u
  <2>3. /\ Contains(h, p) <=> Contains(shorter, p) \/ p \in Range(hi, h.end)
        /\ ~(Contains(shorter, p) /\ p \in Range(hi, h.end))
    BY <1>0, <1>1, <1>2 DEF Contains, Range, Regions, Pages, Bounds
  <2>4. Contains(h, p) => TableOf(s)[p] = Entry(h.prot, s.data[p])
    BY EntryOfRegion
  <2> QED BY <2>1, <2>2, <2>3, <2>4
<1>5. TableOf(u) = [p \in Pages |->
        IF p \in Range(hi, h.end) THEN Unmapped ELSE TableOf(s)[p]]
  <2>1. TableOf(u) = [p \in Pages |-> TableOf(u)[p]]
    BY DEF TableOf
  <2> HIDE DEF TableOf
  <2> QED BY <1>4, <2>1
<1> QED BY <1>1, <1>5 DEF PT!Unmap, PT!Pages, Pages

(* fork: the table of the child.                                           *)
LEMMA CloneTable ==
  ASSUME NEW s, Good(s)
  PROVE  /\ Clone(s).failed = s.failed
         /\ TableOf(Clone(s)) = PT!Inherit(TableOf(s))
<1> DEFINE u == Clone(s)
           E(p) == IF TableOf(s)[p] = Unmapped THEN Unmapped
                   ELSE PT!InheritedEntry(TableOf(s)[p])
<1>1. /\ u.failed = s.failed /\ u.regions = {Inherited(r) : r \in s.regions}
      /\ u.data = [p \in Pages |->
           IF \E r \in s.regions : Contains(r, p) /\ "r" \in r.prot
           THEN s.data[p] ELSE "zero"]
  BY DEF Clone, Good, Typed, Spaces
<1>2. Good(u)
  BY CloneGood
<1> HIDE DEF u
<1>3. \A r \in s.regions :
        /\ Inherited(r).base = r.base /\ Inherited(r).end = r.end
        /\ Inherited(r).prot = IF {"w", "x"} \subseteq r.prot THEN {"r", "w"} ELSE r.prot
  <2>1. s.regions \subseteq Regions
    BY DEF Good, Typed, Spaces
  <2> QED BY <2>1 DEF Inherited, Regions
<1>4. ASSUME NEW p \in Pages PROVE TableOf(u)[p] = E(p)
  <2>1. CASE \E r \in s.regions : Contains(r, p)
    <3>1. PICK r \in s.regions : Contains(r, p)
      BY <2>1
    <3>2. Inherited(r) \in u.regions /\ Contains(Inherited(r), p)
      BY <1>1, <1>3, <3>1 DEF Contains
    <3>3. TableOf(u)[p] = Entry(Inherited(r).prot, u.data[p])
      BY <1>2, <3>2, EntryOfRegion
    <3>4. TableOf(s)[p] = Entry(r.prot, s.data[p]) /\ TableOf(s)[p] # Unmapped
      BY <3>1, EntryOfRegion, EntryTyped
    <3>5. u.data[p] = IF "r" \in r.prot THEN s.data[p] ELSE "zero"
      <4>1. \A q \in s.regions : Contains(q, p) => q = r
        BY <3>1 DEF Good, Exact
      <4> QED BY <1>1, <3>1, <4>1
    <3>6. PT!InheritedEntry(Entry(r.prot, s.data[p])) =
            Entry(Inherited(r).prot, IF "r" \in r.prot THEN s.data[p] ELSE "zero")
      BY <1>3 DEF PT!InheritedEntry, Entry
    <3> QED BY <3>3, <3>4, <3>5, <3>6
  <2>2. CASE \A r \in s.regions : ~Contains(r, p)
    <3>1. \A q \in u.regions : ~Contains(q, p)
      BY <1>1, <1>3, <2>2 DEF Contains
    <3>2. TableOf(u)[p] = Unmapped /\ TableOf(s)[p] = Unmapped
      BY <1>2, <2>2, <3>1, EntryOfHole
    <3> QED BY <3>2
  <2> QED BY <2>1, <2>2
<1>5. TableOf(u) = [p \in Pages |-> E(p)]
  <2>1. TableOf(u) = [p \in Pages |-> TableOf(u)[p]]
    BY DEF TableOf
  <2> HIDE DEF TableOf, E
  <2> QED BY <1>4, <2>1
<1> QED BY <1>1, <1>5 DEF PT!Inherit, PT!Pages, Pages, u

(* The null page is put back: its pages were not mapped, and nobody can    *)
(* access them (Mmu::ensureNullPage, mmu.cpp:248).                         *)
LEMMA NullPageTable ==
  ASSUME NEW s, Good(s), Ok(AddRegion(s, NullPage))
  PROVE  PT!Guard(TableOf(s), TableOf(AddRegion(s, NullPage)), Range(0, NullPages))
<1> DEFINE u == AddRegion(s, NullPage)
<1>1. /\ NullPage \in Regions /\ NullPage.base = 0 /\ NullPage.end = NullPages
      /\ NullPage.prot = {} /\ ~NullPage.fresh /\ 0 \in Range(0, NullPages)
  BY BoundsAssumption DEF NullPage, Regions, Protections, Pages, Bounds, Range
<1>2. ASSUME NEW p \in Pages
      PROVE  IF p \in Range(0, NullPages)
             THEN /\ TableOf(s)[p] = Unmapped
                  /\ TableOf(u)[p] \in [prot : {{}}, data : Contents]
             ELSE TableOf(u)[p] = TableOf(s)[p]
  <2>1. /\ Contains(NullPage, p) => TableOf(s)[p] = Unmapped
        /\ TableOf(u)[p] = IF Contains(NullPage, p) THEN Entry({}, s.data[p])
                           ELSE TableOf(s)[p]
    <3>1. /\ Contains(NullPage, p) => TableOf(s)[p] = Unmapped
          /\ TableOf(u)[p] =
               IF Contains(NullPage, p)
               THEN Entry(NullPage.prot, IF NullPage.fresh THEN "zero" ELSE s.data[p])
               ELSE TableOf(s)[p]
      BY <1>1, AddTable
    <3> HIDE DEF u
    <3> QED BY <1>1, <3>1
  <2>2. Contains(NullPage, p) <=> p \in Range(0, NullPages)
    BY <1>1 DEF Contains, Range
  <2>3. Entry({}, s.data[p]) \in [prot : {{}}, data : Contents]
    BY DEF Entry, Good, Typed, Spaces
  <2> QED BY <2>1, <2>2, <2>3
<1> HIDE DEF u
<1>3. \A p \in Pages :
        IF p \in Range(0, NullPages)
        THEN /\ TableOf(s)[p] = Unmapped
             /\ TableOf(u)[p] \in [prot : {{}}, data : Contents]
        ELSE TableOf(u)[p] = TableOf(s)[p]
  BY <1>2
<1> HIDE DEF TableOf
<1> QED BY <1>1, <1>3 DEF PT!Guard, PT!Pages, PT!Contents, Pages, Contents, u

-----------------------------------------------------------------------------
(* The steps of the program implement those of its page table.             *)

(* A call changes the pages of a range, so what it does to the range it    *)
(* does to the part that changes.                                          *)
LEMMA AffectedInRange ==
  ASSUME NEW t, NEW u, NEW lo \in Nat, NEW hi \in Nat,
         \A p \in Pages : p \notin Range(lo, hi) => u[p] = t[p]
  PROVE  /\ PT!Affected(t, u) \subseteq Range(lo, hi)
         /\ \A p \in Pages : p \notin PT!Affected(t, u) => u[p] = t[p]
<1>1. PT!Affected(t, u) =
        {p \in Pages : \E a, c \in {q \in Pages : t[q] # u[q]} : a <= p /\ p <= c}
  BY DEF PT!Affected, PT!Pages, Pages
<1>2. ASSUME NEW p \in Pages, NEW a \in Pages, NEW c \in Pages,
             a \in Range(lo, hi), c \in Range(lo, hi), a <= p, p <= c
      PROVE  p \in Range(lo, hi)
  BY <1>2, BoundsAssumption DEF Range, Pages
<1>3. ASSUME NEW p \in Pages PROVE p <= p
  BY BoundsAssumption DEF Pages
<1> QED BY <1>1, <1>2, <1>3

(* munmap and a shrinking brk *)
LEMMA UnmapSteps ==
  ASSUME NEW t, NEW u, NEW lo \in Nat, NEW hi \in Nat, u = PT!Unmap(t, Range(lo, hi))
  PROVE  PT!Steps(t, u)
<1> DEFINE A == PT!Affected(t, u)
<1>1. u = [p \in Pages |-> IF p \in Range(lo, hi) THEN Unmapped ELSE t[p]]
  BY DEF PT!Unmap, PT!Pages, Pages
<1>2. /\ A \subseteq Range(lo, hi)
      /\ \A p \in Pages : p \notin A => u[p] = t[p]
  BY <1>1, AffectedInRange
<1> HIDE DEF A
<1>3. u = [p \in Pages |-> IF p \in A THEN Unmapped ELSE t[p]]
  BY <1>1, <1>2
<1>4. u = PT!Unmap(t, A)
  BY <1>3 DEF PT!Unmap, PT!Pages, Pages
<1> QED BY <1>4 DEF PT!Steps, A

(* mprotect *)
LEMMA ProtectSteps ==
  ASSUME NEW t, NEW u, NEW lo \in Nat, NEW hi \in Nat, NEW prot \in Protections,
         u = PT!Protect(t, Range(lo, hi), prot)
  PROVE  PT!Steps(t, u)
<1> DEFINE A == PT!Affected(t, u)
           E(p) == [t[p] EXCEPT !.prot = prot]
<1>1. u = [p \in Pages |->
        IF p \in Range(lo, hi) /\ t[p] # Unmapped THEN E(p) ELSE t[p]]
  BY DEF PT!Protect, PT!Pages, Pages
<1>2. /\ A \subseteq Range(lo, hi)
      /\ \A p \in Pages : p \notin A => u[p] = t[p]
  BY <1>1, AffectedInRange
<1> HIDE DEF A, E
<1>3. u = [p \in Pages |-> IF p \in A /\ t[p] # Unmapped THEN E(p) ELSE t[p]]
  BY <1>1, <1>2
<1>4. u = PT!Protect(t, A, prot)
  BY <1>3 DEF PT!Protect, PT!Pages, Pages, E
<1>5. prot \in PT!Protections
  BY DEF PT!Protections, Protections
<1> QED BY <1>4, <1>5 DEF PT!Steps, A

(* mmap and a growing brk *)
LEMMA MapSteps ==
  ASSUME NEW t, NEW u, NEW lo \in Nat, NEW hi \in Nat, NEW prot \in Protections,
         NEW mid \in 0..NPages, u = PT!Map(t, Range(lo, hi), prot, mid)
  PROVE  PT!Steps(t, u)
<1> DEFINE A == PT!Affected(t, u)
           E(p) == [prot |-> prot, data |-> IF p < mid THEN "file" ELSE "zero"]
<1>1. u = [p \in Pages |-> IF p \in Range(lo, hi) THEN E(p) ELSE t[p]]
  BY DEF PT!Map, PT!Pages, Pages
<1>2. /\ A \subseteq Range(lo, hi)
      /\ \A p \in Pages : p \notin A => u[p] = t[p]
  BY <1>1, AffectedInRange
<1> HIDE DEF A, E
<1>3. u = [p \in Pages |-> IF p \in A THEN E(p) ELSE t[p]]
  BY <1>1, <1>2
<1>4. u = PT!Map(t, A, prot, mid)
  BY <1>3 DEF PT!Map, PT!Pages, Pages, E
<1>5. prot \in PT!Protections
  BY DEF PT!Protections, Protections
<1> QED BY <1>4, <1>5 DEF PT!Steps, A

(* the null page *)
LEMMA GuardSteps ==
  ASSUME NEW t, NEW u, NEW hi \in Nat, PT!Guard(t, u, Range(0, hi))
  PROVE  PT!Steps(t, u)
<1> DEFINE A == PT!Affected(t, u)
           N == [prot : {{}}, data : Contents]
           R == Range(0, hi)
<1>1. /\ 0 \in R
      /\ \A p \in Pages : IF p \in R THEN t[p] = Unmapped /\ u[p] \in N ELSE u[p] = t[p]
  BY DEF PT!Guard, PT!Pages, PT!Contents, Pages, Contents
<1>2. Unmapped \notin N
  BY ValuesAssumption DEF Protections
<1>3. A = R
  <2>1. A \subseteq R /\ \A p \in Pages : p \notin A => u[p] = t[p]
    BY <1>1, AffectedInRange
  <2> HIDE DEF A, N
  <2> QED BY <1>1, <1>2, <2>1 DEF Range
<1>4. PT!Guard(t, u, A)
  BY <1>3
<1> QED BY <1>4 DEF PT!Steps, A

(* What a call does to the table, unless a verify fails.                   *)
Allowed(s) == PT!Steps(TableOf(mm), TableOf(s)) \/ TableOf(s) = TableOf(mm)

(* The abstract program takes the step of a call that becomes s.           *)
LEMMA BecomesStep ==
  ASSUME Good(mm), NEW s, Good(s), Becomes(s), Ok(s) => Allowed(s)
  PROVE  [PT!Next]_(TableOf(mm))
<1>1. CASE Ok(s)
  <2>1. mm' = s
    BY <1>1 DEF Becomes
  <2>2. TableOf(mm') \in PT!Tables
    BY <2>1, TableTyped
  <2>3. PT!Steps(TableOf(mm), TableOf(mm')) \/ TableOf(mm') = TableOf(mm)
    BY <1>1, <2>1 DEF Allowed
  <2> HIDE DEF TableOf
  <2> QED BY <2>2, <2>3 DEF PT!Next
<1>2. CASE ~Ok(s)
  <2>1. mm' = Failing(mm, s.failed)
    BY <1>2 DEF Becomes
  <2>2. mm'.lookup = mm.lookup /\ mm'.regions = mm.regions /\ mm'.data = mm.data
    BY <2>1 DEF Failing, Good, Typed, Spaces
  <2>3. TableOf(mm') = TableOf(mm)
    BY <2>2 DEF TableOf, RegionAt
  <2> HIDE DEF TableOf
  <2> QED BY <2>3
<1> QED BY <1>1, <1>2

(* A call whose verify fails does not become anything.                     *)
LEMMA FailingNotOk ==
  ASSUME NEW s, Good(s), NEW why \in Reasons \ {"insert"}
  PROVE  Good(Failing(s, why)) /\ ~Ok(Failing(s, why))
<1>1. Failing(s, why).failed = why
  BY DEF Failing, Good, Typed, Spaces
<1>2. why # "no"
  BY DEF Reasons
<1> QED BY <1>1, <1>2, FailingGood DEF Ok

(* A store of the program, through a region that can be written to.        *)
LEMMA StoreStep ==
  ASSUME Good(mm), NEW p \in Pages, Store(p)
  PROVE  [PT!Next]_(TableOf(mm))
<1> DEFINE u == [mm EXCEPT !.data[p] = "stored"]
           t == TableOf(mm)
<1>1. mm' = u
  BY DEF Store
<1>2. Good(u)
  BY StoreGood
<1>3. /\ u.regions = mm.regions
      /\ u.data = [mm.data EXCEPT ![p] = "stored"]
  BY DEF Good, Typed, Spaces
<1> HIDE DEF u
<1>4. PICK r \in mm.regions : Contains(r, p) /\ "w" \in r.prot
  BY DEF Store
<1>5. t[p] = Entry(r.prot, mm.data[p]) /\ t[p] # Unmapped
  BY <1>4, EntryOfRegion, EntryTyped
<1>6. p \in PT!Writable(t)
  BY <1>4, <1>5 DEF PT!Writable, PT!Pages, Pages, Entry
<1>7. ASSUME NEW q \in Pages
      PROVE  TableOf(u)[q] = IF q = p THEN Entry(r.prot, "stored") ELSE t[q]
  <2>1. mm.data \in [Pages -> Contents]
    BY DEF Good, Typed, Spaces
  <2>2. u.data[q] = IF q = p THEN "stored" ELSE mm.data[q]
    BY <1>3, <2>1
  <2>3. CASE \E o \in mm.regions : Contains(o, q)
    <3>1. PICK o \in mm.regions : Contains(o, q)
      BY <2>3
    <3>2. TableOf(u)[q] = Entry(o.prot, u.data[q])
      <4>1. o \in u.regions
        BY <1>3, <3>1
      <4> HIDE DEF t
      <4> QED BY <1>2, <3>1, <4>1, EntryOfRegion
    <3>3. t[q] = Entry(o.prot, mm.data[q])
      BY <3>1, EntryOfRegion
    <3>4. q = p => o = r
      BY <1>4, <3>1 DEF Good, Exact
    <3> HIDE DEF t
    <3> QED BY <2>2, <3>2, <3>3, <3>4
  <2>4. CASE \A o \in mm.regions : ~Contains(o, q)
    <3>1. q # p
      BY <1>4, <2>4
    <3>2. TableOf(u)[q] = Unmapped /\ t[q] = Unmapped
      BY <1>2, <1>3, <2>4, EntryOfHole
    <3> QED BY <3>1, <3>2
  <2> QED BY <2>3, <2>4
<1>8. TableOf(u) = PT!Store(t, p)
  <2>1. TableOf(u) = [q \in Pages |-> TableOf(u)[q]] /\ t = [q \in Pages |-> t[q]]
    BY DEF TableOf
  <2>2. [t[p] EXCEPT !.data = "stored"] = Entry(r.prot, "stored")
    BY <1>5 DEF Entry
  <2>3. PT!Store(t, p) = [t EXCEPT ![p] = [t[p] EXCEPT !.data = "stored"]]
    BY <2>1 DEF PT!Store
  <2> HIDE DEF t
  <2>4. DOMAIN t = Pages
    BY <2>1
  <2> DEFINE e == Entry(r.prot, "stored")
  <2> HIDE DEF e
  <2>5. [t EXCEPT ![p] = e] = [q \in Pages |-> IF q = p THEN e ELSE t[q]]
    BY <2>1, <2>4
  <2>6. [q \in Pages |-> TableOf(u)[q]] = [q \in Pages |-> IF q = p THEN e ELSE t[q]]
    BY <1>7 DEF e
  <2> QED BY <2>1, <2>2, <2>3, <2>5, <2>6 DEF e
<1>9. PT!Steps(t, TableOf(u))
  BY <1>6, <1>8 DEF PT!Steps
<1>10. TableOf(mm') \in PT!Tables
  BY <1>1, <1>2, TableTyped
<1> HIDE DEF TableOf
<1> QED BY <1>1, <1>9, <1>10 DEF PT!Next

(* The calls that move the program break (Mmu::brk).                       *)
LEMMA BrkAllowed ==
  ASSUME Good(mm), NEW h \in mm.regions, NEW p \in Bounds, NEW inside \in BOOLEAN,
         Ok(Brk(mm, h, p, inside))
  PROVE  Allowed(Brk(mm, h, p, inside))
<1> DEFINE hi == IF inside THEN p + 1 ELSE p
<1>0. /\ h \in Regions /\ h.base < h.end /\ h.end \in Nat /\ NPages \in Nat
      /\ {"r", "w"} \in Protections
  BY BoundsAssumption DEF Good, Typed, Spaces, Regions, Bounds, Protections
<1>1. CASE BrkRefused(mm, h, p, inside)
  BY <1>1 DEF Brk, Allowed
<1>2. CASE ~BrkRefused(mm, h, p, inside) /\ p >= h.end
  <2>1. hi \in Bounds /\ h.end < hi
    BY <1>0, <1>2 DEF BrkRefused, Bounds
  <2>2. Brk(mm, h, p, inside) = Grow(mm, h, hi)
    BY <1>2 DEF Brk
  <2> HIDE DEF hi
  <2>3. TableOf(Grow(mm, h, hi)) =
          PT!Map(TableOf(mm), Range(h.end, hi), {"r", "w"}, 0)
    BY <2>1, <2>2, GrowTable
  <2>4. hi \in Nat /\ 0 \in 0..NPages
    BY <1>0, <2>1 DEF Bounds
  <2>5. PT!Steps(TableOf(mm), TableOf(Grow(mm, h, hi)))
    BY <1>0, <2>3, <2>4, MapSteps
  <2> QED BY <2>2, <2>5 DEF Allowed
<1>3. CASE ~BrkRefused(mm, h, p, inside) /\ p < h.end
  <2>1. hi \in Bounds /\ hi <= h.end /\ ~(p >= h.end)
    BY <1>0, <1>3 DEF BrkRefused, Regions, Bounds
  <2>2. Brk(mm, h, p, inside) = Shrink(mm, h, hi)
    BY <1>3, <2>1 DEF Brk
  <2> HIDE DEF hi
  <2>3. TableOf(Shrink(mm, h, hi)) = PT!Unmap(TableOf(mm), Range(hi, h.end))
    BY <2>1, <2>2, ShrinkTable
  <2>4. hi \in Nat
    BY <2>1 DEF Bounds
  <2>5. PT!Steps(TableOf(mm), TableOf(Shrink(mm, h, hi)))
    BY <1>0, <2>3, <2>4, UnmapSteps
  <2> QED BY <2>2, <2>5 DEF Allowed
<1> QED BY <1>0, <1>1, <1>2, <1>3 DEF Bounds

(* Every step of the program is one of its page table.                     *)
LEMMA RefineStep ==
  ASSUME IInv, [Next]_vars
  PROVE  [PT!Next]_(TableOf(mm))
<1> USE DEF IInv
<1>0. /\ NPages \in Nat /\ Pages \subseteq Nat /\ Bounds \subseteq Nat
      /\ Lengths \subseteq Nat /\ Prots \subseteq Protections /\ 0 \in 0..NPages
  BY BoundsAssumption, ValuesAssumption DEF Pages, Bounds
<1>1. CASE EnsureNullPage
  <2>1. NullPage \in Regions
    BY BoundsAssumption DEF NullPage, Regions, Protections, Pages, Bounds
  <2>2. Good(AddRegion(mm, NullPage))
    BY <2>1, AddGood
  <2>3. Good(Failing(mm, "nullpage")) /\ ~Ok(Failing(mm, "nullpage"))
    BY FailingNotOk DEF Reasons
  <2>4. Ok(AddRegion(mm, NullPage)) => Allowed(AddRegion(mm, NullPage))
    <3>1. NullPages \in Nat
      BY BoundsAssumption
    <3> QED BY <3>1, NullPageTable, GuardSteps DEF Allowed
  <2>5. Becomes(AddRegion(mm, NullPage)) \/ Becomes(Failing(mm, "nullpage"))
    BY <1>1 DEF EnsureNullPage
  <2> QED BY <2>2, <2>3, <2>4, <2>5, BecomesStep
<1>2. ASSUME NEW n \in Lengths, NEW b \in Pages, SysMunmap(b, n)
      PROVE  [PT!Next]_(TableOf(mm))
  <2> DEFINE u == Munmap(mm, b, b + n)
  <2>1. Good(u) /\ Becomes(u) /\ b \in Nat /\ b + n \in Nat
    BY <1>0, <1>2, MunmapGood DEF SysMunmap
  <2>2. Ok(u) => TableOf(u) = PT!Unmap(TableOf(mm), Range(b, b + n))
    BY <2>1, MunmapTable
  <2> HIDE DEF u
  <2>3. Ok(u) => Allowed(u)
    BY <2>1, <2>2, UnmapSteps DEF Allowed
  <2> QED BY <2>1, <2>3, BecomesStep
<1>3. ASSUME NEW n \in Lengths, NEW b \in Pages, NEW prot \in Prots,
             SysMprotect(b, n, prot)
      PROVE  [PT!Next]_(TableOf(mm))
  <2> DEFINE u == Mprotect(mm, b, b + n, prot)
  <2>1. /\ Good(u) /\ Becomes(u) /\ b \in Nat /\ b + n \in Nat
        /\ prot \in Protections
    BY <1>0, <1>3, MprotectGood DEF SysMprotect
  <2>2. Ok(u) => \/ TableOf(u) = TableOf(mm)
                 \/ TableOf(u) = PT!Protect(TableOf(mm), Range(b, b + n), prot)
    BY <2>1, MprotectTable
  <2> HIDE DEF u
  <2>3. Ok(u) => Allowed(u)
    BY <2>1, <2>2, ProtectSteps DEF Allowed
  <2> QED BY <2>1, <2>3, BecomesStep
<1>12. ASSUME NEW n \in Lengths, NEW b \in Bounds, NEW how, NEW prot \in Prots,
              Becomes(Mmap(mm, how, b, n, prot))
       PROVE  [PT!Next]_(TableOf(mm))
  <2> DEFINE u == Mmap(mm, how, b, n, prot)
  <2>1. /\ b \in Nat /\ n \in Nat /\ b + n \in Nat /\ prot \in Protections
    BY <1>0
  <2>2. Good(u) /\ Becomes(u)
    BY <1>12, <2>1, MmapGood
  <2>3. CASE b + n <= NPages
    <3>1. Ok(u) => TableOf(u) = PT!Map(TableOf(mm), Range(b, b + n), prot, 0)
      BY <2>1, <2>3, MmapTable
    <3> HIDE DEF u
    <3>2. Ok(u) => Allowed(u)
      BY <1>0, <2>1, <3>1, MapSteps DEF Allowed
    <3> QED BY <2>2, <3>2, BecomesStep
  <2>4. CASE ~(b + n <= NPages)
    <3>1. b + n > NPages
      BY <1>0, <2>1, <2>4
    <3>2. u = mm \/ u = Failing(mm, "length")
      BY <3>1 DEF Mmap
    <3>3. Failing(mm, "length").failed = "length"
      BY DEF Failing, Good, Typed, Spaces
    <3> HIDE DEF u
    <3>4. Ok(u) => Allowed(u)
      BY <3>2, <3>3 DEF Allowed, Ok
    <3> QED BY <2>2, <3>4, BecomesStep
  <2> QED BY <2>3, <2>4
<1>4. ASSUME NEW n \in Lengths, NEW b \in Bounds, NEW how, NEW prot \in Prots,
             SysMmap(how, b, n, prot)
      PROVE  [PT!Next]_(TableOf(mm))
  BY <1>4, <1>12 DEF SysMmap
<1>13. ASSUME NEW n \in Lengths, NEW b \in Bounds, NEW how, NEW prot \in Prots,
              NEW m \in Lengths \cap 0..n, Becomes(MapFile(mm, how, b, n, prot, m))
       PROVE  [PT!Next]_(TableOf(mm))
  <2> DEFINE u == MapFile(mm, how, b, n, prot, m)
  <2>1. /\ b \in Nat /\ n \in Nat /\ m \in Nat /\ m <= n /\ b + n \in Nat
        /\ prot \in Protections
    BY <1>0
  <2>2. Good(u) /\ Becomes(u)
    BY <1>13, <2>1, MapFileGood
  <2>3. CASE b + n <= NPages
    <3>1. Ok(u) => TableOf(u) = PT!Map(TableOf(mm), Range(b, b + n), prot, b + m)
      BY <2>1, <2>3, MapFileTable
    <3>2. b + m \in 0..NPages
      BY <1>0, <2>1, <2>3
    <3> HIDE DEF u
    <3>3. Ok(u) => Allowed(u)
      BY <2>1, <3>1, <3>2, MapSteps DEF Allowed
    <3> QED BY <2>2, <3>3, BecomesStep
  <2>4. CASE ~(b + n <= NPages)
    <3>1. b + n > NPages
      BY <1>0, <2>1, <2>4
    <3>2. u = mm \/ u = Failing(mm, "length")
      BY <3>1 DEF MapFile, Mmap
    <3>3. Failing(mm, "length").failed = "length"
      BY DEF Failing, Good, Typed, Spaces
    <3> HIDE DEF u
    <3>4. Ok(u) => Allowed(u)
      BY <3>2, <3>3 DEF Allowed, Ok
    <3> QED BY <2>2, <3>4, BecomesStep
  <2> QED BY <2>3, <2>4
<1>5. ASSUME NEW n \in Lengths, NEW b \in Bounds, NEW how, NEW prot \in Prots,
             SysMapFile(how, b, n, prot)
      PROVE  [PT!Next]_(TableOf(mm))
  BY <1>5, <1>12, <1>13 DEF SysMapFile
<1>6. ASSUME NEW p \in Bounds, NEW inside \in BOOLEAN, SysBrk(p, inside)
      PROVE  [PT!Next]_(TableOf(mm))
  <2>1. CASE Becomes(Failing(mm, "heap"))
    <3>1. Good(Failing(mm, "heap")) /\ ~Ok(Failing(mm, "heap"))
      BY FailingNotOk DEF Reasons
    <3> QED BY <2>1, <3>1, BecomesStep
  <2>2. ASSUME NEW h \in mm.regions, Becomes(Brk(mm, h, p, inside))
        PROVE  [PT!Next]_(TableOf(mm))
    <3>1. Good(Brk(mm, h, p, inside))
      BY BrkGood
    <3>2. Ok(Brk(mm, h, p, inside)) => Allowed(Brk(mm, h, p, inside))
      BY BrkAllowed
    <3> QED BY <2>2, <3>1, <3>2, BecomesStep
  <2> QED BY <1>6, <2>1, <2>2 DEF SysBrk, FirstHeap
<1>7. CASE SysFork
  <2>1. Good(Clone(mm)) /\ Becomes(Clone(mm))
    BY <1>7, CloneGood DEF SysFork
  <2>2. Allowed(Clone(mm))
    BY CloneTable DEF Allowed, PT!Steps
  <2> QED BY <2>1, <2>2, BecomesStep
<1>8. CASE SysExecve
  <2>1. Good(Loaded(Image)) /\ Becomes(Loaded(Image))
    BY <1>8, LoadedGood DEF SysExecve
  <2>2. Allowed(Loaded(Image))
    BY DEF Allowed, PT!Steps
  <2> QED BY <2>1, <2>2, BecomesStep
<1>9. ASSUME NEW p \in Pages, Store(p)
      PROVE  [PT!Next]_(TableOf(mm))
  BY <1>9, StoreStep
<1>10. ASSUME NEW at \in Starts, NEW last \in Pages, FetchSegment(at, last)
       PROVE  [PT!Next]_(TableOf(mm))
  <2> DEFINE g == [page |-> at.page, first |-> at.first, last |-> last]
  <2>1. g \in Segments
    BY DEF Segments, Starts
  <2>2. CASE Becomes(Failing(mm, "interval"))
    <3>1. Good(Failing(mm, "interval")) /\ ~Ok(Failing(mm, "interval"))
      BY FailingNotOk DEF Reasons
    <3> QED BY <2>2, <3>1, BecomesStep
  <2>3. ASSUME NEW i \in mm.intervals, Becomes(AddSegment(mm, g, i))
        PROVE  [PT!Next]_(TableOf(mm))
    <3> DEFINE u == AddSegment(mm, g, i)
    <3>1. Good(u)
      BY <2>1, AddSegmentGood
    <3>2. u.lookup = mm.lookup /\ u.regions = mm.regions /\ u.data = mm.data
      BY DEF AddSegment, Good, Typed, Spaces
    <3> HIDE DEF u
    <3>3. TableOf(u) = TableOf(mm)
      BY <3>2 DEF TableOf, RegionAt
    <3>4. Becomes(u)
      BY <2>3 DEF u
    <3> QED BY <3>1, <3>3, <3>4, BecomesStep DEF Allowed
  <2> QED BY <1>10, <2>2, <2>3 DEF FetchSegment, Finds
<1>11. CASE UNCHANGED vars \/ Panicked
  <2>1. mm' = mm
    BY <1>11 DEF vars, Panicked
  <2>2. TableOf(mm') = TableOf(mm)
    BY <2>1
  <2> HIDE DEF TableOf
  <2> QED BY <2>2
<1> QED BY <1>1, <1>2, <1>3, <1>4, <1>5, <1>6, <1>7, <1>8, <1>9, <1>10, <1>11
        DEF Next

(* The address space implements the page table it promises to the program, *)
(* from the loader to the last call: whatever is split, moved or erased, a *)
(* page has the protection and the contents that PageTable allows          *)
(* (x64/mmu.cpp).                                                          *)
THEOREM ImplementsTheTable == Spec => ImplementsPageTable
<1>1. Init => PT!Init
  BY DEF Init, PT!Init
<1>2. IInv /\ [Next]_vars => [PT!Next]_(TableOf(mm))
  BY RefineStep
<1> QED BY <1>1, <1>2, Invariant, PTL DEF Spec, ImplementsPageTable, PT!Spec

(* In every reachable space munmap, mprotect and both kinds of mmap change *)
(* exactly the pages they name, however those are spread over regions that *)
(* have to be split (mmu.cpp:76-177, syscalls.cpp).                        *)
THEOREM CallsChangeTheirPages == Spec => []CallsAreExact
<1>1. IInv => CallsAreExact
  <2> SUFFICES ASSUME Good(mm), NEW b \in Pages, NEW n \in Lengths
               PROVE  LET R == {p \in Pages : b <= p /\ p < b + n}
                          Is(s, table) == Ok(s) => TableOf(s) = table
                      IN  /\ Is(Munmap(mm, b, b + n), PT!Unmap(TableOf(mm), R))
                          /\ \A prot \in Prots :
                               /\ Is(Mprotect(mm, b, b + n, prot),
                                     IF Denied(mm, b, b + n, prot) THEN TableOf(mm)
                                     ELSE PT!Protect(TableOf(mm), R, prot))
                               /\ b + n <= NPages => \A how \in {"fixed", "noreplace"} :
                                    /\ Is(Mmap(mm, how, b, n, prot),
                                          PT!Map(TableOf(mm), R, prot, 0))
                                    /\ \A m \in 0..n :
                                         Is(MapFile(mm, how, b, n, prot, m),
                                            PT!Map(TableOf(mm), R, prot, b + m))
    BY DEF IInv, CallsAreExact
  <2>1. b \in Nat /\ n \in Nat /\ b + n \in Nat /\ b \in Bounds
    BY BoundsAssumption DEF Pages, Bounds
  <2>2. {p \in Pages : b <= p /\ p < b + n} = Range(b, b + n)
    BY DEF Range
  <2>3. Ok(Munmap(mm, b, b + n)) =>
          TableOf(Munmap(mm, b, b + n)) = PT!Unmap(TableOf(mm), Range(b, b + n))
    BY <2>1, MunmapTable
  <2>4. ASSUME NEW prot \in Prots
        PROVE  Ok(Mprotect(mm, b, b + n, prot)) =>
                 TableOf(Mprotect(mm, b, b + n, prot)) =
                   IF Denied(mm, b, b + n, prot) THEN TableOf(mm)
                   ELSE PT!Protect(TableOf(mm), Range(b, b + n), prot)
    BY <2>1, MprotectTable, ValuesAssumption
  <2>5. ASSUME NEW prot \in Prots, b + n <= NPages, NEW how
        PROVE  Ok(Mmap(mm, how, b, n, prot)) =>
                 TableOf(Mmap(mm, how, b, n, prot)) =
                   PT!Map(TableOf(mm), Range(b, b + n), prot, 0)
    BY <2>1, <2>5, MmapTable, ValuesAssumption
  <2>6. ASSUME NEW prot \in Prots, b + n <= NPages, NEW how, NEW m \in 0..n
        PROVE  Ok(MapFile(mm, how, b, n, prot, m)) =>
                 TableOf(MapFile(mm, how, b, n, prot, m)) =
                   PT!Map(TableOf(mm), Range(b, b + n), prot, b + m)
    <3>1. m \in Nat
      BY <2>1
    <3> QED BY <2>1, <2>6, <3>1, MapFileTable, ValuesAssumption
  <2> QED BY <2>2, <2>3, <2>4, <2>5, <2>6
<1> QED BY <1>1, Invariant, PTL
=============================================================================
