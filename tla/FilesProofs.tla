----------------------------- MODULE FilesProofs -----------------------------
(***************************************************************************)
(* What the file system guarantees for every number of processes,          *)
(* descriptors, files and addresses, whatever the programs call.           *)
(*                                                                         *)
(* Good(s, tab, o, X) is a predicate of any file system, tables and        *)
(* descriptions, also of those in the middle of a call: typed, the         *)
(* references counted, the files either orphans that are referred to or    *)
(* entries of the directory, the pipes connected with their ends.  X are   *)
(* the files that are being made or closed, of which that need not hold.   *)
(* There is a lemma for each operator of module Files, that it takes what  *)
(* is good to what is good, and one for each call.                         *)
(*                                                                         *)
(* IInv is the inductive invariant: nothing is being made or closed, and   *)
(* no description is kept that no table refers to.                         *)
(*                                                                         *)
(* Tidy is what is true until two files have had one path: a path stands   *)
(* for one file at most (Sparse), and a file that is to go with its last   *)
(* descriptor has one (Goes).                                              *)
(***************************************************************************)
EXTENDS Files, FiniteSetTheorems, SequenceTheorems, WellFoundedInduction, TLAPS

(* The numbers below a number are well-founded: a set of numbers has a     *)
(* least one.                                                              *)
LEMMA LeastExists ==
  ASSUME NEW S \in SUBSET Nat, S # {}
  PROVE  Least(S) \in S /\ \A y \in S : Least(S) <= y
<1> DEFINE T == {0..x : x \in S}
<1>1. IsWellFoundedOn(StrictSubsetOrdering(Nat), FiniteSubsetsOf(Nat))
  BY FS_StrictSubsetOrderingWellFounded
<1>2. T \subseteq FiniteSubsetsOf(Nat) /\ T # {}
  <2>1. ASSUME NEW x \in S PROVE 0..x \in FiniteSubsetsOf(Nat)
    <3>1. IsFiniteSet(0..x)
      BY FS_Interval
    <3> QED BY <3>1 DEF FiniteSubsetsOf
  <2> QED BY <2>1
<1>3. PICK t \in T : \A u \in T : <<u, t>> \notin StrictSubsetOrdering(Nat)
  BY <1>1, <1>2, WFMin
<1>4. PICK x \in S : t = 0..x
  OBVIOUS
<1>5. ASSUME NEW y \in S, ~(x <= y) PROVE FALSE
  <2>1. 0..y \in T /\ 0..y \subseteq 0..x /\ x \in 0..x /\ x \notin 0..y
    BY <1>5
  <2>2. <<0..y, t>> \in StrictSubsetOrdering(Nat)
    BY <2>1, <1>4 DEF StrictSubsetOrdering
  <2> QED BY <1>3, <2>1, <2>2
<1> QED BY <1>5 DEF Least

-----------------------------------------------------------------------------
(* A record with the fields of FS, of their types. *)
Shape(s) ==
  /\ s = [files |-> s.files, entries |-> s.entries, orphans |-> s.orphans,
          pipes |-> s.pipes]
  /\ DOMAIN s.files \subseteq FileIds /\ DOMAIN s.pipes \subseteq Addresses
  /\ \A f \in DOMAIN s.files : s.files[f] \in File
  /\ \A i \in DOMAIN s.pipes : s.pipes[i] \in Pipe
  /\ s.entries \in [Names -> Seq(Nodes)]
  /\ s.orphans \subseteq Addresses

(* What a table refers to is described. *)
Tables(tab, o) ==
  /\ tab \in [Processes -> [Fds -> Addresses \cup {None}]]
  /\ DOMAIN o \subseteq Addresses
  /\ \A a \in DOMAIN o :
       /\ o[a] \in [file : FileIds, nonblock : BOOLEAN]
       /\ o[a].file \in Addresses => o[a].file = a
  /\ \A p \in Processes, fd \in Fds :
       tab[p][fd] # None => tab[p][fd] \in DOMAIN o

UsedBy(tab, o, f) == {x \in Processes \X Fds :
                        /\ tab[x[1]][x[2]] # None
                        /\ o[tab[x[1]][x[2]]].file = f}

(* What is described is there, and counted. *)
Counted(s, tab, o) ==
  /\ \A p \in Processes, fd \in Fds :
       tab[p][fd] # None => o[tab[p][fd]].file \in DOMAIN s.files
  /\ \A f \in DOMAIN s.files : s.files[f].refs = Cardinality(UsedBy(tab, o, f))

(* orphanFiles_ has what cannot be opened again, while it is referred to. *)
Orphaned(s, X) ==
  /\ s.orphans \subseteq DOMAIN s.files
  /\ DOMAIN s.files \ s.orphans \subseteq Nodes
  /\ \A f \in s.orphans :
       /\ f \notin X => s.files[f].refs > 0
       /\ \/ s.files[f].kind \in Ends \cup {"epoll"} /\ s.files[f].name = None
          \/ s.files[f].kind = "memfd" /\ s.files[f].doomed
  /\ \A f \in DOMAIN s.files \ s.orphans : s.files[f].kind \in {"shadow", "host"}

(* The other files have one entry, of their name. *)
Directory(s) ==
  /\ \A n \in Names : \A i \in DOMAIN s.entries[n] :
       /\ s.entries[n][i] \in DOMAIN s.files
       /\ s.files[s.entries[n][i]].name = n
  /\ \A n \in Names : \A i, j \in DOMAIN s.entries[n] :
       s.entries[n][i] = s.entries[n][j] => i = j
  /\ \A f \in DOMAIN s.files \ s.orphans :
       /\ s.files[f].name \in Names
       /\ \E i \in DOMAIN s.entries[s.files[f].name] :
            s.entries[s.files[f].name][i] = f

(* Endpoints and pipes know each other. *)
Connected(s, X) ==
  /\ \A f \in DOMAIN s.files \ X :
       s.files[f].kind \in Ends =>
         /\ s.files[f].pipe \in DOMAIN s.pipes
         /\ s.files[f].kind = "reader" => f \in s.pipes[s.files[f].pipe].readers
         /\ s.files[f].kind = "writer" => f \in s.pipes[s.files[f].pipe].writers
  /\ \A i \in DOMAIN s.pipes :
       /\ s.pipes[i].readers \cup s.pipes[i].writers # {}
       /\ \A f \in s.pipes[i].readers :
            /\ f \in DOMAIN s.files
            /\ s.files[f].kind = "reader" /\ s.files[f].pipe = i
       /\ \A f \in s.pipes[i].writers :
            /\ f \in DOMAIN s.files
            /\ s.files[f].kind = "writer" /\ s.files[f].pipe = i

Good(s, tab, o, X) ==
  Shape(s) /\ Tables(tab, o) /\ Counted(s, tab, o) /\ Orphaned(s, X)
    /\ Directory(s) /\ Connected(s, X)

IInv == Good(fs, table, ofds, {}) /\ DOMAIN ofds \subseteq Referred(table)

-----------------------------------------------------------------------------
LEMMA UsedFinite ==
  ASSUME NEW tab, NEW o, NEW f
  PROVE  IsFiniteSet(UsedBy(tab, o, f)) /\ Cardinality(UsedBy(tab, o, f)) \in Nat
<1>1. IsFiniteSet(Processes \X Fds)
  <2>1. IsFiniteSet(Fds)
    BY FS_Interval, BoundsAssumption DEF Fds
  <2> QED BY <2>1, FS_Product, ProcessesAssumption
<1>2. UsedBy(tab, o, f) \subseteq Processes \X Fds
  BY DEF UsedBy
<1> QED BY <1>1, <1>2, FS_Subset, FS_CardinalityType

(* What closing and duplicating leave as it is in a file. *)
Alike(q, r) == q.kind = r.kind /\ q.name = r.name /\ q.pipe = r.pipe

(* The same files, of which each has as many references, or more. *)
Lasting(s, u) ==
  /\ u.orphans = s.orphans /\ DOMAIN u.files = DOMAIN s.files
  /\ \A f \in DOMAIN s.files :
       /\ u.files[f].kind = s.files[f].kind
       /\ u.files[f].doomed = s.files[f].doomed
       /\ s.files[f].refs > 0 => u.files[f].refs > 0

LEMMA WithRefs ==
  ASSUME NEW r \in File, NEW k \in Nat
  PROVE  LET q == [r EXCEPT !.refs = k] IN
         q \in File /\ Alike(q, r) /\ q.doomed = r.doomed /\ q.refs = k
BY DEF File, Alike

LEMMA Changed ==
  ASSUME NEW s, Shape(s), NEW f \in DOMAIN s.files, NEW r \in File
  PROVE  LET u == [s EXCEPT !.files[f] = r] IN
         /\ Shape(u)
         /\ u.entries = s.entries /\ u.orphans = s.orphans /\ u.pipes = s.pipes
         /\ DOMAIN u.files = DOMAIN s.files
         /\ u.files[f] = r
         /\ \A g \in DOMAIN s.files \ {f} : u.files[g] = s.files[g]
<1> DEFINE u == [s EXCEPT !.files[f] = r]
           F == [s.files EXCEPT ![f] = r]
<1>0. s = [files |-> s.files, entries |-> s.entries, orphans |-> s.orphans,
           pipes |-> s.pipes]
  BY DEF Shape
<1>1. u = [files |-> F, entries |-> s.entries, orphans |-> s.orphans,
           pipes |-> s.pipes]
  BY <1>0
<1>2. /\ DOMAIN F = DOMAIN s.files
      /\ F[f] = r
      /\ \A g \in DOMAIN s.files \ {f} : F[g] = s.files[g]
  OBVIOUS
<1> HIDE DEF F, u
<1>3. \A g \in DOMAIN F : F[g] \in File
  BY <1>2 DEF Shape
<1>4. Shape(u)
  BY <1>1, <1>2, <1>3 DEF Shape
<1> QED BY <1>1, <1>2, <1>4 DEF u

LEMMA RefFields ==
  ASSUME NEW s, Shape(s), NEW f \in DOMAIN s.files
  PROVE  LET u == Ref(s, f) IN
         /\ Shape(u)
         /\ u.entries = s.entries /\ u.orphans = s.orphans /\ u.pipes = s.pipes
         /\ DOMAIN u.files = DOMAIN s.files
         /\ Alike(u.files[f], s.files[f])
         /\ u.files[f].doomed = s.files[f].doomed
         /\ u.files[f].refs = s.files[f].refs + 1
         /\ \A g \in DOMAIN s.files \ {f} : u.files[g] = s.files[g]
<1> DEFINE r == [s.files[f] EXCEPT !.refs = s.files[f].refs + 1]
<1>1. s.files[f] \in File /\ s.files[f].refs + 1 \in Nat
  BY DEF Shape, File
<1>2. r \in File /\ Alike(r, s.files[f]) /\ r.doomed = s.files[f].doomed
        /\ r.refs = s.files[f].refs + 1
  BY <1>1, WithRefs
<1>3. Ref(s, f) = [s EXCEPT !.files[f] = r]
  BY DEF Ref
<1> HIDE DEF r
<1> QED BY <1>2, <1>3, Changed

(* The files keep their kinds, names and pipes, and those that are to go   *)
(* stay to go: what does not look at counts holds as before.               *)
LEMMA AlikeKeeps ==
  ASSUME NEW s, NEW u, NEW X, NEW Y, X \subseteq Y,
         u.entries = s.entries, u.orphans = s.orphans, u.pipes = s.pipes,
         DOMAIN u.files = DOMAIN s.files,
         \A g \in DOMAIN s.files : /\ Alike(u.files[g], s.files[g])
                                   /\ s.files[g].doomed => u.files[g].doomed,
         \A g \in s.orphans \ Y : u.files[g].refs > 0,
         Orphaned(s, X), Directory(s), Connected(s, X)
  PROVE  Orphaned(u, Y) /\ Directory(u) /\ Connected(u, Y)
<1>1. Orphaned(u, Y)
  BY DEF Orphaned, Alike
<1>2. Directory(u)
  BY DEF Directory, Alike
<1>3. Connected(u, Y)
  BY DEF Connected, Alike
<1> QED BY <1>1, <1>2, <1>3

(* What is known of endpoints and pipes lasts while they do.               *)
LEMMA ConnectedKept ==
  ASSUME NEW s, NEW u, NEW X, NEW Y, Connected(s, X), u.pipes = s.pipes,
         \A g \in DOMAIN u.files \ Y :
           u.files[g].kind \in Ends =>
             /\ g \in DOMAIN s.files \ X
             /\ u.files[g].kind = s.files[g].kind /\ u.files[g].pipe = s.files[g].pipe,
         \A g \in DOMAIN s.files :
           s.files[g].kind \in Ends =>
             /\ g \in DOMAIN u.files
             /\ u.files[g].kind = s.files[g].kind /\ u.files[g].pipe = s.files[g].pipe
  PROVE  Connected(u, Y)
<1>1. ASSUME NEW g \in DOMAIN u.files \ Y, u.files[g].kind \in Ends
      PROVE  /\ u.files[g].pipe \in DOMAIN u.pipes
             /\ u.files[g].kind = "reader" => g \in u.pipes[u.files[g].pipe].readers
             /\ u.files[g].kind = "writer" => g \in u.pipes[u.files[g].pipe].writers
  <2>1. /\ g \in DOMAIN s.files \ X
        /\ u.files[g].kind = s.files[g].kind /\ u.files[g].pipe = s.files[g].pipe
    BY <1>1
  <2> QED BY <1>1, <2>1 DEF Connected
<1>2. ASSUME NEW i \in DOMAIN u.pipes
      PROVE  /\ u.pipes[i].readers \cup u.pipes[i].writers # {}
             /\ \A g \in u.pipes[i].readers :
                  g \in DOMAIN u.files /\ u.files[g].kind = "reader" /\ u.files[g].pipe = i
             /\ \A g \in u.pipes[i].writers :
                  g \in DOMAIN u.files /\ u.files[g].kind = "writer" /\ u.files[g].pipe = i
  <2>1. /\ s.pipes[i].readers \cup s.pipes[i].writers # {}
        /\ \A g \in s.pipes[i].readers :
             g \in DOMAIN s.files /\ s.files[g].kind = "reader" /\ s.files[g].pipe = i
        /\ \A g \in s.pipes[i].writers :
             g \in DOMAIN s.files /\ s.files[g].kind = "writer" /\ s.files[g].pipe = i
    BY <1>2 DEF Connected
  <2> QED BY <2>1 DEF Ends
<1> QED BY <1>1, <1>2 DEF Connected

(* And of entries, while no name changes and no file of a name is new.     *)
LEMMA DirectoryKept ==
  ASSUME NEW s, NEW u, Directory(s), u.entries = s.entries,
         \A g \in DOMAIN s.files : g \in DOMAIN u.files /\ u.files[g].name = s.files[g].name,
         \A g \in DOMAIN u.files \ u.orphans : g \in DOMAIN s.files \ s.orphans
  PROVE  Directory(u)
<1>1. ASSUME NEW n \in Names, NEW i \in DOMAIN u.entries[n]
      PROVE  u.entries[n][i] \in DOMAIN u.files /\ u.files[u.entries[n][i]].name = n
  <2>1. s.entries[n][i] \in DOMAIN s.files /\ s.files[s.entries[n][i]].name = n
    BY <1>1 DEF Directory
  <2> QED BY <2>1
<1>2. ASSUME NEW n \in Names, NEW i \in DOMAIN u.entries[n], NEW j \in DOMAIN u.entries[n],
             u.entries[n][i] = u.entries[n][j]
      PROVE  i = j
  BY <1>2 DEF Directory
<1>3. ASSUME NEW f \in DOMAIN u.files \ u.orphans
      PROVE  /\ u.files[f].name \in Names
             /\ \E i \in DOMAIN u.entries[u.files[f].name] :
                  u.entries[u.files[f].name][i] = f
  <2>1. f \in DOMAIN s.files \ s.orphans /\ u.files[f].name = s.files[f].name
    BY <1>3
  <2> QED BY <2>1 DEF Directory
<1> QED BY <1>1, <1>2, <1>3 DEF Directory

LEMMA SameKeeps ==
  ASSUME NEW s, NEW u, NEW tab, NEW o, NEW X,
         u.files = s.files, u.entries = s.entries, u.orphans = s.orphans,
         Counted(s, tab, o), Orphaned(s, X), Directory(s)
  PROVE  Counted(u, tab, o) /\ Orphaned(u, X) /\ Directory(u)
<1>1. Counted(u, tab, o)
  BY DEF Counted
<1>2. Orphaned(u, X)
  BY DEF Orphaned
<1>3. Directory(u)
  BY DirectoryKept
<1> QED BY <1>1, <1>2, <1>3

-----------------------------------------------------------------------------
Cleared(tab, p, fd) == [tab EXCEPT ![p][fd] = None]

LEMMA ClearedTables ==
  ASSUME NEW tab, NEW o, Tables(tab, o), NEW p \in Processes, NEW fd \in Fds
  PROVE  LET u == Cleared(tab, p, fd) IN
         /\ Tables(u, o)
         /\ u[p][fd] = None
         /\ \A q \in Processes, d \in Fds : <<q, d>> # <<p, fd>> => u[q][d] = tab[q][d]
<1> DEFINE u == Cleared(tab, p, fd)
<1>1. /\ u \in [Processes -> [Fds -> Addresses \cup {None}]]
      /\ u[p][fd] = None
      /\ \A q \in Processes, d \in Fds : <<q, d>> # <<p, fd>> => u[q][d] = tab[q][d]
  BY DEF Tables, Cleared
<1> HIDE DEF u
<1>2. \A q \in Processes, d \in Fds : u[q][d] # None => tab[q][d] = u[q][d]
  <2> SUFFICES ASSUME NEW q \in Processes, NEW d \in Fds, u[q][d] # None
               PROVE  tab[q][d] = u[q][d]
    OBVIOUS
  <2> QED BY <1>1
<1>3. Tables(u, o)
  BY <1>1, <1>2 DEF Tables
<1> QED BY <1>1, <1>3 DEF u

LEMMA ClearedUsed ==
  ASSUME NEW tab, NEW o, Tables(tab, o), NEW p \in Processes, NEW fd \in Fds,
         tab[p][fd] # None
  PROVE  LET u == Cleared(tab, p, fd)
             f == o[tab[p][fd]].file
         IN  /\ UsedBy(u, o, f) = UsedBy(tab, o, f) \ {<<p, fd>>}
             /\ <<p, fd>> \in UsedBy(tab, o, f)
             /\ \A g : g # f => UsedBy(u, o, g) = UsedBy(tab, o, g)
<1> DEFINE u == Cleared(tab, p, fd)
           f == o[tab[p][fd]].file
<1>1. /\ u[p][fd] = None
      /\ \A q \in Processes, d \in Fds : <<q, d>> # <<p, fd>> => u[q][d] = tab[q][d]
  BY ClearedTables
<1> HIDE DEF u
<1>2. \A x \in Processes \X Fds :
        /\ x # <<p, fd>> => u[x[1]][x[2]] = tab[x[1]][x[2]]
        /\ x = <<p, fd>> => u[x[1]][x[2]] = None
  BY <1>1
<1>3. UsedBy(u, o, f) = UsedBy(tab, o, f) \ {<<p, fd>>}
  BY <1>2 DEF UsedBy
<1>4. <<p, fd>> \in UsedBy(tab, o, f)
  BY DEF UsedBy
<1>5. \A g : g # f => UsedBy(u, o, g) = UsedBy(tab, o, g)
  BY <1>2 DEF UsedBy
<1> QED BY <1>3, <1>4, <1>5 DEF u

LEMMA DropGood ==
  ASSUME NEW s, NEW tab, NEW o, Good(s, tab, o, {}),
         NEW p \in Processes, NEW fd \in Fds, tab[p][fd] # None
  PROVE  LET f == o[tab[p][fd]].file
             u == [s EXCEPT !.files[f].refs = @ - 1]
         IN  /\ f \in DOMAIN s.files /\ u.files[f].refs \in Nat
             /\ DOMAIN u.files = DOMAIN s.files /\ Alike(u.files[f], s.files[f])
             /\ Good(u, Cleared(tab, p, fd), o, {f})
             /\ u.files[f].refs > 0 => Good(u, Cleared(tab, p, fd), o, {})
<1> DEFINE f == o[tab[p][fd]].file
           t == Cleared(tab, p, fd)
           r == [s.files[f] EXCEPT !.refs = s.files[f].refs - 1]
           u == [s EXCEPT !.files[f].refs = @ - 1]
<1>1. f \in DOMAIN s.files /\ s.files[f] \in File
  BY DEF Good, Counted, Shape
<1>2. /\ UsedBy(t, o, f) = UsedBy(tab, o, f) \ {<<p, fd>>}
      /\ <<p, fd>> \in UsedBy(tab, o, f)
      /\ \A g : g # f => UsedBy(t, o, g) = UsedBy(tab, o, g)
      /\ Tables(t, o)
  BY ClearedUsed, ClearedTables DEF Good
<1> HIDE DEF t
<1>3. /\ Cardinality(UsedBy(t, o, f)) = s.files[f].refs - 1
      /\ s.files[f].refs - 1 \in Nat
  <2>1. IsFiniteSet(UsedBy(tab, o, f)) /\ Cardinality(UsedBy(tab, o, f)) \in Nat
    BY UsedFinite
  <2>2. Cardinality(UsedBy(tab, o, f) \ {<<p, fd>>}) = Cardinality(UsedBy(tab, o, f)) - 1
    BY <1>2, <2>1, FS_RemoveElement
  <2>3. Cardinality(UsedBy(t, o, f)) \in Nat
    BY UsedFinite
  <2>4. s.files[f].refs = Cardinality(UsedBy(tab, o, f))
    BY <1>1 DEF Good, Counted
  <2> QED BY <1>2, <2>2, <2>3, <2>4
<1>4. r \in File /\ Alike(r, s.files[f]) /\ r.doomed = s.files[f].doomed
        /\ r.refs = s.files[f].refs - 1
  BY <1>1, <1>3, WithRefs
<1>5. u = [s EXCEPT !.files[f] = r]
  OBVIOUS
<1> HIDE DEF r, u
<1>6. /\ Shape(u)
      /\ u.entries = s.entries /\ u.orphans = s.orphans /\ u.pipes = s.pipes
      /\ DOMAIN u.files = DOMAIN s.files
      /\ u.files[f] = r
      /\ \A g \in DOMAIN s.files \ {f} : u.files[g] = s.files[g]
  <2>1. Shape(s)
    BY DEF Good
  <2> HIDE DEF f
  <2> QED BY <1>1, <1>4, <1>5, <2>1, Changed
<1>7. \A g \in DOMAIN s.files : /\ Alike(u.files[g], s.files[g])
                                /\ s.files[g].doomed => u.files[g].doomed
  BY <1>4, <1>6 DEF Alike
<1>8. Counted(u, t, o)
  <2>1. \A g \in DOMAIN u.files : u.files[g].refs = Cardinality(UsedBy(t, o, g))
    BY <1>2, <1>3, <1>4, <1>6 DEF Good, Counted
  <2>2. \A q \in Processes, d \in Fds : t[q][d] # None => t[q][d] = tab[q][d]
    BY ClearedTables DEF t, Good
  <2>3. \A q \in Processes, d \in Fds : t[q][d] # None => o[t[q][d]].file \in DOMAIN s.files
    BY <2>2 DEF Good, Counted
  <2> QED BY <1>6, <2>1, <2>3 DEF Counted
<1>9. Orphaned(u, {f}) /\ Directory(u) /\ Connected(u, {f})
  <2>1. \A g \in s.orphans \ {f} : u.files[g].refs > 0
    BY <1>6 DEF Good, Orphaned
  <2> QED BY <1>6, <1>7, <2>1, AlikeKeeps DEF Good
<1>10. ASSUME u.files[f].refs > 0 PROVE Orphaned(u, {}) /\ Connected(u, {})
  <2>1. \A g \in s.orphans \ {} : u.files[g].refs > 0
    BY <1>6, <1>10 DEF Good, Orphaned
  <2> QED BY <1>6, <1>7, <2>1, AlikeKeeps DEF Good
<1> QED BY <1>1, <1>2, <1>3, <1>4, <1>6, <1>7, <1>8, <1>9, <1>10 DEF Good, u, t

-----------------------------------------------------------------------------
LEMMA WithoutFields ==
  ASSUME NEW f, NEW x
  PROVE  /\ DOMAIN Without(f, x) = DOMAIN f \ {x}
         /\ \A y \in DOMAIN f \ {x} : Without(f, x)[y] = f[y]
BY DEF Without

LEMMA WithFields ==
  ASSUME NEW f, NEW x, NEW v
  PROVE  /\ DOMAIN With(f, x, v) = DOMAIN f \cup {x}
         /\ With(f, x, v)[x] = v
         /\ \A y \in DOMAIN f \ {x} : With(f, x, v)[y] = f[y]
BY DEF With

LEMMA PipesChanged ==
  ASSUME NEW s, Shape(s), NEW P, DOMAIN P \subseteq Addresses,
         \A i \in DOMAIN P : P[i] \in Pipe
  PROVE  LET u == [s EXCEPT !.pipes = P] IN
         /\ Shape(u) /\ u.pipes = P
         /\ u.files = s.files /\ u.entries = s.entries /\ u.orphans = s.orphans
<1> DEFINE u == [s EXCEPT !.pipes = P]
<1>1. s = [files |-> s.files, entries |-> s.entries, orphans |-> s.orphans,
           pipes |-> s.pipes]
  BY DEF Shape
<1>2. u = [files |-> s.files, entries |-> s.entries, orphans |-> s.orphans,
           pipes |-> P]
  BY <1>1
<1> HIDE DEF u
<1> QED BY <1>2 DEF Shape, u

(* No pipe has file f for an end. *)
NoEnd(s, f) == \A i \in DOMAIN s.pipes :
                 f \notin s.pipes[i].readers /\ f \notin s.pipes[i].writers

(* No pipe is new, and none has other bytes. *)
BytesKept(s, u) ==
  /\ DOMAIN u.pipes \subseteq DOMAIN s.pipes
  /\ \A i \in DOMAIN u.pipes : u.pipes[i].bytes = s.pipes[i].bytes

LEMMA EndpointClosed ==
  ASSUME NEW s, NEW tab, NEW o, NEW f \in DOMAIN s.files, Good(s, tab, o, {f}),
         s.files[f].kind \in Ends => s.files[f].pipe \in DOMAIN s.pipes
  PROVE  LET c == ClosedEndpoint(s, f) IN
         /\ Good(c, tab, o, {f}) /\ NoEnd(c, f) /\ BytesKept(s, c)
         /\ c.files = s.files /\ c.orphans = s.orphans /\ c.entries = s.entries
         /\ s.files[f].kind \notin Ends => c = s
<1> DEFINE c == ClosedEndpoint(s, f)
           i == s.files[f].pipe
           q == [s.pipes[i] EXCEPT !.readers = @ \ {f}, !.writers = @ \ {f}]
<1>1. CASE s.files[f].kind \notin Ends
  <2>1. c = s
    BY <1>1 DEF ClosedEndpoint
  <2>2. NoEnd(s, f)
    BY <1>1 DEF NoEnd, Good, Connected, Ends
  <2> QED BY <2>1, <2>2 DEF BytesKept
<1>2. CASE s.files[f].kind \in Ends
  <2>1. /\ s.pipes[i] \in Pipe /\ q \in Pipe
        /\ q.readers = s.pipes[i].readers \ {f} /\ q.writers = s.pipes[i].writers \ {f}
        /\ q.bytes = s.pipes[i].bytes
    BY <1>2 DEF Good, Shape, Pipe
  <2> DEFINE P == IF q.readers = {} /\ q.writers = {} THEN Without(s.pipes, i)
                  ELSE [s.pipes EXCEPT ![i] = q]
  <2>2. c = [s EXCEPT !.pipes = P]
    BY <1>2 DEF ClosedEndpoint
  <2> HIDE DEF q
  <2>3. /\ DOMAIN P \subseteq DOMAIN s.pipes
        /\ \A j \in DOMAIN P : P[j] = IF j = i THEN q ELSE s.pipes[j]
        /\ \A j \in DOMAIN s.pipes \ DOMAIN P : j = i /\ q.readers = {} /\ q.writers = {}
        /\ i \in DOMAIN P => q.readers \cup q.writers # {}
    <3>1. CASE q.readers = {} /\ q.writers = {}
      <4>1. P = Without(s.pipes, i)
        BY <3>1
      <4> HIDE DEF P
      <4>2. DOMAIN P = DOMAIN s.pipes \ {i} /\ \A j \in DOMAIN P : P[j] = s.pipes[j]
        BY <4>1, WithoutFields
      <4> QED BY <3>1, <4>2
    <3>2. CASE ~(q.readers = {} /\ q.writers = {})
      <4>1. P = [s.pipes EXCEPT ![i] = q]
        BY <3>2
      <4> HIDE DEF P
      <4> QED BY <1>2, <3>2, <4>1
    <3> QED BY <3>1, <3>2
  <2> HIDE DEF P, c
  <2>4. DOMAIN P \subseteq Addresses /\ \A j \in DOMAIN P : P[j] \in Pipe
    BY <2>1, <2>3 DEF Good, Shape
  <2>5. /\ Shape(c) /\ c.pipes = P
        /\ c.files = s.files /\ c.entries = s.entries /\ c.orphans = s.orphans
    BY <2>2, <2>4, PipesChanged DEF Good
  <2>0. Connected(s, {f})
    BY DEF Good
  <2>6. Connected(c, {f})
    <3>1. ASSUME NEW g \in DOMAIN s.files \ {f}, s.files[g].kind \in Ends
          PROVE  /\ s.files[g].pipe \in DOMAIN P
                 /\ s.files[g].kind = "reader" => g \in P[s.files[g].pipe].readers
                 /\ s.files[g].kind = "writer" => g \in P[s.files[g].pipe].writers
      <4> DEFINE j == s.files[g].pipe
      <4>1. /\ j \in DOMAIN s.pipes
            /\ s.files[g].kind = "reader" => g \in s.pipes[j].readers
            /\ s.files[g].kind = "writer" => g \in s.pipes[j].writers
        BY <2>0, <3>1 DEF Connected
      <4>2. s.files[g].kind = "reader" \/ s.files[g].kind = "writer"
        BY <3>1 DEF Ends
      <4> HIDE DEF j
      <4>3. j \in DOMAIN P
        BY <2>1, <2>3, <4>1, <4>2
      <4>4. g \in s.pipes[j].readers => g \in P[j].readers
        BY <2>1, <2>3, <4>3
      <4>5. g \in s.pipes[j].writers => g \in P[j].writers
        BY <2>1, <2>3, <4>3
      <4> QED BY <4>1, <4>3, <4>4, <4>5 DEF j
    <3>2. ASSUME NEW j \in DOMAIN P
          PROVE  /\ P[j].readers \cup P[j].writers # {}
                 /\ P[j].readers \subseteq s.pipes[j].readers
                 /\ P[j].writers \subseteq s.pipes[j].writers
      <4>1. CASE j = i
        BY <2>1, <2>3, <4>1
      <4>2. CASE j # i
        BY <2>0, <2>3, <4>2 DEF Connected
      <4> QED BY <4>1, <4>2
    <3>3. ASSUME NEW g \in DOMAIN c.files \ {f}, c.files[g].kind \in Ends
          PROVE  /\ c.files[g].pipe \in DOMAIN c.pipes
                 /\ c.files[g].kind = "reader" => g \in c.pipes[c.files[g].pipe].readers
                 /\ c.files[g].kind = "writer" => g \in c.pipes[c.files[g].pipe].writers
      BY <2>5, <3>1, <3>3
    <3>4. ASSUME NEW j \in DOMAIN c.pipes
          PROVE  /\ c.pipes[j].readers \cup c.pipes[j].writers # {}
                 /\ \A g \in c.pipes[j].readers :
                      g \in DOMAIN c.files /\ c.files[g].kind = "reader" /\ c.files[g].pipe = j
                 /\ \A g \in c.pipes[j].writers :
                      g \in DOMAIN c.files /\ c.files[g].kind = "writer" /\ c.files[g].pipe = j
      <4>1. /\ \A g \in s.pipes[j].readers :
                  g \in DOMAIN s.files /\ s.files[g].kind = "reader" /\ s.files[g].pipe = j
            /\ \A g \in s.pipes[j].writers :
                  g \in DOMAIN s.files /\ s.files[g].kind = "writer" /\ s.files[g].pipe = j
        BY <2>0, <2>3, <2>5, <3>4 DEF Connected
      <4> QED BY <2>5, <3>2, <3>4, <4>1
    <3> QED BY <3>3, <3>4 DEF Connected
  <2>7. NoEnd(c, f)
    <3>1. ASSUME NEW j \in DOMAIN P PROVE f \notin P[j].readers /\ f \notin P[j].writers
      <4>1. CASE j = i
        BY <2>1, <2>3, <4>1
      <4>2. CASE j # i
        BY <2>0, <2>3, <4>2 DEF Connected
      <4> QED BY <4>1, <4>2
    <3> QED BY <2>5, <3>1 DEF NoEnd
  <2>8. BytesKept(s, c)
    BY <2>1, <2>3, <2>5 DEF BytesKept
  <2>9. Counted(c, tab, o) /\ Orphaned(c, {f}) /\ Directory(c)
    <3>1. Counted(s, tab, o) /\ Orphaned(s, {f}) /\ Directory(s)
      BY DEF Good
    <3> QED BY <2>5, <3>1, SameKeeps
  <2> QED BY <1>2, <2>5, <2>6, <2>7, <2>8, <2>9 DEF Good, c
<1> QED BY <1>1, <1>2

(* FS::unlink, of any path: the first entry of the name is a file that no  *)
(* descriptor refers to, no orphan and nobody's end.                       *)
LEMMA EntryKnown ==
  ASSUME NEW s, NEW tab, NEW o, NEW X, Good(s, tab, o, X),
         NEW n \in Names, s.entries[n] # <<>>
  PROVE  /\ Head(s.entries[n]) \in DOMAIN s.files
         /\ s.files[Head(s.entries[n])].name = n
         /\ 1 \in DOMAIN s.entries[n] /\ s.entries[n][1] = Head(s.entries[n])
         /\ Head(s.entries[n]) \in Nodes /\ Head(s.entries[n]) \notin s.orphans
         /\ s.files[Head(s.entries[n])].kind \notin Ends
<1>1. s.entries[n] \in Seq(Nodes)
  BY DEF Good, Shape
<1>2. 1 \in DOMAIN s.entries[n] /\ s.entries[n][1] = Head(s.entries[n])
  BY <1>1, EmptySeq, LenProperties
<1>3. /\ Head(s.entries[n]) \in DOMAIN s.files
      /\ s.files[Head(s.entries[n])].name = n
  BY <1>2 DEF Good, Directory
<1>4. Head(s.entries[n]) \in Nodes
  BY <1>1, <1>2, ElementOfSeq, LenProperties
<1>5. Head(s.entries[n]) \notin s.orphans
  BY <1>4, PoolsAssumption DEF Good, Shape
<1>6. s.files[Head(s.entries[n])].kind \notin Ends
  BY <1>3, <1>5 DEF Good, Orphaned, Ends
<1> QED BY <1>2, <1>3, <1>4, <1>5, <1>6

LEMMA NotUsed ==
  ASSUME NEW s, NEW tab, NEW o, Counted(s, tab, o),
         NEW f \in DOMAIN s.files, s.files[f].refs = 0
  PROVE  \A p \in Processes, fd \in Fds : tab[p][fd] # None => o[tab[p][fd]].file # f
<1>1. UsedBy(tab, o, f) = {}
  BY UsedFinite, FS_EmptySet DEF Counted
<1>2. SUFFICES ASSUME NEW p \in Processes, NEW fd \in Fds, tab[p][fd] # None,
                      o[tab[p][fd]].file = f
               PROVE  <<p, fd>> \in UsedBy(tab, o, f)
  BY <1>1
<1> QED BY <1>2 DEF UsedBy

(* The first file of the name n, and its entry, go. *)
HeadTaken(s, n, u) ==
  u = [s EXCEPT !.files = Without(@, Head(s.entries[n])), !.entries[n] = Tail(@)]

LEMMA EntryRemoved ==
  ASSUME NEW s, NEW tab, NEW o, NEW X, Good(s, tab, o, X),
         NEW n \in Names, s.entries[n] # <<>>,
         NEW u, HeadTaken(s, n, u)
  PROVE  /\ Shape(u) /\ u.orphans = s.orphans /\ u.pipes = s.pipes
         /\ DOMAIN u.files = DOMAIN s.files \ {Head(s.entries[n])}
         /\ \A f \in DOMAIN u.files : u.files[f] = s.files[f]
         /\ \A m \in Names \ {n} : u.entries[m] = s.entries[m]
         /\ \A i \in DOMAIN u.entries[n] :
              /\ i + 1 \in DOMAIN s.entries[n] /\ i \in Nat \ {0}
              /\ u.entries[n][i] = s.entries[n][i + 1]
         /\ \A i \in DOMAIN s.entries[n] :
              i = 1 \/ (i \in Nat /\ i - 1 \in DOMAIN u.entries[n])
<1> DEFINE g == Head(s.entries[n])
           F == Without(s.files, g)
           T == Tail(s.entries[n])
           E == [s.entries EXCEPT ![n] = T]
<1>1. s = [files |-> s.files, entries |-> s.entries, orphans |-> s.orphans,
           pipes |-> s.pipes]
  BY DEF Good, Shape
<1>2. u = [files |-> F, entries |-> E, orphans |-> s.orphans, pipes |-> s.pipes]
  <2>1. u = [s EXCEPT !.files = F, !.entries = E]
    BY DEF HeadTaken
  <2> HIDE DEF F, E
  <2> QED BY <1>1, <2>1
<1>3. DOMAIN F = DOMAIN s.files \ {g} /\ \A f \in DOMAIN F : F[f] = s.files[f]
  BY WithoutFields
<1>4. s.entries[n] \in Seq(Nodes) /\ s.entries \in [Names -> Seq(Nodes)]
  BY DEF Good, Shape
<1>5. /\ T \in Seq(Nodes) /\ Len(T) = Len(s.entries[n]) - 1
      /\ \A i \in 1..Len(T) : T[i] = s.entries[n][i + 1]
      /\ DOMAIN T = 1..Len(T) /\ DOMAIN s.entries[n] = 1..Len(s.entries[n])
      /\ Len(T) \in Nat /\ Len(s.entries[n]) \in Nat
  BY <1>4, HeadTailProperties, LenProperties
<1> HIDE DEF T
<1>6. /\ E \in [Names -> Seq(Nodes)] /\ E[n] = T
      /\ \A m \in Names \ {n} : E[m] = s.entries[m]
  BY <1>4, <1>5
<1> HIDE DEF F, E
<1>7. Shape(u)
  BY <1>2, <1>3, <1>6 DEF Good, Shape
<1>8. /\ \A i \in DOMAIN T : i + 1 \in DOMAIN s.entries[n] /\ i \in Nat \ {0}
      /\ \A i \in DOMAIN s.entries[n] : i = 1 \/ (i \in Nat /\ i - 1 \in DOMAIN T)
  BY <1>5
<1> QED BY <1>2, <1>3, <1>5, <1>6, <1>7, <1>8 DEF g, F

LEMMA RemovedEntryGood ==
  ASSUME NEW s, NEW tab, NEW o, NEW X, Good(s, tab, o, X),
         NEW n \in Names, s.entries[n] # <<>>, s.files[Head(s.entries[n])].refs = 0,
         NEW u, HeadTaken(s, n, u)
  PROVE  /\ Good(u, tab, o, X) /\ u.pipes = s.pipes /\ u.orphans = s.orphans
         /\ DOMAIN u.files = DOMAIN s.files \ {Head(s.entries[n])}
         /\ \A f \in DOMAIN u.files : u.files[f] = s.files[f]
<1> DEFINE g == Head(s.entries[n])
<1>1. /\ Shape(u) /\ u.orphans = s.orphans /\ u.pipes = s.pipes
      /\ DOMAIN u.files = DOMAIN s.files \ {g}
      /\ \A f \in DOMAIN u.files : u.files[f] = s.files[f]
      /\ \A m \in Names \ {n} : u.entries[m] = s.entries[m]
      /\ \A i \in DOMAIN u.entries[n] :
           /\ i + 1 \in DOMAIN s.entries[n] /\ i \in Nat \ {0}
           /\ u.entries[n][i] = s.entries[n][i + 1]
      /\ \A i \in DOMAIN s.entries[n] :
           i = 1 \/ (i \in Nat /\ i - 1 \in DOMAIN u.entries[n])
  BY EntryRemoved
<1>2. /\ g \in DOMAIN s.files /\ s.files[g].name = n
      /\ 1 \in DOMAIN s.entries[n] /\ s.entries[n][1] = g
      /\ g \in Nodes /\ g \notin s.orphans /\ s.files[g].kind \notin Ends
      /\ s.files[g].refs = 0
  BY EntryKnown
<1>3. \A p \in Processes, fd \in Fds : tab[p][fd] # None => o[tab[p][fd]].file # g
  BY <1>2, NotUsed DEF Good
<1> HIDE DEF g
<1>4. Counted(u, tab, o)
  BY <1>1, <1>3 DEF Good, Counted
<1>5. Orphaned(u, X)
  BY <1>1, <1>2 DEF Good, Orphaned
<1>6. Connected(u, X)
  <2>1. Connected(s, X)
    BY DEF Good
  <2> QED BY <1>1, <1>2, <2>1, ConnectedKept
<1>7. Directory(u)
  <2>1. ASSUME NEW m \in Names, NEW i \in DOMAIN u.entries[m]
        PROVE  \E j \in DOMAIN s.entries[m] :
                 /\ u.entries[m][i] = s.entries[m][j]
                 /\ IF m = n THEN j = i + 1 /\ i \in Nat \ {0} ELSE j = i
    BY <1>1
  <2>2. ASSUME NEW m \in Names, NEW i \in DOMAIN u.entries[m]
        PROVE  u.entries[m][i] \in DOMAIN u.files /\ u.files[u.entries[m][i]].name = m
    <3>1. PICK j \in DOMAIN s.entries[m] :
            /\ u.entries[m][i] = s.entries[m][j]
            /\ IF m = n THEN j = i + 1 /\ i \in Nat \ {0} ELSE j = i
      BY <2>1
    <3>2. s.entries[m][j] \in DOMAIN s.files /\ s.files[s.entries[m][j]].name = m
      BY DEF Good, Directory
    <3>3. s.entries[m][j] # g
      BY <1>2, <3>1, <3>2 DEF Good, Directory
    <3> QED BY <1>1, <3>1, <3>2, <3>3
  <2>3. ASSUME NEW m \in Names, NEW i \in DOMAIN u.entries[m], NEW j \in DOMAIN u.entries[m],
               u.entries[m][i] = u.entries[m][j]
        PROVE  i = j
    <3>1. CASE m # n
      BY <1>1, <2>3, <3>1 DEF Good, Directory
    <3>2. CASE m = n
      <4>1. i + 1 = j + 1
        BY SMTT(30), <1>1, <2>3, <3>2 DEF Good, Directory
      <4> QED BY <1>1, <3>2, <4>1
    <3> QED BY <3>1, <3>2
  <2>4. ASSUME NEW f \in DOMAIN u.files \ u.orphans
        PROVE  /\ u.files[f].name \in Names
               /\ \E i \in DOMAIN u.entries[u.files[f].name] :
                    u.entries[u.files[f].name][i] = f
    <3>1. f \in DOMAIN s.files \ s.orphans /\ f # g /\ u.files[f].name = s.files[f].name
      BY <1>1
    <3>2. PICK i \in DOMAIN s.entries[s.files[f].name] :
            s.files[f].name \in Names /\ s.entries[s.files[f].name][i] = f
      BY <3>1 DEF Good, Directory
    <3>3. CASE s.files[f].name # n
      BY <1>1, <3>1, <3>2, <3>3
    <3>4. CASE s.files[f].name = n
      <4>1. i # 1 /\ i \in Nat /\ i - 1 \in DOMAIN u.entries[n]
        BY <1>1, <1>2, <3>1, <3>2, <3>4
      <4>2. u.entries[n][i - 1] = s.entries[n][i]
        BY <1>1, <4>1
      <4> QED BY <3>1, <3>2, <3>4, <4>1, <4>2
    <3> QED BY <3>3, <3>4
  <2> QED BY <2>2, <2>3, <2>4 DEF Directory
<1> QED BY <1>1, <1>4, <1>5, <1>6, <1>7 DEF Good, g

LEMMA UnlinkedGood ==
  ASSUME NEW s, NEW tab, NEW o, NEW X, Good(s, tab, o, X), NEW n \in Names \cup {None}
  PROVE  LET u == Unlinked(s, n) IN
         /\ Good(u, tab, o, X) /\ u.pipes = s.pipes /\ u.orphans = s.orphans
         /\ DOMAIN u.files \subseteq DOMAIN s.files
         /\ \A f \in DOMAIN u.files : /\ Alike(u.files[f], s.files[f])
                                      /\ u.files[f].refs = s.files[f].refs
<1> DEFINE u == Unlinked(s, n)
           g == Head(s.entries[n])
           r == [s.files[g] EXCEPT !.doomed = TRUE]
<1>1. CASE n = None \/ s.entries[n] = <<>>
  <2>1. u = s
    BY <1>1 DEF Unlinked, Named
  <2> QED BY <2>1 DEF Alike
<1>2. CASE n # None /\ s.entries[n] # <<>>
  <2>1. n \in Names /\ Named(s, n) = g
    BY <1>2 DEF Named
  <2>2. g \in DOMAIN s.files /\ s.files[g] \in File /\ s.files[g].refs \in Nat /\ g # None
    <3>1. g \in DOMAIN s.files /\ g \in Nodes
      BY <1>2, <2>1, EntryKnown
    <3>2. s.files[g] \in File
      BY <3>1 DEF Good, Shape
    <3>3. g # None
      BY <3>1, PoolsAssumption DEF FileIds
    <3> QED BY <3>1, <3>2, <3>3 DEF File
  <2>3. CASE s.files[g].refs > 0
    <3>1. u = [s EXCEPT !.files[g] = r]
      BY <2>1, <2>2, <2>3 DEF Unlinked
    <3>2. r \in File /\ Alike(r, s.files[g]) /\ r.refs = s.files[g].refs /\ r.doomed
      BY <2>2 DEF File, Alike
    <3> HIDE DEF u, r, g
    <3>3. /\ Shape(u)
          /\ u.entries = s.entries /\ u.orphans = s.orphans /\ u.pipes = s.pipes
          /\ DOMAIN u.files = DOMAIN s.files
          /\ u.files[g] = r
          /\ \A f \in DOMAIN s.files \ {g} : u.files[f] = s.files[f]
      BY <2>2, <3>1, <3>2, Changed DEF Good
    <3>4. \A f \in DOMAIN s.files : /\ Alike(u.files[f], s.files[f])
                                    /\ u.files[f].refs = s.files[f].refs
                                    /\ s.files[f].doomed => u.files[f].doomed
      BY <3>2, <3>3 DEF Alike
    <3>5. Orphaned(u, X) /\ Directory(u) /\ Connected(u, X)
      <4>1. \A f \in s.orphans \ X : u.files[f].refs > 0
        BY <3>4 DEF Good, Orphaned
      <4> QED BY <3>3, <3>4, <4>1, AlikeKeeps DEF Good
    <3>6. Counted(u, tab, o)
      BY <3>3, <3>4 DEF Good, Counted
    <3> QED BY <3>3, <3>4, <3>5, <3>6 DEF Good, u
  <2>4. CASE ~(s.files[g].refs > 0)
    <3>1. HeadTaken(s, n, u)
      BY <2>1, <2>2, <2>4 DEF Unlinked, HeadTaken
    <3>2. s.files[g].refs = 0
      BY <2>2, <2>4
    <3>3. /\ Good(u, tab, o, X) /\ u.pipes = s.pipes /\ u.orphans = s.orphans
          /\ DOMAIN u.files = DOMAIN s.files \ {g}
          /\ \A f \in DOMAIN u.files : u.files[f] = s.files[f]
      <4> HIDE DEF u
      <4> QED BY <1>2, <2>1, <3>1, <3>2, RemovedEntryGood
    <3> HIDE DEF u, g
    <3> QED BY <3>3 DEF Alike, u
  <2> QED BY <2>3, <2>4
<1> QED BY <1>1, <1>2

LEMMA OrphanRemovedGood ==
  ASSUME NEW s, NEW tab, NEW o, NEW f, Good(s, tab, o, {f}), NoEnd(s, f),
         f \in s.orphans => s.files[f].refs = 0
  PROVE  LET u == RemovedFromOrphans(s, f) IN
         /\ Good(u, tab, o, {})
         /\ DOMAIN u.files = DOMAIN s.files \ (s.orphans \cap {f})
         /\ \A g \in DOMAIN u.files : u.files[g] = s.files[g]
         /\ u.entries = s.entries /\ u.orphans = s.orphans \ {f} /\ u.pipes = s.pipes
<1> DEFINE u == RemovedFromOrphans(s, f)
           F == Without(s.files, f)
<1>1. CASE f \notin s.orphans
  <2>1. u = s
    BY <1>1 DEF RemovedFromOrphans
  <2>2. Orphaned(s, {}) /\ Connected(s, {})
    BY SMTT(30), <1>1 DEF Good, Orphaned, Connected, Ends
  <2> QED BY <1>1, <2>1, <2>2 DEF Good
<1>2. CASE f \in s.orphans
  <2>1. s = [files |-> s.files, entries |-> s.entries, orphans |-> s.orphans,
             pipes |-> s.pipes]
    BY DEF Good, Shape
  <2>2. u = [files |-> F, entries |-> s.entries, orphans |-> s.orphans \ {f},
             pipes |-> s.pipes]
    <3>1. u = [s EXCEPT !.files = F, !.orphans = s.orphans \ {f}]
      BY <1>2 DEF RemovedFromOrphans
    <3> HIDE DEF u, F
    <3> QED BY <2>1, <3>1
  <2>3. DOMAIN F = DOMAIN s.files \ {f} /\ \A g \in DOMAIN F : F[g] = s.files[g]
    BY WithoutFields
  <2> HIDE DEF u, F
  <2>4. f \in DOMAIN s.files /\ s.files[f].refs = 0 /\ f \notin Nodes
    BY <1>2, PoolsAssumption DEF Good, Orphaned, Shape
  <2>5. Shape(u)
    BY <2>2, <2>3 DEF Good, Shape
  <2>6. Counted(u, tab, o)
    <3>1. \A p \in Processes, fd \in Fds : tab[p][fd] # None => o[tab[p][fd]].file # f
      BY <2>4, NotUsed DEF Good
    <3> QED BY <2>2, <2>3, <3>1 DEF Good, Counted
  <2>7. Orphaned(u, {})
    BY <2>2, <2>3 DEF Good, Orphaned
  <2>8. Connected(u, {})
    BY <2>2, <2>3 DEF Good, Connected, NoEnd
  <2>9. Directory(u)
    <3>1. \A n \in Names : \A i \in DOMAIN s.entries[n] : s.entries[n][i] \in Nodes
      BY ElementOfSeq, LenProperties DEF Good, Shape
    <3>2. \A n \in Names : \A i \in DOMAIN s.entries[n] : s.entries[n][i] # f
      BY <2>4, <3>1
    <3> QED BY SMTT(30), <2>2, <2>3, <3>2 DEF Good, Directory
  <2> QED BY <1>2, <2>2, <2>3, <2>5, <2>6, <2>7, <2>8, <2>9 DEF Good, u
<1> QED BY <1>1, <1>2

(* FS::close of the descriptor fd of process p. *)
LEMMA ClosedGood ==
  ASSUME NEW s, NEW tab, NEW o, Good(s, tab, o, {}),
         NEW p \in Processes, NEW fd \in Fds, tab[p][fd] # None
  PROVE  /\ Good(Closed(s, o[tab[p][fd]].file), Cleared(tab, p, fd), o, {})
         /\ BytesKept(s, Closed(s, o[tab[p][fd]].file))
<1> DEFINE f == o[tab[p][fd]].file
           t == Cleared(tab, p, fd)
           u == [s EXCEPT !.files[f].refs = @ - 1]
           c == ClosedEndpoint(u, f)
           v == Unlinked(c, c.files[f].name)
<1>1. /\ f \in DOMAIN u.files /\ u.files[f].refs \in Nat
      /\ f \in DOMAIN s.files
      /\ Alike(u.files[f], s.files[f])
      /\ Good(u, t, o, {f})
      /\ u.files[f].refs > 0 => Good(u, t, o, {})
  <2> HIDE DEF f, t, u
  <2>1. LET g == o[tab[p][fd]].file
            w == [s EXCEPT !.files[g].refs = @ - 1]
        IN  /\ g \in DOMAIN s.files /\ w.files[g].refs \in Nat
            /\ DOMAIN w.files = DOMAIN s.files /\ Alike(w.files[g], s.files[g])
            /\ Good(w, Cleared(tab, p, fd), o, {g})
            /\ w.files[g].refs > 0 => Good(w, Cleared(tab, p, fd), o, {})
    BY DropGood
  <2> QED BY <2>1 DEF f, t, u
<1>2. Closed(s, f) = IF u.files[f].refs > 0 THEN u
                     ELSE IF KeptAfterClose(c, f) /\ ~c.files[f].doomed THEN c
                     ELSE RemovedFromOrphans(v, f)
  BY DEF Closed
<1>3. u.pipes = s.pipes
  OBVIOUS
<1> HIDE DEF f, t, u
<1>4. u.files[f].kind \in Ends => u.files[f].pipe \in DOMAIN u.pipes
  BY <1>1, <1>3 DEF Alike, Good, Connected
<1>5. /\ Good(c, t, o, {f}) /\ NoEnd(c, f)
      /\ BytesKept(s, c) /\ c.files = u.files /\ c.orphans = u.orphans
      /\ u.files[f].kind \notin Ends => c = u
  <2>1. /\ Good(c, t, o, {f}) /\ NoEnd(c, f) /\ BytesKept(u, c)
        /\ c.files = u.files /\ c.orphans = u.orphans
        /\ u.files[f].kind \notin Ends => c = u
    BY <1>1, <1>4, EndpointClosed
  <2> HIDE DEF c
  <2>2. BytesKept(s, c)
    BY <1>3, <2>1 DEF BytesKept
  <2> QED BY <2>1, <2>2
<1> HIDE DEF c
<1>6. CASE u.files[f].refs > 0
  BY <1>1, <1>2, <1>3, <1>6 DEF f, t, BytesKept
<1>7. CASE ~(u.files[f].refs > 0) /\ KeptAfterClose(c, f) /\ ~c.files[f].doomed
  <2>1. f \notin c.orphans
    BY <1>5, <1>7 DEF KeptAfterClose, Ends, Orphaned, Good
  <2>2. Good(c, t, o, {})
    <3>1. Orphaned(c, {})
      BY <1>5, <2>1 DEF Good, Orphaned
    <3>2. c.files[f].kind \notin Ends
      BY <1>5, <1>7 DEF KeptAfterClose, Ends
    <3>3. Connected(c, {f})
      BY <1>5 DEF Good
    <3>4. Connected(c, {})
      BY <3>2, <3>3, ConnectedKept
    <3> QED BY <1>5, <3>1, <3>4 DEF Good
  <2> QED BY <1>2, <1>5, <1>7, <2>2 DEF f, t
<1>8. CASE ~(u.files[f].refs > 0) /\ ~(KeptAfterClose(c, f) /\ ~c.files[f].doomed)
  <2>1. c.files[f].name \in Names \cup {None} /\ c.files[f].refs = 0
    BY <1>1, <1>5, <1>8 DEF Good, Shape, File
  <2>2. /\ Good(v, t, o, {f}) /\ v.pipes = c.pipes /\ v.orphans = c.orphans
        /\ \A g \in DOMAIN v.files : v.files[g].refs = c.files[g].refs
    BY <1>5, <2>1, UnlinkedGood
  <2> HIDE DEF v
  <2>3. NoEnd(v, f)
    BY <1>5, <2>2 DEF NoEnd
  <2>4. f \in v.orphans => v.files[f].refs = 0
    BY <2>1, <2>2 DEF Good, Orphaned
  <2>5. Good(RemovedFromOrphans(v, f), t, o, {}) /\ RemovedFromOrphans(v, f).pipes = v.pipes
    BY <2>2, <2>3, <2>4, OrphanRemovedGood
  <2>6. BytesKept(s, RemovedFromOrphans(v, f))
    BY <1>5, <2>2, <2>5 DEF BytesKept
  <2> QED BY <1>2, <1>8, <2>5, <2>6 DEF f, t
<1> QED BY <1>6, <1>7, <1>8

-----------------------------------------------------------------------------
(* allocateFd, of an address that is described: one more refers to its     *)
(* file.                                                                   *)
LEMMA TakenGood ==
  ASSUME NEW s, NEW tab, NEW o, NEW X, Good(s, tab, o, X),
         NEW p \in Processes, NEW fd \in Fds, tab[p][fd] = None,
         NEW a \in DOMAIN o, o[a].file \in DOMAIN s.files
  PROVE  LET u == Ref(s, o[a].file) IN
         /\ Good(u, [tab EXCEPT ![p][fd] = a], o, X)
         /\ u.pipes = s.pipes /\ u.orphans = s.orphans
         /\ DOMAIN u.files = DOMAIN s.files
         /\ u.files[o[a].file].refs > 0
         /\ \A g \in DOMAIN s.files :
              Alike(u.files[g], s.files[g]) /\ u.files[g].refs >= s.files[g].refs
<1> DEFINE f == o[a].file
           u == Ref(s, f)
           t == [tab EXCEPT ![p][fd] = a]
<1>1. /\ Shape(u)
      /\ u.entries = s.entries /\ u.orphans = s.orphans /\ u.pipes = s.pipes
      /\ DOMAIN u.files = DOMAIN s.files
      /\ Alike(u.files[f], s.files[f])
      /\ u.files[f].doomed = s.files[f].doomed
      /\ u.files[f].refs = s.files[f].refs + 1
      /\ \A g \in DOMAIN s.files \ {f} : u.files[g] = s.files[g]
  BY RefFields DEF Good
<1>2. a \in Addresses /\ a # None
  BY PoolsAssumption DEF Good, Tables, FileIds
<1>3. /\ t \in [Processes -> [Fds -> Addresses \cup {None}]]
      /\ t[p][fd] = a
      /\ \A q \in Processes, d \in Fds : <<q, d>> # <<p, fd>> => t[q][d] = tab[q][d]
  BY <1>2 DEF Good, Tables
<1> HIDE DEF t, u
<1>4. Tables(t, o)
  <2>1. ASSUME NEW q \in Processes, NEW d \in Fds, t[q][d] # None
        PROVE  t[q][d] \in DOMAIN o
    BY <1>3, <2>1 DEF Good, Tables
  <2> QED BY <1>3, <2>1 DEF Good, Tables
<1>5. \A g \in DOMAIN s.files : s.files[g].refs \in Nat
  BY DEF Good, Shape, File
<1>6. /\ UsedBy(t, o, f) = UsedBy(tab, o, f) \cup {<<p, fd>>}
      /\ <<p, fd>> \notin UsedBy(tab, o, f)
      /\ \A g : g # f => UsedBy(t, o, g) = UsedBy(tab, o, g)
  <2>1. \A x \in Processes \X Fds :
          /\ x # <<p, fd>> => t[x[1]][x[2]] = tab[x[1]][x[2]]
          /\ x = <<p, fd>> => t[x[1]][x[2]] = a
    BY <1>3
  <2>2. UsedBy(t, o, f) = UsedBy(tab, o, f) \cup {<<p, fd>>}
    BY <1>2, <2>1 DEF UsedBy
  <2>3. <<p, fd>> \notin UsedBy(tab, o, f)
    BY DEF UsedBy
  <2>4. \A g : g # f => UsedBy(t, o, g) = UsedBy(tab, o, g)
    BY <2>1 DEF UsedBy
  <2> QED BY <2>2, <2>3, <2>4
<1>7. Cardinality(UsedBy(t, o, f)) = s.files[f].refs + 1
  <2>1. IsFiniteSet(UsedBy(tab, o, f))
    BY UsedFinite
  <2>2. s.files[f].refs = Cardinality(UsedBy(tab, o, f))
    BY DEF Good, Counted
  <2>3. Cardinality(UsedBy(tab, o, f) \cup {<<p, fd>>}) = Cardinality(UsedBy(tab, o, f)) + 1
    BY <1>6, <2>1, FS_AddElement
  <2> QED BY <1>6, <2>2, <2>3
<1> HIDE DEF f
<1>8. f \in DOMAIN s.files
  BY DEF f
<1>9. Counted(u, t, o)
  <2>1. ASSUME NEW q \in Processes, NEW d \in Fds, t[q][d] # None
        PROVE  o[t[q][d]].file \in DOMAIN s.files
    BY <1>3, <1>8, <2>1 DEF Good, Counted, f
  <2>2. \A g \in DOMAIN s.files : u.files[g].refs = Cardinality(UsedBy(t, o, g))
    BY <1>1, <1>6, <1>7 DEF Good, Counted
  <2> QED BY <1>1, <2>1, <2>2 DEF Counted
<1>10. \A g \in DOMAIN s.files :
         /\ Alike(u.files[g], s.files[g]) /\ u.files[g].refs >= s.files[g].refs
         /\ s.files[g].doomed => u.files[g].doomed
  BY <1>1, <1>5 DEF Alike
<1>11. Orphaned(u, X) /\ Directory(u) /\ Connected(u, X)
  <2>1. \A g \in s.orphans \ X : u.files[g].refs > 0
    <3>1. \A g \in s.orphans \ X : g \in DOMAIN s.files /\ s.files[g].refs > 0
      BY DEF Good, Orphaned
    <3>2. \A g \in s.orphans \ X : u.files[g].refs = s.files[g].refs \/ g = f
      BY <1>1, <3>1
    <3> QED BY <1>1, <1>5, <1>8, <3>1, <3>2
  <2> QED BY <1>1, <1>10, <2>1, AlikeKeeps DEF Good
<1>12. u.files[f].refs > 0
  BY <1>1, <1>5, <1>8
<1> QED BY <1>1, <1>4, <1>9, <1>10, <1>11, <1>12 DEF Good, u, t, f

LEMMA FileTaken ==
  ASSUME NEW s, NEW tab, NEW o, NEW X, Good(s, tab, o, X),
         NEW p \in Processes, NEW fd \in Fds, tab[p][fd] = None,
         NEW a \in DOMAIN o, NEW f \in DOMAIN s.files, o[a].file = f
  PROVE  LET u == Ref(s, f) IN
         /\ Good(u, [tab EXCEPT ![p][fd] = a], o, X)
         /\ u.pipes = s.pipes /\ DOMAIN u.files = DOMAIN s.files
         /\ u.files[f].refs > 0
         /\ \A g \in DOMAIN s.files :
              Alike(u.files[g], s.files[g]) /\ u.files[g].refs >= s.files[g].refs
BY TakenGood

(* File::ref, for the descriptor that is to be put into a slot. *)
TakenBy(s, f, tab, p, fd, a, u, t) ==
  u = Ref(s, f) /\ t = [tab EXCEPT ![p][fd] = a]

(* The same, of an open file and an empty slot. *)
MayTake(s, f, tab, p, fd, a, u, t, o, X) ==
  /\ Good(s, tab, o, X) /\ p \in Processes /\ fd \in Fds /\ tab[p][fd] = None
  /\ a \in DOMAIN o /\ f \in DOMAIN s.files /\ o[a].file = f
  /\ TakenBy(s, f, tab, p, fd, a, u, t)

LEMMA SlotTaken ==
  ASSUME NEW s, NEW f, NEW tab, NEW p, NEW fd, NEW a, NEW u, NEW t, NEW o, NEW X,
         MayTake(s, f, tab, p, fd, a, u, t, o, X)
  PROVE  /\ Good(u, t, o, X) /\ u.pipes = s.pipes
         /\ u.files[f].refs > 0
         /\ \A g \in DOMAIN s.files :
              /\ g \in DOMAIN u.files /\ Alike(u.files[g], s.files[g])
              /\ u.files[g].refs >= s.files[g].refs
         /\ \A b \in Fds : b # fd => t[p][b] = tab[p][b]
<1>1. u = Ref(s, f) /\ t = [tab EXCEPT ![p][fd] = a]
  BY DEF MayTake, TakenBy
<1> /\ Good(s, tab, o, X) /\ p \in Processes /\ fd \in Fds /\ tab[p][fd] = None
    /\ a \in DOMAIN o /\ f \in DOMAIN s.files /\ o[a].file = f
  BY DEF MayTake
<1>2. /\ Good(Ref(s, f), [tab EXCEPT ![p][fd] = a], o, X)
      /\ Ref(s, f).pipes = s.pipes /\ DOMAIN Ref(s, f).files = DOMAIN s.files
      /\ Ref(s, f).files[f].refs > 0
      /\ \A g \in DOMAIN s.files :
           /\ Alike(Ref(s, f).files[g], s.files[g])
           /\ Ref(s, f).files[g].refs >= s.files[g].refs
  BY FileTaken
<1>3. \A b \in Fds : b # fd => t[p][b] = tab[p][b]
  BY <1>1 DEF Good, Tables
<1> QED BY <1>1, <1>2, <1>3

(* new OpenFileDescription *)
Described(o, a, f, w) ==
  \E nonblock \in BOOLEAN : w = With(o, a, [file |-> f, nonblock |-> nonblock])

LEMMA DescribedGood ==
  ASSUME NEW s, NEW tab, NEW o, NEW X, Good(s, tab, o, X),
         NEW a \in Addresses \ DOMAIN o, NEW f \in FileIds, f \in Addresses => f = a,
         NEW w, Described(o, a, f, w)
  PROVE  /\ Good(s, tab, w, X) /\ a \in DOMAIN w /\ w[a].file = f
         /\ \A b \in DOMAIN o : b \in DOMAIN w /\ w[b] = o[b]
         /\ \A b \in DOMAIN w : b = a \/ b \in DOMAIN o
<1>9. PICK nonblock \in BOOLEAN : w = With(o, a, [file |-> f, nonblock |-> nonblock])
  BY DEF Described
<1> DEFINE v == [file |-> f, nonblock |-> nonblock]
<1>8. w = With(o, a, v)
  BY <1>9
<1>0. v \in [file : FileIds, nonblock : BOOLEAN] /\ v.file = f
  OBVIOUS
<1> HIDE DEF v
<1>1. /\ DOMAIN w = DOMAIN o \cup {a} /\ w[a] = v
      /\ \A b \in DOMAIN o : w[b] = o[b]
  BY <1>8 DEF With
<1>2. Tables(tab, w)
  <2>1. \A b \in DOMAIN w : /\ w[b] \in [file : FileIds, nonblock : BOOLEAN]
                            /\ w[b].file \in Addresses => w[b].file = b
    BY <1>0, <1>1 DEF Good, Tables
  <2> QED BY <1>1, <2>1 DEF Good, Tables
<1>3. \A q \in Processes, d \in Fds : tab[q][d] # None => w[tab[q][d]] = o[tab[q][d]]
  BY <1>1 DEF Good, Tables
<1>4. \A g : UsedBy(tab, w, g) = UsedBy(tab, o, g)
  BY <1>3 DEF UsedBy
<1>5. Counted(s, tab, w)
  BY <1>3, <1>4 DEF Good, Counted
<1> QED BY <1>0, <1>1, <1>2, <1>5 DEF Good

(* An address that describes nothing is no file's either. *)
LEMMA FreshAddress ==
  ASSUME NEW s, NEW tab, NEW o, Good(s, tab, o, {}), NEW a \in Addresses \ DOMAIN o
  PROVE  a \notin DOMAIN s.files
<1>1. SUFFICES ASSUME a \in DOMAIN s.files PROVE FALSE
  OBVIOUS
<1>2. a \notin Nodes
  BY PoolsAssumption
<1>3. s.files[a].refs > 0
  BY <1>1, <1>2 DEF Good, Orphaned
<1>4. UsedBy(tab, o, a) # {}
  <2>1. Cardinality(UsedBy(tab, o, a)) # 0
    BY <1>1, <1>3 DEF Good, Counted
  <2> QED BY <2>1, UsedFinite, FS_EmptySet
<1>5. PICK x \in Processes \X Fds : tab[x[1]][x[2]] # None /\ o[tab[x[1]][x[2]]].file = a
  BY <1>4 DEF UsedBy
<1>6. tab[x[1]][x[2]] \in DOMAIN o
  BY <1>5 DEF Good, Tables
<1> QED BY <1>5, <1>6 DEF Good, Tables

(* The descriptions that nobody refers to are freed. *)
LEMMA LiveGood ==
  ASSUME NEW s, NEW tab, NEW o, NEW X, Good(s, tab, o, X)
  PROVE  Good(s, tab, Live(o, tab), X)
<1> DEFINE w == Live(o, tab)
<1>1. DOMAIN w \subseteq DOMAIN o /\ \A b \in DOMAIN w : w[b] = o[b]
  BY DEF Live
<1>2. \A q \in Processes, d \in Fds : tab[q][d] # None => tab[q][d] \in DOMAIN w
  <2>1. ASSUME NEW q \in Processes, NEW d \in Fds, tab[q][d] # None
        PROVE  tab[q][d] \in DOMAIN o /\ tab[q][d] \in Referred(tab)
    <3>1. <<q, d>> \in Processes \X Fds /\ <<q, d>>[1] = q /\ <<q, d>>[2] = d
      OBVIOUS
    <3> QED BY <2>1, <3>1 DEF Good, Tables, Referred
  <2> QED BY <2>1 DEF Live
<1> HIDE DEF w
<1>3. Tables(tab, w)
  BY <1>1, <1>2 DEF Good, Tables
<1>4. \A q \in Processes, d \in Fds : tab[q][d] # None => w[tab[q][d]] = o[tab[q][d]]
  BY <1>1, <1>2
<1>5. \A g : UsedBy(tab, w, g) = UsedBy(tab, o, g)
  BY <1>4 DEF UsedBy
<1>6. Counted(s, tab, w)
  BY <1>4, <1>5 DEF Good, Counted
<1> QED BY <1>3, <1>6 DEF Good, w

(* No descriptor is of a file that is not there. *)
LEMMA Unused ==
  ASSUME NEW s, NEW tab, NEW o, Counted(s, tab, o), NEW f, f \notin DOMAIN s.files
  PROVE  Cardinality(UsedBy(tab, o, f)) = 0
<1>1. UsedBy(tab, o, f) = {}
  BY DEF UsedBy, Counted
<1> QED BY <1>1, FS_EmptySet

LEMMA NewFileFields ==
  ASSUME NEW kind \in Kinds, NEW n \in Names \cup {None}, NEW i \in Addresses \cup {None}
  PROVE  LET r == NewFile(kind, n, i) IN
         /\ r \in File /\ r.kind = kind /\ r.name = n /\ r.refs = 0 /\ r.pipe = i
         /\ r.doomed = (kind = "memfd")
BY DEF NewFile, File

(* addToOrphans *)
OrphanAdded(s, f, r, u) ==
  u = [s EXCEPT !.files = With(@, f, r), !.orphans = @ \cup {f}]

LEMMA OrphanAddedFields ==
  ASSUME NEW s, Shape(s), NEW f \in Addresses, f \notin DOMAIN s.files,
         NEW r \in File, NEW u, OrphanAdded(s, f, r, u)
  PROVE  /\ Shape(u) /\ u.entries = s.entries /\ u.pipes = s.pipes
         /\ u.orphans = s.orphans \cup {f} /\ DOMAIN u.files = DOMAIN s.files \cup {f}
         /\ u.files[f] = r
         /\ \A g \in DOMAIN s.files : u.files[g] = s.files[g]
<1> DEFINE F == With(s.files, f, r)
<1>1. s = [files |-> s.files, entries |-> s.entries, orphans |-> s.orphans,
           pipes |-> s.pipes]
  BY DEF Shape
<1>2. u = [files |-> F, entries |-> s.entries, orphans |-> s.orphans \cup {f},
           pipes |-> s.pipes]
  <2>1. u = [s EXCEPT !.files = F, !.orphans = s.orphans \cup {f}]
    BY DEF OrphanAdded
  <2> HIDE DEF F
  <2> QED BY <1>1, <2>1
<1>3. /\ DOMAIN F = DOMAIN s.files \cup {f} /\ F[f] = r
      /\ \A g \in DOMAIN s.files : F[g] = s.files[g]
  BY DEF With
<1> HIDE DEF F
<1>4. Shape(u)
  BY <1>2, <1>3 DEF Shape, FileIds
<1> QED BY <1>2, <1>3, <1>4

OrphanKind(kind, n) ==
  /\ kind \in Ends \cup {"epoll", "memfd"} /\ n \in Names \cup {None}
  /\ kind # "memfd" => n = None

LEMMA InOrphansGood ==
  ASSUME NEW s, NEW tab, NEW o, NEW X, Good(s, tab, o, X),
         NEW f \in Addresses, f \notin DOMAIN s.files,
         NEW kind, NEW n, OrphanKind(kind, n), NEW i \in Addresses \cup {None},
         NEW Y, X \subseteq Y, f \in Y, NEW u, u = InOrphans(s, f, kind, n, i)
  PROVE  /\ Good(u, tab, o, Y)
         /\ u.pipes = s.pipes
         /\ f \in u.orphans /\ s.orphans \subseteq u.orphans
         /\ f \in DOMAIN u.files /\ u.files[f].kind = kind /\ u.files[f].pipe = i
         /\ \A g \in DOMAIN s.files : g \in DOMAIN u.files /\ u.files[g] = s.files[g]
         /\ \A g \in DOMAIN u.files : g = f \/ g \in DOMAIN s.files
<1> DEFINE r == NewFile(kind, n, i)
<1>0. /\ kind \in Ends \cup {"epoll", "memfd"} /\ n \in Names \cup {None}
      /\ kind # "memfd" => n = None
  BY DEF OrphanKind
<1>1. /\ r \in File /\ r.kind = kind /\ r.name = n /\ r.refs = 0 /\ r.pipe = i
      /\ r.doomed = (kind = "memfd")
  BY <1>0, NewFileFields DEF Kinds
<1>2. OrphanAdded(s, f, r, u)
  BY DEF InOrphans, OrphanAdded
<1> HIDE DEF r
<1>3. /\ Shape(u) /\ u.entries = s.entries /\ u.pipes = s.pipes
      /\ u.orphans = s.orphans \cup {f} /\ DOMAIN u.files = DOMAIN s.files \cup {f}
      /\ u.files[f] = r
      /\ \A g \in DOMAIN s.files : u.files[g] = s.files[g]
  BY <1>1, <1>2, OrphanAddedFields DEF Good
<1>4. Counted(u, tab, o)
  <2>1. Cardinality(UsedBy(tab, o, f)) = 0
    BY Unused DEF Good
  <2> QED BY <1>1, <1>3, <2>1 DEF Good, Counted
<1>5. Orphaned(u, Y)
  <2>1. \A g \in s.orphans : g \in DOMAIN s.files /\ g # f
    BY DEF Good, Orphaned
  <2>2. \A g \in s.orphans :
          /\ g \notin Y => u.files[g].refs > 0
          /\ \/ u.files[g].kind \in Ends \cup {"epoll"} /\ u.files[g].name = None
             \/ u.files[g].kind = "memfd" /\ u.files[g].doomed
    BY <1>3, <2>1 DEF Good, Orphaned
  <2>3. \A g \in DOMAIN u.files \ u.orphans :
          g \in DOMAIN s.files \ s.orphans /\ u.files[g] = s.files[g]
    BY <1>3
  <2>4. \/ r.kind \in Ends \cup {"epoll"} /\ r.name = None
        \/ r.kind = "memfd" /\ r.doomed
    BY <1>0, <1>1
  <2> QED BY <1>3, <2>1, <2>2, <2>3, <2>4 DEF Good, Orphaned
<1>6. Directory(u)
  <2>1. Directory(s)
    BY DEF Good
  <2> QED BY <1>3, <2>1, DirectoryKept
<1>7. Connected(u, Y)
  <2>1. Connected(s, X)
    BY DEF Good
  <2>2. \A g \in DOMAIN u.files \ Y : g \in DOMAIN s.files \ X /\ u.files[g] = s.files[g]
    BY <1>3
  <2> QED BY <1>3, <2>1, <2>2, ConnectedKept
<1> QED BY <1>1, <1>3, <1>4, <1>5, <1>6, <1>7 DEF Good

(* All that was exempt has a descriptor, and its place in a pipe. *)
LEMMA ExemptNoMore ==
  ASSUME NEW s, NEW tab, NEW o, NEW X, Good(s, tab, o, X),
         \A f \in X \cap s.orphans : s.files[f].refs > 0,
         Connected(s, {})
  PROVE  Good(s, tab, o, {})
<1>1. Orphaned(s, {})
  BY DEF Good, Orphaned
<1> QED BY <1>1 DEF Good

(* insertNode, allocateFd *)
Inserted(s, a, v) ==
  \E kind \in {"epoll", "memfd"}, n \in Names \cup {None} :
    (kind # "memfd" => n = None) /\ v = InOrphans(s, a, kind, n, None)

LEMMA OrphanOpenedGood ==
  ASSUME NEW s, NEW tab, NEW o, Good(s, tab, o, {}), NEW a \in Addresses \ DOMAIN o,
         NEW p \in Processes, NEW fd \in Fds, tab[p][fd] = None,
         NEW v, Inserted(s, a, v), NEW w, Described(o, a, a, w)
  PROVE  /\ Good(Ref(v, a), [tab EXCEPT ![p][fd] = a], w, {})
         /\ Ref(v, a).pipes = s.pipes
<1> DEFINE t == [tab EXCEPT ![p][fd] = a]
           u == Ref(v, a)
<1>1. a \notin DOMAIN s.files
  BY FreshAddress
<1>2. /\ Good(v, tab, o, {a}) /\ v.pipes = s.pipes
      /\ a \in DOMAIN v.files /\ v.files[a].kind \in {"epoll", "memfd"}
  <2>3. PICK kind \in {"epoll", "memfd"}, n \in Names \cup {None} :
          (kind # "memfd" => n = None) /\ v = InOrphans(s, a, kind, n, None)
    BY DEF Inserted
  <2>1. /\ None \in Addresses \cup {None} /\ OrphanKind(kind, n)
        /\ v = InOrphans(s, a, kind, n, None) /\ {} \subseteq {a} /\ a \in {a}
    BY <2>3 DEF OrphanKind
  <2> HIDE DEF t, u
  <2> QED BY <1>1, <2>1, <2>3, InOrphansGood
<1>3. Good(v, tab, w, {a}) /\ a \in DOMAIN w /\ w[a].file = a
  <2>1. Described(o, a, a, w) /\ a \in FileIds
    BY DEF FileIds
  <2>2. Good(v, tab, o, {a}) /\ (a \in Addresses => a = a)
    BY <1>2
  <2> HIDE DEF t, u
  <2> QED BY <2>1, <2>2, DescribedGood
<1>4. /\ Good(u, t, w, {a}) /\ u.pipes = v.pipes
      /\ u.files[a].refs > 0 /\ Alike(u.files[a], v.files[a])
  BY <1>2, <1>3, TakenGood
<1> HIDE DEF u, t
<1>5. Connected(u, {})
  BY <1>2, <1>4 DEF Good, Connected, Alike, Ends
<1>6. Good(u, t, w, {})
  BY <1>4, <1>5, ExemptNoMore
<1> QED BY <1>2, <1>4, <1>6 DEF u, t

(* A file of the directory is opened. *)
LEMMA NodeOpenedGood ==
  ASSUME NEW s, NEW tab, NEW o, Good(s, tab, o, {}), NEW a \in Addresses \ DOMAIN o,
         NEW f \in DOMAIN s.files \cap Nodes,
         NEW p \in Processes, NEW fd \in Fds, tab[p][fd] = None
  PROVE  LET u == Ref(s, f) IN
         /\ Good(u, [tab EXCEPT ![p][fd] = a],
                 With(o, a, [file |-> f, nonblock |-> FALSE]), {})
         /\ u.pipes = s.pipes
<1> DEFINE w == With(o, a, [file |-> f, nonblock |-> FALSE])
           t == [tab EXCEPT ![p][fd] = a]
           u == Ref(s, f)
<1>1. Good(s, tab, w, {}) /\ a \in DOMAIN w /\ w[a].file = f
  <2>1. Described(o, a, f, w) /\ f \in FileIds /\ f \notin Addresses
    BY PoolsAssumption DEF Described, FileIds
  <2> HIDE DEF w, t, u
  <2> QED BY <2>1, DescribedGood
<1> HIDE DEF w
<1>2. Good(u, t, w, {}) /\ u.pipes = s.pipes
  BY <1>1, TakenGood
<1> QED BY <1>2 DEF w

-----------------------------------------------------------------------------
(* The entries of two states, as far as those of the directory go. *)
EntriesMoved(s, files, E, u) == u = [s EXCEPT !.files = files, !.entries = E]

LEMMA MovedRecord ==
  ASSUME NEW s, Shape(s), NEW F, NEW E, NEW u, EntriesMoved(s, F, E, u)
  PROVE  u = [files |-> F, entries |-> E, orphans |-> s.orphans, pipes |-> s.pipes]
<1>1. s = [files |-> s.files, entries |-> s.entries, orphans |-> s.orphans,
           pipes |-> s.pipes]
  BY DEF Shape
<1> QED BY <1>1 DEF EntriesMoved

LEMMA MovedShape ==
  ASSUME NEW s, Shape(s), NEW F, NEW E, NEW u, EntriesMoved(s, F, E, u),
         DOMAIN F \subseteq FileIds, \A f \in DOMAIN F : F[f] \in File,
         E \in [Names -> Seq(Nodes)]
  PROVE  /\ Shape(u) /\ u.files = F /\ u.entries = E
         /\ u.orphans = s.orphans /\ u.pipes = s.pipes
<1>1. u = [files |-> F, entries |-> E, orphans |-> s.orphans, pipes |-> s.pipes]
  BY MovedRecord
<1> QED BY <1>1 DEF Shape

LEMMA Appended ==
  ASSUME NEW E \in [Names -> Seq(Nodes)], NEW n \in Names, NEW f \in Nodes
  PROVE  LET D == [E EXCEPT ![n] = Append(@, f)] IN
         /\ D \in [Names -> Seq(Nodes)]
         /\ \A m \in Names \ {n} : D[m] = E[m]
         /\ \A i \in DOMAIN E[n] : i \in DOMAIN D[n] /\ D[n][i] = E[n][i]
         /\ \A i \in DOMAIN D[n] : i \in DOMAIN E[n] \/ (i = Len(E[n]) + 1 /\ D[n][i] = f)
         /\ Len(E[n]) + 1 \in DOMAIN D[n] /\ D[n][Len(E[n]) + 1] = f
<1> DEFINE T == Append(E[n], f)
           D == [E EXCEPT ![n] = T]
<1>1. E[n] \in Seq(Nodes)
  OBVIOUS
<1>2. /\ T \in Seq(Nodes) /\ Len(T) = Len(E[n]) + 1
      /\ \A i \in 1..Len(E[n]) : T[i] = E[n][i]
      /\ T[Len(E[n]) + 1] = f
      /\ DOMAIN T = 1..Len(T) /\ DOMAIN E[n] = 1..Len(E[n]) /\ Len(E[n]) \in Nat
  BY <1>1, AppendProperties, LenProperties
<1> HIDE DEF T
<1>3. /\ D \in [Names -> Seq(Nodes)] /\ D[n] = T
      /\ \A m \in Names \ {n} : D[m] = E[m]
  BY <1>2
<1> HIDE DEF D
<1>4. /\ \A i \in DOMAIN E[n] : i \in DOMAIN T /\ T[i] = E[n][i]
      /\ \A i \in DOMAIN T : i \in DOMAIN E[n] \/ (i = Len(E[n]) + 1 /\ T[i] = f)
      /\ Len(E[n]) + 1 \in DOMAIN T
  BY <1>2
<1> QED BY <1>2, <1>3, <1>4 DEF D, T

(* addToDirectory *)
LEMMA InDirectoryGood ==
  ASSUME NEW s, NEW tab, NEW o, Good(s, tab, o, {}),
         NEW f \in Nodes, f \notin DOMAIN s.files,
         NEW kind \in {"shadow", "host"}, NEW n \in Names,
         NEW u, u = InDirectory(s, f, kind, n)
  PROVE  Good(u, tab, o, {}) /\ f \in DOMAIN u.files /\ u.pipes = s.pipes
<1> DEFINE r == NewFile(kind, n, None)
           F == With(s.files, f, r)
           E == [s.entries EXCEPT ![n] = Append(@, f)]
<1>1. /\ r \in File /\ r.kind = kind /\ r.name = n /\ r.refs = 0
  BY NewFileFields DEF Kinds
<1>2. EntriesMoved(s, F, E, u)
  BY DEF InDirectory, EntriesMoved
<1> HIDE DEF r
<1>3. /\ f \in DOMAIN F /\ F[f] = r
      /\ \A g \in DOMAIN s.files : g \in DOMAIN F /\ F[g] = s.files[g] /\ g # f
      /\ \A g \in DOMAIN F : g = f \/ g \in DOMAIN s.files
  BY DEF With
<1>4. /\ E \in [Names -> Seq(Nodes)]
      /\ \A m \in Names \ {n} : E[m] = s.entries[m]
      /\ \A i \in DOMAIN s.entries[n] : i \in DOMAIN E[n] /\ E[n][i] = s.entries[n][i]
      /\ \A i \in DOMAIN E[n] : i \in DOMAIN s.entries[n]
                                \/ (i = Len(s.entries[n]) + 1 /\ E[n][i] = f)
      /\ Len(s.entries[n]) + 1 \in DOMAIN E[n] /\ E[n][Len(s.entries[n]) + 1] = f
  BY Appended DEF Good, Shape
<1> HIDE DEF F, E
<1>5. \A g \in DOMAIN F : F[g] \in File /\ g \in FileIds
  BY <1>1, <1>3 DEF Good, Shape, FileIds
<1>6. /\ Shape(u) /\ u.files = F /\ u.entries = E
      /\ u.orphans = s.orphans /\ u.pipes = s.pipes
  BY <1>2, <1>4, <1>5, MovedShape DEF Good
<1>7. Counted(u, tab, o)
  <2>1. Cardinality(UsedBy(tab, o, f)) = 0
    BY Unused DEF Good
  <2> QED BY <1>1, <1>3, <1>6, <2>1 DEF Good, Counted
<1>8. f \notin s.orphans
  BY <1>3 DEF Good, Orphaned
<1>9. Orphaned(u, {})
  BY <1>1, <1>3, <1>6, <1>8 DEF Good, Orphaned
<1>10. Connected(u, {})
  <2>1. Connected(s, {})
    BY DEF Good
  <2>2. r.kind \notin Ends
    BY <1>1 DEF Ends
  <2> QED BY <1>3, <1>6, <2>1, <2>2, ConnectedKept
<1>11. Directory(u)
  <2>1. ASSUME NEW m \in Names, NEW i \in DOMAIN E[m]
        PROVE  \/ /\ i \in DOMAIN s.entries[m] /\ E[m][i] = s.entries[m][i]
                  /\ E[m][i] \in DOMAIN s.files /\ s.files[E[m][i]].name = m
               \/ m = n /\ i = Len(s.entries[n]) + 1 /\ E[m][i] = f
    BY <1>4 DEF Good, Directory
  <2>5. \A m \in Names : \A i, j \in DOMAIN s.entries[m] :
          s.entries[m][i] = s.entries[m][j] => i = j
    BY DEF Good, Directory
  <2>2. ASSUME NEW m \in Names, NEW i \in DOMAIN E[m]
        PROVE  E[m][i] \in DOMAIN F /\ F[E[m][i]].name = m
    BY <1>1, <1>3, <2>1
  <2>3. ASSUME NEW m \in Names, NEW i \in DOMAIN E[m], NEW j \in DOMAIN E[m],
               E[m][i] = E[m][j]
        PROVE  i = j
    <3>1. CASE i \in DOMAIN s.entries[m] /\ j \in DOMAIN s.entries[m]
               /\ E[m][i] = s.entries[m][i] /\ E[m][j] = s.entries[m][j]
      BY <2>3, <2>5, <3>1
    <3>2. CASE E[m][i] = f
      <4>1. ASSUME NEW k \in DOMAIN E[m], E[m][k] = f
            PROVE  k = Len(s.entries[n]) + 1
        <5>1. f \notin DOMAIN s.files
          OBVIOUS
        <5>2. k \in DOMAIN s.entries[m] /\ E[m][k] \in DOMAIN s.files => FALSE
          BY <4>1, <5>1
        <5> QED BY <2>1, <5>2
      <4> QED BY <2>3, <3>2, <4>1
    <3>3. CASE E[m][i] # f
      <4>1. E[m][j] # f
        BY <2>3, <3>3
      <4>2. /\ i \in DOMAIN s.entries[m] /\ E[m][i] = s.entries[m][i]
            /\ j \in DOMAIN s.entries[m] /\ E[m][j] = s.entries[m][j]
        BY <2>1, <3>3, <4>1
      <4> QED BY <3>1, <4>2
    <3> QED BY <3>2, <3>3
  <2>4. ASSUME NEW g \in DOMAIN F \ s.orphans
        PROVE  F[g].name \in Names /\ \E i \in DOMAIN E[F[g].name] : E[F[g].name][i] = g
    <3>1. CASE g = f
      BY <1>1, <1>3, <1>4, <3>1
    <3>2. CASE g # f
      <4>1. g \in DOMAIN s.files \ s.orphans /\ F[g].name = s.files[g].name
        BY <1>3, <3>2
      <4>2. PICK i \in DOMAIN s.entries[s.files[g].name] :
              s.files[g].name \in Names /\ s.entries[s.files[g].name][i] = g
        BY <4>1 DEF Good, Directory
      <4>3. i \in DOMAIN E[s.files[g].name] /\ E[s.files[g].name][i] = g
        BY <1>4, <4>2
      <4> QED BY <4>1, <4>2, <4>3
    <3> QED BY <3>1, <3>2
  <2> QED BY <1>6, <2>2, <2>3, <2>4 DEF Directory
<1> QED BY <1>3, <1>6, <1>7, <1>9, <1>10, <1>11 DEF Good

LEMMA WithName ==
  ASSUME NEW r \in File, NEW n \in Names
  PROVE  LET q == [r EXCEPT !.name = n] IN
         /\ q \in File /\ q.name = n /\ q.kind = r.kind /\ q.pipe = r.pipe
         /\ q.refs = r.refs /\ q.doomed = r.doomed
BY DEF File

LEMMA FirstTaken ==
  ASSUME NEW E \in [Names -> Seq(Nodes)], NEW n \in Names, E[n] # <<>>
  PROVE  LET D == [E EXCEPT ![n] = Tail(@)] IN
         /\ D \in [Names -> Seq(Nodes)]
         /\ \A m \in Names \ {n} : D[m] = E[m]
         /\ \A i \in DOMAIN D[n] :
              i + 1 \in DOMAIN E[n] /\ i \in Nat \ {0} /\ D[n][i] = E[n][i + 1]
         /\ \A i \in DOMAIN E[n] :
              i = 1 \/ (i \in Nat /\ i - 1 \in DOMAIN D[n] /\ D[n][i - 1] = E[n][i])
<1> DEFINE T == Tail(E[n])
           D == [E EXCEPT ![n] = T]
<1>1. E[n] \in Seq(Nodes)
  OBVIOUS
<1>2. /\ T \in Seq(Nodes) /\ Len(T) = Len(E[n]) - 1
      /\ \A i \in 1..Len(T) : T[i] = E[n][i + 1]
      /\ DOMAIN T = 1..Len(T) /\ DOMAIN E[n] = 1..Len(E[n])
      /\ Len(T) \in Nat /\ Len(E[n]) \in Nat
  BY <1>1, HeadTailProperties, LenProperties
<1> HIDE DEF T
<1>3. /\ D \in [Names -> Seq(Nodes)] /\ D[n] = T
      /\ \A m \in Names \ {n} : D[m] = E[m]
  BY <1>2
<1> HIDE DEF D
<1>4. /\ \A i \in DOMAIN T : i + 1 \in DOMAIN E[n] /\ i \in Nat \ {0}
      /\ \A i \in DOMAIN E[n] : i = 1 \/ (i \in Nat /\ i - 1 \in DOMAIN T)
      /\ \A i \in DOMAIN T : T[i] = E[n][i + 1]
  BY <1>2
<1>5. \A i \in DOMAIN E[n] : i = 1 \/ T[i - 1] = E[n][i]
  <2>1. ASSUME NEW i \in DOMAIN E[n], i # 1 PROVE T[i - 1] = E[n][i]
    <3>1. i \in Nat /\ i - 1 \in DOMAIN T /\ (i - 1) + 1 = i
      BY <1>4, <2>1
    <3> QED BY <1>4, <3>1
  <2> QED BY <2>1
<1> QED BY <1>3, <1>4, <1>5 DEF D, T

(* FS::rename *)
Renamed(s, old, new, u) ==
  u = [[s EXCEPT !.entries[old] = Tail(@)] EXCEPT
         !.entries[new] = Append(@, Head(s.entries[old])),
         !.files[Head(s.entries[old])].name = new]

LEMMA RenamedGood ==
  ASSUME NEW s, NEW tab, NEW o, Good(s, tab, o, {}),
         NEW old \in Names, NEW new \in Names, s.entries[old] # <<>>,
         NEW u, Renamed(s, old, new, u)
  PROVE  Good(u, tab, o, {}) /\ u.pipes = s.pipes /\ Lasting(s, u)
<1> DEFINE f == Head(s.entries[old])
           r == [s.files[f] EXCEPT !.name = new]
           F == [s.files EXCEPT ![f] = r]
           C == [s.entries EXCEPT ![old] = Tail(@)]
           E == [C EXCEPT ![new] = Append(@, f)]
<1>1. /\ f \in DOMAIN s.files /\ s.files[f].name = old
      /\ 1 \in DOMAIN s.entries[old] /\ s.entries[old][1] = f
      /\ f \in Nodes /\ f \notin s.orphans /\ s.files[f].kind \notin Ends
  BY EntryKnown
<1>2. EntriesMoved(s, F, E, u)
  <2>1. s = [files |-> s.files, entries |-> s.entries, orphans |-> s.orphans,
             pipes |-> s.pipes]
    BY DEF Good, Shape
  <2> HIDE DEF f
  <2>2. u = [[s EXCEPT !.entries[old] = Tail(@)] EXCEPT
               !.entries[new] = Append(@, f), !.files[f].name = new]
    BY DEF f, Renamed
  <2>3. [s EXCEPT !.entries[old] = Tail(@)] = [s EXCEPT !.entries = C]
    OBVIOUS
  <2> HIDE DEF C
  <2>4. u = [files |-> F, entries |-> E, orphans |-> s.orphans, pipes |-> s.pipes]
    BY <2>1, <2>2, <2>3
  <2> HIDE DEF E, F, r
  <2> DEFINE w == [s EXCEPT !.files = F, !.entries = E]
  <2>5. EntriesMoved(s, F, E, w)
    BY DEF EntriesMoved
  <2>6. w = [files |-> F, entries |-> E, orphans |-> s.orphans, pipes |-> s.pipes]
    <3> HIDE DEF w
    <3> QED BY <2>5, MovedRecord DEF Good
  <2> HIDE DEF w
  <2> QED BY <2>4, <2>5, <2>6
<1>3. /\ r \in File /\ r.name = new /\ r.kind = s.files[f].kind
      /\ r.pipe = s.files[f].pipe /\ r.refs = s.files[f].refs
      /\ r.doomed = s.files[f].doomed
  BY <1>1, WithName DEF Good, Shape
<1> HIDE DEF f, r
<1>4. DOMAIN F = DOMAIN s.files /\ F[f] = r /\ \A g \in DOMAIN F \ {f} : F[g] = s.files[g]
  BY <1>1
<1>5. s.entries \in [Names -> Seq(Nodes)]
  BY DEF Good, Shape
<1>6. /\ C \in [Names -> Seq(Nodes)]
      /\ \A m \in Names \ {old} : C[m] = s.entries[m]
      /\ \A i \in DOMAIN C[old] : i + 1 \in DOMAIN s.entries[old] /\ i \in Nat \ {0}
                                  /\ C[old][i] = s.entries[old][i + 1]
      /\ \A i \in DOMAIN s.entries[old] :
           i = 1 \/ (i \in Nat /\ i - 1 \in DOMAIN C[old]
                     /\ C[old][i - 1] = s.entries[old][i])
  BY <1>5, FirstTaken
<1> HIDE DEF C
<1>7. /\ E \in [Names -> Seq(Nodes)]
      /\ \A m \in Names \ {new} : E[m] = C[m]
      /\ \A i \in DOMAIN C[new] : i \in DOMAIN E[new] /\ E[new][i] = C[new][i]
      /\ \A i \in DOMAIN E[new] : i \in DOMAIN C[new]
                                  \/ (i = Len(C[new]) + 1 /\ E[new][i] = f)
      /\ Len(C[new]) + 1 \in DOMAIN E[new] /\ E[new][Len(C[new]) + 1] = f
  BY <1>1, <1>6, Appended
<1> HIDE DEF F, E
<1>8. /\ Shape(u) /\ u.files = F /\ u.entries = E
      /\ u.orphans = s.orphans /\ u.pipes = s.pipes
  <2>1. DOMAIN F \subseteq FileIds /\ \A g \in DOMAIN F : F[g] \in File
    BY <1>3, <1>4 DEF Good, Shape
  <2> QED BY <1>2, <1>7, <2>1, MovedShape DEF Good
<1>9. /\ Counted(u, tab, o) /\ Orphaned(u, {}) /\ Connected(u, {})
  <2>1. Counted(u, tab, o)
    BY <1>3, <1>4, <1>8 DEF Good, Counted
  <2>2. Orphaned(u, {})
    BY <1>1, <1>3, <1>4, <1>8 DEF Good, Orphaned
  <2>3. Connected(u, {})
    <3>1. Connected(s, {})
      BY DEF Good
    <3>2. \A g \in DOMAIN s.files : F[g].kind = s.files[g].kind /\ F[g].pipe = s.files[g].pipe
      BY <1>3, <1>4
    <3> QED BY <1>4, <1>8, <3>1, <3>2, ConnectedKept
  <2> QED BY <2>1, <2>2, <2>3
(* The entries that are left are of other files, under their own names. *)
<1>10. ASSUME NEW m \in Names, NEW i \in DOMAIN C[m]
       PROVE  /\ C[m][i] \in DOMAIN s.files /\ s.files[C[m][i]].name = m
              /\ C[m][i] # f
  <2>1. CASE m # old
    <3>1. C[m] = s.entries[m]
      BY <1>6, <2>1
    <3>2. C[m][i] \in DOMAIN s.files /\ s.files[C[m][i]].name = m
      BY <3>1 DEF Good, Directory
    <3> QED BY <1>1, <2>1, <3>2
  <2>2. CASE m = old
    <3>1. i + 1 \in DOMAIN s.entries[old] /\ i + 1 # 1 /\ C[old][i] = s.entries[old][i + 1]
      BY <1>6, <2>2
    <3>2. s.entries[old][i + 1] # f
      BY <1>1, <3>1 DEF Good, Directory
    <3>3. /\ s.entries[old][i + 1] \in DOMAIN s.files
          /\ s.files[s.entries[old][i + 1]].name = old
      BY <3>1 DEF Good, Directory
    <3> QED BY <2>2, <3>1, <3>2, <3>3
  <2> QED BY <2>1, <2>2
<1>11. ASSUME NEW m \in Names, NEW i \in DOMAIN C[m], NEW j \in DOMAIN C[m],
              C[m][i] = C[m][j]
       PROVE  i = j
  <2>1. CASE m # old
    <3>1. C[m] = s.entries[m]
      BY <1>6, <2>1
    <3> QED BY <1>11, <3>1 DEF Good, Directory
  <2>2. CASE m = old
    <3>1. i + 1 = j + 1
      BY <1>6, <1>11, <2>2 DEF Good, Directory
    <3> QED BY <1>6, <2>2, <3>1
  <2> QED BY <2>1, <2>2
<1>12. ASSUME NEW m \in Names, NEW i \in DOMAIN E[m]
       PROVE  \/ i \in DOMAIN C[m] /\ E[m][i] = C[m][i]
              \/ m = new /\ i = Len(C[new]) + 1 /\ E[m][i] = f
  BY <1>7
<1>13. Directory(u)
  <2>1. ASSUME NEW m \in Names, NEW i \in DOMAIN E[m]
        PROVE  E[m][i] \in DOMAIN F /\ F[E[m][i]].name = m
    BY <1>1, <1>3, <1>4, <1>10, <1>12
  <2>2. ASSUME NEW m \in Names, NEW i \in DOMAIN E[m], NEW j \in DOMAIN E[m],
               E[m][i] = E[m][j]
        PROVE  i = j
    <3>1. CASE i \in DOMAIN C[m] /\ j \in DOMAIN C[m]
               /\ E[m][i] = C[m][i] /\ E[m][j] = C[m][j]
      BY <1>11, <2>2, <3>1
    <3>2. CASE E[m][i] = f
      <4>1. ASSUME NEW k \in DOMAIN E[m], E[m][k] = f PROVE k = Len(C[new]) + 1
        <5>1. k \in DOMAIN C[m] /\ E[m][k] = C[m][k] => FALSE
          BY <1>10, <4>1
        <5> QED BY <1>12, <5>1
      <4> QED BY <2>2, <3>2, <4>1
    <3> QED BY <1>10, <1>12, <2>2, <3>1, <3>2
  <2>3. ASSUME NEW g \in DOMAIN F \ s.orphans
        PROVE  F[g].name \in Names /\ \E i \in DOMAIN E[F[g].name] : E[F[g].name][i] = g
    <3>1. CASE g = f
      BY <1>3, <1>4, <1>7, <3>1
    <3>2. CASE g # f
      <4> DEFINE n == s.files[g].name
      <4>1. g \in DOMAIN s.files \ s.orphans /\ F[g].name = n
        BY <1>4, <3>2
      <4>2. PICK i \in DOMAIN s.entries[n] : n \in Names /\ s.entries[n][i] = g
        BY <4>1 DEF Good, Directory
      <4> HIDE DEF n
      <4>3. \E j \in DOMAIN C[n] : C[n][j] = g
        <5>1. CASE n = old
          <6>1. i # 1
            BY <1>1, <3>2, <4>2, <5>1
          <6>2. i - 1 \in DOMAIN C[old] /\ C[old][i - 1] = s.entries[old][i]
            BY <1>6, <4>2, <5>1, <6>1
          <6> QED BY <4>2, <5>1, <6>2
        <5>2. CASE n # old
          <6>1. C[n] = s.entries[n]
            BY <1>6, <4>2, <5>2
          <6> QED BY <4>2, <6>1
        <5> QED BY <5>1, <5>2
      <4>4. \E j \in DOMAIN E[n] : E[n][j] = g
        <5>1. PICK j \in DOMAIN C[n] : C[n][j] = g
          BY <4>3
        <5>2. CASE n = new
          <6>1. j \in DOMAIN E[new] /\ E[new][j] = C[new][j]
            BY <1>7, <5>1, <5>2
          <6> QED BY <5>1, <5>2, <6>1
        <5>3. CASE n # new
          <6>1. E[n] = C[n]
            BY <1>7, <4>2, <5>3
          <6> QED BY <5>1, <6>1
        <5> QED BY <5>2, <5>3
      <4> QED BY <4>1, <4>2, <4>4
    <3> QED BY <3>1, <3>2
  <2> QED BY <1>8, <2>1, <2>2, <2>3 DEF Directory
<1>14. Lasting(s, u)
  BY <1>3, <1>4, <1>8 DEF Lasting
<1> QED BY <1>8, <1>9, <1>13, <1>14 DEF Good

-----------------------------------------------------------------------------
FilesSet(s, F, u) == u = [s EXCEPT !.files = F]

LEMMA FilesChanged ==
  ASSUME NEW s, Shape(s), NEW F, DOMAIN F = DOMAIN s.files,
         \A f \in DOMAIN F : F[f] \in File,
         NEW u, FilesSet(s, F, u)
  PROVE  /\ Shape(u) /\ u.files = F
         /\ u.entries = s.entries /\ u.orphans = s.orphans /\ u.pipes = s.pipes
<1>1. s = [files |-> s.files, entries |-> s.entries, orphans |-> s.orphans,
           pipes |-> s.pipes]
  BY DEF Shape
<1>2. u = [files |-> F, entries |-> s.entries, orphans |-> s.orphans,
           pipes |-> s.pipes]
  BY <1>1 DEF FilesSet
<1> QED BY <1>2 DEF Shape

(* Process::clone: as many references as the process has descriptors. *)
LEMMA ForkGood ==
  ASSUME IInv, NEW p \in Processes, NEW c \in Processes, p # c, Slots(c) = {},
         NEW u, FilesSet(fs, RefsCopied(p), u)
  PROVE  /\ Good(u, [table EXCEPT ![c] = table[p]], ofds, {})
         /\ u.pipes = fs.pipes /\ Lasting(fs, u)
<1> DEFINE F == RefsCopied(p)
           t == [table EXCEPT ![c] = table[p]]
<1>1. FilesSet(fs, F, u)
  OBVIOUS
<1>2. ASSUME NEW f
      PROVE  /\ IsFiniteSet(Referring(p, f)) /\ Cardinality(Referring(p, f)) \in Nat
  <2>1. IsFiniteSet(Fds)
    BY FS_Interval, BoundsAssumption DEF Fds
  <2>2. Referring(p, f) \subseteq Fds
    BY DEF Referring, Slots
  <2> QED BY <2>1, <2>2, FS_Subset, FS_CardinalityType
<1>3. \A f \in DOMAIN fs.files :
        /\ F[f] \in File /\ Alike(F[f], fs.files[f])
        /\ F[f].doomed = fs.files[f].doomed
        /\ F[f].refs = fs.files[f].refs + Cardinality(Referring(p, f))
  <2>1. ASSUME NEW f \in DOMAIN fs.files
        PROVE  /\ F[f] \in File /\ Alike(F[f], fs.files[f])
               /\ F[f].doomed = fs.files[f].doomed
               /\ F[f].refs = fs.files[f].refs + Cardinality(Referring(p, f))
    <3>1. fs.files[f] \in File /\ fs.files[f].refs \in Nat
      BY DEF IInv, Good, Shape, File
    <3>2. fs.files[f].refs + Cardinality(Referring(p, f)) \in Nat
      BY <1>2, <3>1
    <3>3. F[f] = [fs.files[f] EXCEPT !.refs = fs.files[f].refs
                                              + Cardinality(Referring(p, f))]
      BY DEF RefsCopied
    <3> HIDE DEF F
    <3> QED BY <3>1, <3>2, <3>3, WithRefs
  <2> HIDE DEF F
  <2> QED BY <2>1
<1>4. DOMAIN F = DOMAIN fs.files
  BY DEF RefsCopied
<1> HIDE DEF F
<1>5. /\ Shape(u) /\ u.files = F
      /\ u.entries = fs.entries /\ u.orphans = fs.orphans /\ u.pipes = fs.pipes
  BY <1>1, <1>3, <1>4, FilesChanged DEF IInv, Good
<1>6. /\ t \in [Processes -> [Fds -> Addresses \cup {None}]]
      /\ \A fd \in Fds : t[c][fd] = table[p][fd] /\ table[c][fd] = None
      /\ \A q \in Processes \ {c}, fd \in Fds : t[q][fd] = table[q][fd]
  BY DEF IInv, Good, Tables, Slots
<1> HIDE DEF t
<1>7. ASSUME NEW f
      PROVE  Cardinality(UsedBy(t, ofds, f))
               = Cardinality(UsedBy(table, ofds, f)) + Cardinality(Referring(p, f))
  <2>1. UsedBy(t, ofds, f) = UsedBy(table, ofds, f) \cup ({c} \X Referring(p, f))
    BY <1>6 DEF UsedBy, Referring, Slots
  <2>2. UsedBy(table, ofds, f) \cap ({c} \X Referring(p, f)) = {}
    BY <1>6 DEF UsedBy, Referring, Slots
  <2>3. /\ IsFiniteSet({c} \X Referring(p, f))
        /\ Cardinality({c} \X Referring(p, f)) = Cardinality(Referring(p, f))
    <3>1. IsFiniteSet({c}) /\ Cardinality({c}) = 1
      BY FS_Singleton
    <3>2. Cardinality({c} \X Referring(p, f)) = 1 * Cardinality(Referring(p, f))
      BY <1>2, <3>1, FS_Product
    <3> QED BY <1>2, <3>1, <3>2, FS_Product
  <2>4. Cardinality(UsedBy(t, ofds, f))
          = Cardinality(UsedBy(table, ofds, f)) + Cardinality(Referring(p, f))
              - Cardinality(UsedBy(table, ofds, f) \cap ({c} \X Referring(p, f)))
    BY <2>1, <2>3, UsedFinite, FS_Union
  <2>5. Cardinality(UsedBy(table, ofds, f) \cap ({c} \X Referring(p, f))) = 0
    BY <2>2, FS_EmptySet
  <2> QED BY <1>2, <2>4, <2>5, UsedFinite
<1>8. Tables(t, ofds)
  <2>1. ASSUME NEW q \in Processes, NEW fd \in Fds, t[q][fd] # None
        PROVE  t[q][fd] \in DOMAIN ofds
    BY <1>6, <2>1 DEF IInv, Good, Tables
  <2> QED BY <1>6, <2>1 DEF IInv, Good, Tables
<1>9. Counted(u, t, ofds)
  <2>1. ASSUME NEW q \in Processes, NEW fd \in Fds, t[q][fd] # None
        PROVE  ofds[t[q][fd]].file \in DOMAIN fs.files
    BY <1>6, <2>1 DEF IInv, Good, Counted
  <2>2. \A f \in DOMAIN fs.files : F[f].refs = Cardinality(UsedBy(t, ofds, f))
    BY <1>3, <1>7 DEF IInv, Good, Counted
  <2> QED BY <1>4, <1>5, <2>1, <2>2 DEF Counted
<1>10. Orphaned(u, {}) /\ Directory(u) /\ Connected(u, {})
  <2>1. \A f \in fs.orphans : f \in DOMAIN fs.files /\ fs.files[f].refs > 0
    BY DEF IInv, Good, Orphaned
  <2>2. \A f \in DOMAIN fs.files : fs.files[f].refs \in Nat
    BY DEF IInv, Good, Shape, File
  <2>3. \A f \in fs.orphans \ {} : u.files[f].refs > 0
    BY <1>2, <1>3, <1>5, <2>1, <2>2
  <2> QED BY <1>3, <1>4, <1>5, <2>3, AlikeKeeps DEF IInv, Good
<1>11. Lasting(fs, u)
  <2>1. \A f \in DOMAIN fs.files : fs.files[f].refs \in Nat
    BY DEF IInv, Good, Shape, File
  <2>2. \A f \in DOMAIN fs.files : fs.files[f].refs > 0 => F[f].refs > 0
    BY <1>2, <1>3, <2>1
  <2> QED BY <1>3, <1>4, <1>5, <2>2 DEF Lasting, Alike
<1> QED BY <1>5, <1>8, <1>9, <1>10, <1>11 DEF Good, t

(* FS::fcntl: the flags of a description. *)
LEMMA FlagsGood ==
  ASSUME NEW s, NEW tab, NEW o, Good(s, tab, o, {}), NEW a \in DOMAIN o,
         NEW nonblock \in BOOLEAN
  PROVE  Good(s, tab, [o EXCEPT ![a].nonblock = nonblock], {})
<1> DEFINE w == [o EXCEPT ![a].nonblock = nonblock]
<1>1. \A b \in DOMAIN o : o[b] \in [file : FileIds, nonblock : BOOLEAN]
  BY DEF Good, Tables
<1>2. /\ DOMAIN w = DOMAIN o
      /\ \A b \in DOMAIN o : /\ w[b] \in [file : FileIds, nonblock : BOOLEAN]
                             /\ w[b].file = o[b].file
  BY <1>1
<1> HIDE DEF w
<1>3. Tables(tab, w)
  BY <1>2 DEF Good, Tables
<1>4. \A q \in Processes, d \in Fds :
        tab[q][d] # None => w[tab[q][d]].file = o[tab[q][d]].file
  BY <1>2 DEF Good, Tables
<1>5. \A g : UsedBy(tab, w, g) = UsedBy(tab, o, g)
  BY <1>4 DEF UsedBy
<1>6. Counted(s, tab, w)
  BY <1>4, <1>5 DEF Good, Counted
<1> QED BY <1>3, <1>6 DEF Good, w

(* Epoll: the interest list of a file. *)
LEMMA InterestGood ==
  ASSUME NEW s, NEW tab, NEW o, Good(s, tab, o, {}), NEW e \in DOMAIN s.files,
         NEW list \in SUBSET (Addresses \cup {None})
  PROVE  LET u == [s EXCEPT !.files[e].interest = list] IN
         Good(u, tab, o, {}) /\ u.pipes = s.pipes
<1> DEFINE r == [s.files[e] EXCEPT !.interest = list]
           u == [s EXCEPT !.files[e].interest = list]
<1>1. s.files[e] \in File
  BY DEF Good, Shape
<1>2. r \in File /\ Alike(r, s.files[e]) /\ r.refs = s.files[e].refs
        /\ r.doomed = s.files[e].doomed
  BY <1>1 DEF File, Alike
<1>3. u = [s EXCEPT !.files[e] = r]
  OBVIOUS
<1> HIDE DEF r, u
<1>4. /\ Shape(u)
      /\ u.entries = s.entries /\ u.orphans = s.orphans /\ u.pipes = s.pipes
      /\ DOMAIN u.files = DOMAIN s.files
      /\ u.files[e] = r
      /\ \A g \in DOMAIN s.files \ {e} : u.files[g] = s.files[g]
  BY <1>2, <1>3, Changed DEF Good
<1>5. \A g \in DOMAIN s.files : /\ Alike(u.files[g], s.files[g])
                                /\ u.files[g].refs = s.files[g].refs
                                /\ s.files[g].doomed => u.files[g].doomed
  BY <1>2, <1>4 DEF Alike
<1>6. \A g \in s.orphans \ {} : u.files[g].refs > 0
  BY <1>5 DEF Good, Orphaned
<1>7. Orphaned(u, {}) /\ Directory(u) /\ Connected(u, {})
  BY <1>4, <1>5, <1>6, AlikeKeeps DEF Good
<1>8. Counted(u, tab, o)
  BY <1>4, <1>5 DEF Good, Counted
<1> QED BY <1>4, <1>7, <1>8 DEF Good, u

(* Pipe::read and Pipe::write: the bytes of a pipe. *)
LEMMA BytesGood ==
  ASSUME NEW s, NEW tab, NEW o, Good(s, tab, o, {}), NEW i \in DOMAIN s.pipes,
         NEW b \in 0..MaxBytes
  PROVE  LET u == [s EXCEPT !.pipes[i].bytes = b] IN
         /\ Good(u, tab, o, {})
         /\ DOMAIN u.pipes = DOMAIN s.pipes /\ u.pipes[i].bytes = b
         /\ \A j \in DOMAIN s.pipes \ {i} : u.pipes[j] = s.pipes[j]
<1> DEFINE q == [s.pipes[i] EXCEPT !.bytes = b]
           P == [s.pipes EXCEPT ![i] = q]
           u == [s EXCEPT !.pipes[i].bytes = b]
<1>1. s.pipes[i] \in Pipe
  BY DEF Good, Shape
<1>2. q \in Pipe /\ q.bytes = b /\ q.readers = s.pipes[i].readers
        /\ q.writers = s.pipes[i].writers
  BY <1>1 DEF Pipe
<1>3. u = [s EXCEPT !.pipes = P]
  OBVIOUS
<1> HIDE DEF q
<1>4. DOMAIN P = DOMAIN s.pipes /\ P[i] = q /\ \A j \in DOMAIN P \ {i} : P[j] = s.pipes[j]
  OBVIOUS
<1> HIDE DEF P, u
<1>5. /\ Shape(u) /\ u.pipes = P
      /\ u.files = s.files /\ u.entries = s.entries /\ u.orphans = s.orphans
  <2>1. DOMAIN P \subseteq Addresses /\ \A j \in DOMAIN P : P[j] \in Pipe
    BY <1>2, <1>4 DEF Good, Shape
  <2> QED BY <1>3, <2>1, PipesChanged DEF Good
<1>6. \A j \in DOMAIN P : P[j].readers = s.pipes[j].readers
                          /\ P[j].writers = s.pipes[j].writers
  BY <1>2, <1>4
<1>7. Connected(u, {})
  BY <1>4, <1>5, <1>6 DEF Good, Connected
<1>8. Counted(u, tab, o) /\ Orphaned(u, {}) /\ Directory(u)
  <2>1. Counted(s, tab, o) /\ Orphaned(s, {}) /\ Directory(s)
    BY DEF Good
  <2> QED BY <1>5, <2>1, SameKeeps
<1> QED BY <1>2, <1>4, <1>5, <1>7, <1>8 DEF Good, u

-----------------------------------------------------------------------------
(* The files after each slot of closeAll exist: a least slot up to which   *)
(* they do not would follow one up to which they do.                       *)
Closes(p, k, g) ==
  g = [i \in 0..k |-> IF i = 0 THEN fs ELSE ClosedSlot(g[i - 1], p, i - 1)]

LEMMA ClosesExists ==
  ASSUME NEW p, NEW k \in Nat
  PROVE  \E g : Closes(p, k, g)
<1> DEFINE S == {n \in Nat : ~ \E g : Closes(p, n, g)}
<1>1. SUFFICES ASSUME S # {} PROVE FALSE
  OBVIOUS
<1>2. Least(S) \in S /\ \A n \in S : Least(S) <= n
  BY <1>1, LeastExists
<1> DEFINE n == Least(S)
<1> HIDE DEF n
<1>3. n \in Nat /\ ~ \E g : Closes(p, n, g)
  BY <1>2 DEF n
<1>4. CASE n = 0
  <2> DEFINE g == [i \in 0..0 |-> fs]
  <2>1. Closes(p, 0, g)
    BY DEF Closes
  <2> QED BY <1>3, <1>4, <2>1
<1>5. CASE n # 0
  <2>1. n - 1 \in Nat /\ n - 1 \notin S
    <3>1. n - 1 \in Nat /\ ~(n <= n - 1)
      BY <1>3, <1>5
    <3> QED BY <1>2, <3>1 DEF n
  <2>2. PICK g : Closes(p, n - 1, g)
    BY <2>1
  <2> DEFINE h == [i \in 0..n |-> IF i = n THEN ClosedSlot(g[n - 1], p, n - 1) ELSE g[i]]
  <2>3. DOMAIN h = 0..n /\ \A i \in 0..n - 1 : h[i] = g[i]
    BY <1>3, <1>5
  <2>4. h[n] = ClosedSlot(h[n - 1], p, n - 1)
    BY <1>3, <1>5
  <2>5. \A i \in 0..n - 1 : g[i] = IF i = 0 THEN fs ELSE ClosedSlot(g[i - 1], p, i - 1)
    BY <1>3, <2>2 DEF Closes
  <2>6. h = [i \in 0..n |-> h[i]]
    OBVIOUS
  <2> HIDE DEF h
  <2>7. ASSUME NEW i \in 0..n
        PROVE  h[i] = IF i = 0 THEN fs ELSE ClosedSlot(h[i - 1], p, i - 1)
    <3>1. CASE i = n
      BY <1>5, <2>4, <3>1
    <3>2. CASE i # n
      <4>1. i \in 0..n - 1 /\ (i # 0 => i - 1 \in 0..n - 1)
        BY <1>3, <3>2
      <4> QED BY <2>3, <2>5, <4>1
    <3> QED BY <3>1, <3>2
  <2>8. Closes(p, n, h)
    BY <2>6, <2>7 DEF Closes
  <2> QED BY <1>3, <2>8
<1> QED BY <1>4, <1>5

LEMMA ClosedBeforeSteps ==
  ASSUME NEW p
  PROVE  /\ ClosedBefore(p)[0] = fs
         /\ \A i \in 0..MaxFd :
              ClosedBefore(p)[i + 1] = ClosedSlot(ClosedBefore(p)[i], p, i)
<1> DEFINE to == ClosedBefore(p)
<1>1. MaxFd \in Nat /\ MaxFd + 1 \in Nat
  BY BoundsAssumption
<1>2. \E g : g = [i \in 0..MaxFd + 1 |->
                    IF i = 0 THEN fs ELSE ClosedSlot(g[i - 1], p, i - 1)]
  BY <1>1, ClosesExists DEF Closes
<1>3. to = [i \in 0..MaxFd + 1 |->
              IF i = 0 THEN fs ELSE ClosedSlot(to[i - 1], p, i - 1)]
  BY <1>2 DEF ClosedBefore
<1> HIDE DEF to
<1>4. to[0] = fs
  BY <1>1, <1>3
<1>5. ASSUME NEW i \in 0..MaxFd
      PROVE  to[i + 1] = ClosedSlot(to[i], p, i)
  <2>1. i + 1 \in 0..MaxFd + 1 /\ i + 1 # 0 /\ (i + 1) - 1 = i
    BY <1>1
  <2>2. to[i + 1] = ClosedSlot(to[(i + 1) - 1], p, (i + 1) - 1)
    BY <1>3, <2>1
  <2> QED BY <2>1, <2>2
<1> QED BY <1>4, <1>5 DEF to

(* The table of p when the slots below k are closed. *)
Erased(p, k) ==
  [table EXCEPT ![p] = [fd \in Fds |-> IF fd < k THEN None ELSE table[p][fd]]]
ClosedUpTo(p, k) ==
  Good(ClosedBefore(p)[k], Erased(p, k), ofds, {}) /\ BytesKept(fs, ClosedBefore(p)[k])

LEMMA SlotClosed ==
  ASSUME IInv, NEW p \in Processes, NEW k \in 0..MaxFd, ClosedUpTo(p, k)
  PROVE  ClosedUpTo(p, k + 1)
<1> DEFINE s == ClosedBefore(p)[k]
           t == Erased(p, k)
           u == Erased(p, k + 1)
<1>1. ClosedBefore(p)[k + 1] = ClosedSlot(s, p, k)
  BY ClosedBeforeSteps
<1>2. /\ k \in Fds /\ t[p][k] = table[p][k]
      /\ \A fd \in Fds : ~(k + 1 <= 0) /\ (fd < k + 1 <=> fd < k \/ fd = k)
      /\ table \in [Processes -> [Fds -> Addresses \cup {None}]]
  BY BoundsAssumption DEF Fds, Erased, IInv, Good, Tables
<1>3. Good(s, t, ofds, {}) /\ BytesKept(fs, s)
  BY DEF ClosedUpTo
<1>4. CASE table[p][k] = None
  <2>1. u = t
    <3>1. \A fd \in Fds : (IF fd < k + 1 THEN None ELSE table[p][fd])
                          = (IF fd < k THEN None ELSE table[p][fd])
      BY <1>2, <1>4
    <3>2. [fd \in Fds |-> IF fd < k + 1 THEN None ELSE table[p][fd]]
          = [fd \in Fds |-> IF fd < k THEN None ELSE table[p][fd]]
      BY <3>1
    <3> QED BY <3>2 DEF Erased
  <2>2. ClosedBefore(p)[k + 1] = s
    BY <1>1, <1>4 DEF ClosedSlot
  <2> HIDE DEF s, t, u
  <2> QED BY <1>3, <2>1, <2>2 DEF ClosedUpTo, t, u
<1>5. CASE table[p][k] # None
  <2>1. u = Cleared(t, p, k)
    <3> DEFINE A == [fd \in Fds |-> IF fd < k THEN None ELSE table[p][fd]]
               B == [fd \in Fds |-> IF fd < k + 1 THEN None ELSE table[p][fd]]
    <3>1. B = [A EXCEPT ![k] = None]
      BY <1>2
    <3>2. t = [table EXCEPT ![p] = A] /\ u = [table EXCEPT ![p] = B]
      BY DEF Erased
    <3> HIDE DEF A, B, t, u
    <3>3. Cleared(t, p, k) = [table EXCEPT ![p] = [A EXCEPT ![k] = None]]
      BY <1>2, <3>2 DEF Cleared
    <3> QED BY <3>1, <3>2, <3>3
  <2>2. ClosedBefore(p)[k + 1] = Closed(s, ofds[t[p][k]].file)
    BY <1>1, <1>2, <1>5 DEF ClosedSlot
  <2> HIDE DEF s, t, u
  <2>3. /\ Good(Closed(s, ofds[t[p][k]].file), Cleared(t, p, k), ofds, {})
        /\ BytesKept(s, Closed(s, ofds[t[p][k]].file))
    BY <1>2, <1>3, <1>5, ClosedGood
  <2>4. BytesKept(fs, ClosedBefore(p)[k + 1])
    BY <1>3, <2>2, <2>3 DEF BytesKept
  <2> QED BY <2>1, <2>2, <2>3, <2>4 DEF ClosedUpTo, u
<1> QED BY <1>4, <1>5

LEMMA SlotsClosed ==
  ASSUME IInv, NEW p \in Processes
  PROVE  \A k \in 0..MaxFd + 1 : ClosedUpTo(p, k)
<1>1. MaxFd \in Nat
  BY BoundsAssumption
<1>2. ClosedUpTo(p, 0)
  <2>1. \A fd \in Fds : ~(fd < 0)
    BY <1>1 DEF Fds
  <2>2. [fd \in Fds |-> IF fd < 0 THEN None ELSE table[p][fd]] = table[p]
    BY <2>1 DEF IInv, Good, Tables
  <2>3. Erased(p, 0) = table
    BY <2>2 DEF Erased, IInv, Good, Tables
  <2> QED BY <2>3, ClosedBeforeSteps DEF ClosedUpTo, IInv, BytesKept
<1> DEFINE S == {k \in 0..MaxFd + 1 : ~ClosedUpTo(p, k)}
<1>3. S = {}
  <2>1. SUFFICES ASSUME S # {} PROVE FALSE
    OBVIOUS
  <2>2. S \subseteq Nat
    BY <1>1
  <2>3. Least(S) \in S /\ \A k \in S : Least(S) <= k
    BY <2>1, <2>2, LeastExists
  <2> DEFINE m == Least(S)
  <2> HIDE DEF m
  <2>4. m \in 0..MaxFd + 1 /\ m # 0 /\ ~ClosedUpTo(p, m)
    BY <1>2, <2>3 DEF m
  <2>5. m - 1 \in 0..MaxFd /\ (m - 1) + 1 = m /\ ~(m <= m - 1) /\ m - 1 \in 0..MaxFd + 1
    BY <1>1, <2>4
  <2>6. ClosedUpTo(p, m - 1)
    BY <2>3, <2>5 DEF m
  <2>7. ClosedUpTo(p, (m - 1) + 1)
    BY <2>5, <2>6, SlotClosed
  <2> QED BY <2>4, <2>5, <2>7
<1> QED BY <1>3

LEMMA ExitGood ==
  ASSUME IInv, NEW p \in Processes
  PROVE  /\ Good(ClosedAll(p), [table EXCEPT ![p] = [fd \in Fds |-> None]], ofds, {})
         /\ BytesKept(fs, ClosedAll(p))
<1>1. MaxFd \in Nat
  BY BoundsAssumption
<1>2. ClosedUpTo(p, MaxFd + 1)
  BY <1>1, SlotsClosed
<1>3. Erased(p, MaxFd + 1) = [table EXCEPT ![p] = [fd \in Fds |-> None]]
  <2>1. \A fd \in Fds : fd < MaxFd + 1
    BY <1>1 DEF Fds
  <2>2. [fd \in Fds |-> IF fd < MaxFd + 1 THEN None ELSE table[p][fd]]
        = [fd \in Fds |-> None]
    BY <2>1
  <2> QED BY <2>2 DEF Erased
<1> QED BY <1>2, <1>3 DEF ClosedUpTo, ClosedAll

-----------------------------------------------------------------------------
(* What every step keeps: IInv, and the bytes of the pipes that nobody can *)
(* write to.                                                               *)
BytesStep ==
  \A i \in DOMAIN fs.pipes \cap DOMAIN fs'.pipes :
    fs.pipes[i].writers = {} => fs'.pipes[i].bytes <= fs.pipes[i].bytes

LEMMA BecomesGood ==
  ASSUME NEW s, NEW tab, NEW o, Good(s, tab, o, {}), Becomes(s, tab, o)
  PROVE  IInv' /\ fs' = s
<1>1. Good(s, tab, Live(o, tab), {})
  BY LiveGood
<1>2. DOMAIN Live(o, tab) \subseteq Referred(tab)
  BY DEF Live
<1>3. fs' = s /\ table' = tab /\ ofds' = Live(o, tab)
  BY DEF Becomes
<1>4. DOMAIN ofds' \subseteq Referred(table')
  BY <1>2, <1>3
<1>5. Referred(table)' = Referred(table')
  BY DEF Referred
<1> QED BY <1>1, <1>3, <1>4, <1>5 DEF IInv

LEMMA BytesKeptStep ==
  ASSUME IInv, BytesKept(fs, fs')
  PROVE  BytesStep
<1>1. \A i \in DOMAIN fs.pipes : fs.pipes[i].bytes \in Nat
  BY BoundsAssumption DEF IInv, Good, Shape, Pipe
<1> QED BY <1>1 DEF BytesKept, BytesStep

LEMMA ProcessKnown ==
  ASSUME IInv, NEW t \in Threads
  PROVE  /\ ProcessOf[t] \in Processes
         /\ FreeFds(t) \subseteq Fds /\ FreeFds(t) \subseteq Nat
         /\ \A fd \in Fds : fd \in FreeFds(t) <=> table[ProcessOf[t]][fd] = None
         /\ \A fd \in Fds \ FreeFds(t) :
              /\ FdsOf(t)[fd] \in DOMAIN ofds
              /\ ofds[FdsOf(t)[fd]].file \in DOMAIN fs.files
<1>1. ProcessOf[t] \in Processes
  BY ThreadsAssumption
<1>2. FreeFds(t) \subseteq Fds /\ FreeFds(t) \subseteq Nat
  BY BoundsAssumption DEF FreeFds, Fds
<1>3. \A fd \in Fds : fd \in FreeFds(t) <=> table[ProcessOf[t]][fd] = None
  BY DEF FreeFds, FdsOf
<1>4. Tables(table, ofds) /\ Counted(fs, table, ofds)
  BY DEF IInv, Good
<1>5. \A fd \in Fds \ FreeFds(t) :
        /\ FdsOf(t)[fd] \in DOMAIN ofds
        /\ ofds[FdsOf(t)[fd]].file \in DOMAIN fs.files
  BY <1>1, <1>3, <1>4 DEF FdsOf, Tables, Counted
<1> QED BY <1>1, <1>2, <1>3, <1>5

(* allocateFd *)
LEMMA FreeFd ==
  ASSUME IInv, NEW t \in Threads, FreeFds(t) # {}
  PROVE  /\ Least(FreeFds(t)) \in Fds /\ Least(FreeFds(t)) \in FreeFds(t)
         /\ table[ProcessOf[t]][Least(FreeFds(t))] = None
BY ProcessKnown, LeastExists

LEMMA OpenStep ==
  ASSUME IInv, NEW t \in Threads, Open(t)
  PROVE  IInv' /\ BytesStep
<1> DEFINE p == ProcessOf[t]
<1>1. PICK n \in Names, writing \in BOOLEAN, create \in BOOLEAN, a \in Addresses :
        LET known == Named(fs, n)
            kind == IF writing \/ create THEN "shadow" ELSE "host"
        IN IF known # None THEN Opened(t, fs, known, a)
           ELSE /\ n \in OnHost \/ create
                /\ FreeNodes(fs) # {}
                /\ LET f == Least(FreeNodes(fs)) IN
                     Opened(t, InDirectory(fs, f, kind, n), f, a)
  BY DEF Open
<1>2. \E s, f : /\ Opened(t, s, f, a) /\ Good(s, table, ofds, {})
                /\ f \in DOMAIN s.files \cap Nodes /\ s.pipes = fs.pipes
  <2>1. CASE Named(fs, n) # None
    <3>1. fs.entries[n] # <<>> /\ Named(fs, n) = Head(fs.entries[n])
      BY <2>1 DEF Named
    <3>2. Named(fs, n) \in DOMAIN fs.files \cap Nodes
      BY <3>1, EntryKnown DEF IInv
    <3> QED BY <1>1, <2>1, <3>2 DEF IInv
  <2>2. CASE Named(fs, n) = None
    <3> DEFINE kind == IF writing \/ create THEN "shadow" ELSE "host"
               f == Least(FreeNodes(fs))
               s == InDirectory(fs, f, kind, n)
    <3>1. Opened(t, s, f, a) /\ FreeNodes(fs) # {}
      BY <1>1, <2>2
    <3>2. f \in Nodes /\ f \notin DOMAIN fs.files
      BY <3>1, LeastExists, PoolsAssumption DEF FreeNodes
    <3>3. kind \in {"shadow", "host"}
      OBVIOUS
    <3> HIDE DEF kind, f
    <3>4. s = InDirectory(fs, f, kind, n)
      OBVIOUS
    <3> HIDE DEF s
    <3>5. Good(s, table, ofds, {}) /\ f \in DOMAIN s.files /\ s.pipes = fs.pipes
      BY <3>2, <3>3, <3>4, InDirectoryGood DEF IInv
    <3> QED BY <3>1, <3>2, <3>5
  <2> QED BY <2>1, <2>2
<1>3. PICK s, f : /\ Opened(t, s, f, a) /\ Good(s, table, ofds, {})
                  /\ f \in DOMAIN s.files \cap Nodes /\ s.pipes = fs.pipes
  BY <1>2
<1>4. /\ FreeFds(t) # {} /\ a \in Addresses \ DOMAIN ofds
      /\ Becomes(Ref(s, f), [table EXCEPT ![p][Least(FreeFds(t))] = a],
                 With(ofds, a, [file |-> f, nonblock |-> FALSE]))
  BY <1>3 DEF Opened, NewAddress, FreeAddresses
<1>5. /\ Good(Ref(s, f), [table EXCEPT ![p][Least(FreeFds(t))] = a],
              With(ofds, a, [file |-> f, nonblock |-> FALSE]), {})
      /\ Ref(s, f).pipes = s.pipes
  BY <1>3, <1>4, FreeFd, ProcessKnown, NodeOpenedGood
<1>6. IInv' /\ fs' = Ref(s, f)
  BY <1>4, <1>5, BecomesGood
<1>7. BytesKept(fs, fs')
  BY <1>3, <1>5, <1>6 DEF BytesKept
<1> QED BY <1>6, <1>7, BytesKeptStep

LEMMA OrphanStep ==
  ASSUME IInv, NEW t \in Threads, MemfdCreate(t) \/ EpollCreate(t)
  PROVE  IInv' /\ BytesStep
<1> DEFINE p == ProcessOf[t]
<1>1. \E v, a : /\ a \in Addresses /\ Inserted(fs, a, v) /\ Opened(t, v, a, a)
  <2>1. CASE MemfdCreate(t)
    BY <2>1 DEF MemfdCreate, Inserted
  <2>2. CASE EpollCreate(t)
    BY <2>2 DEF EpollCreate, Inserted
  <2> QED BY <2>1, <2>2
<1>2. PICK v, a : a \in Addresses /\ Inserted(fs, a, v) /\ Opened(t, v, a, a)
  BY <1>1
<1> DEFINE w == With(ofds, a, [file |-> a, nonblock |-> FALSE])
           fd == Least(FreeFds(t))
<1>3. /\ FreeFds(t) # {} /\ a \in Addresses \ DOMAIN ofds
      /\ Becomes(Ref(v, a), [table EXCEPT ![p][fd] = a], w)
  BY <1>2 DEF Opened, NewAddress, FreeAddresses
<1>4. /\ Good(Ref(v, a), [table EXCEPT ![p][fd] = a], w, {})
      /\ Ref(v, a).pipes = fs.pipes
  <2>1. p \in Processes /\ fd \in Fds /\ table[p][fd] = None
    BY <1>3, FreeFd, ProcessKnown
  <2>2. Described(ofds, a, a, w)
    BY DEF Described
  <2> HIDE DEF p, fd, w
  <2> QED BY <1>2, <1>3, <2>1, <2>2, OrphanOpenedGood DEF IInv
<1> HIDE DEF w
<1>5. IInv' /\ fs' = Ref(v, a)
  BY <1>3, <1>4, BecomesGood
<1>6. BytesKept(fs, fs')
  BY <1>4, <1>5 DEF BytesKept
<1> QED BY <1>5, <1>6, BytesKeptStep

LEMMA CloseStep ==
  ASSUME IInv, NEW t \in Threads, CloseFd(t)
  PROVE  IInv' /\ BytesStep
<1> DEFINE p == ProcessOf[t]
<1>1. PICK fd \in Fds \ FreeFds(t) :
        Becomes(Closed(fs, ofds[table[p][fd]].file), [table EXCEPT ![p][fd] = None], ofds)
  BY DEF CloseFd, FdsOf
<1>2. /\ Good(Closed(fs, ofds[table[p][fd]].file), Cleared(table, p, fd), ofds, {})
      /\ BytesKept(fs, Closed(fs, ofds[table[p][fd]].file))
  BY ProcessKnown, ClosedGood DEF IInv
<1> QED BY <1>1, <1>2, BecomesGood, BytesKeptStep DEF Cleared

LEMMA DupStep ==
  ASSUME IInv, NEW t \in Threads, Dup(t)
  PROVE  IInv' /\ BytesStep
<1> DEFINE p == ProcessOf[t]
           new == Least(FreeFds(t))
<1>1. PICK fd \in Fds \ FreeFds(t) :
        Becomes(Ref(fs, ofds[table[p][fd]].file),
                [table EXCEPT ![p][new] = table[p][fd]], ofds)
  BY DEF Dup, FdsOf
<1>2. /\ p \in Processes /\ new \in Fds /\ table[p][new] = None
      /\ table[p][fd] \in DOMAIN ofds /\ ofds[table[p][fd]].file \in DOMAIN fs.files
  BY ProcessKnown, FreeFd DEF Dup, FdsOf
<1> HIDE DEF p, new
<1>3. /\ Good(Ref(fs, ofds[table[p][fd]].file), [table EXCEPT ![p][new] = table[p][fd]],
              ofds, {})
      /\ Ref(fs, ofds[table[p][fd]].file).pipes = fs.pipes
  BY <1>2, TakenGood DEF IInv
<1>4. IInv' /\ fs' = Ref(fs, ofds[table[p][fd]].file)
  BY <1>1, <1>3, BecomesGood
<1> QED BY <1>3, <1>4, BytesKeptStep DEF BytesKept

LEMMA Dup2Step ==
  ASSUME IInv, NEW t \in Threads, Dup2(t)
  PROVE  IInv' /\ BytesStep
<1> DEFINE p == ProcessOf[t]
<1>1. PICK old \in Fds \ FreeFds(t) : \E new \in Fds \ {old} :
        LET s == IF new \in FreeFds(t) THEN fs
                 ELSE Closed(fs, ofds[table[p][new]].file)
        IN Becomes(Ref(s, ofds[table[p][old]].file),
                   [table EXCEPT ![p][new] = table[p][old]], ofds)
  BY DEF Dup2, FdsOf
<1>0. PICK new \in Fds \ {old} :
        LET s == IF new \in FreeFds(t) THEN fs
                 ELSE Closed(fs, ofds[table[p][new]].file)
        IN Becomes(Ref(s, ofds[table[p][old]].file),
                   [table EXCEPT ![p][new] = table[p][old]], ofds)
  BY <1>1
<1> DEFINE a == table[p][old]
           s == IF new \in FreeFds(t) THEN fs ELSE Closed(fs, ofds[table[p][new]].file)
           c == Cleared(table, p, new)
<1>2. /\ p \in Processes /\ a \in DOMAIN ofds
      /\ new \in FreeFds(t) <=> table[p][new] = None
      /\ a # None
  BY ProcessKnown DEF FdsOf
<1>3. table \in [Processes -> [Fds -> Addresses \cup {None}]]
  BY DEF IInv, Good, Tables
<1>4. Good(s, c, ofds, {}) /\ BytesKept(fs, s)
  <2>1. CASE table[p][new] = None
    <3>1. c = table
      BY <1>2, <1>3, <2>1 DEF Cleared
    <3> QED BY <1>2, <2>1, <3>1 DEF IInv, BytesKept
  <2>2. CASE table[p][new] # None
    BY <1>2, <2>2, ClosedGood DEF IInv
  <2> QED BY <2>1, <2>2
<1>5. c[p][new] = None /\ c[p][old] = a
  BY <1>2, <1>3 DEF Cleared
<1>6. [c EXCEPT ![p][new] = a] = [table EXCEPT ![p][new] = a]
  BY <1>2, <1>3 DEF Cleared
<1> HIDE DEF p, a, s, c
<1>7. ofds[a].file \in DOMAIN s.files
  BY <1>2, <1>4, <1>5 DEF Good, Counted
<1>8. /\ Good(Ref(s, ofds[a].file), [c EXCEPT ![p][new] = a], ofds, {})
      /\ Ref(s, ofds[a].file).pipes = s.pipes
  <2> DEFINE f == ofds[a].file
             u == Ref(s, f)
             q == [c EXCEPT ![p][new] = a]
  <2>1. p \in Processes /\ new \in Fds /\ a \in DOMAIN ofds /\ c[p][new] = None
        /\ Good(s, c, ofds, {}) /\ f \in DOMAIN s.files /\ ofds[a].file = f
    BY <1>2, <1>4, <1>5, <1>7
  <2>2. TakenBy(s, f, c, p, new, a, u, q)
    BY DEF TakenBy
  <2> HIDE DEF f, u, q
  <2>3. MayTake(s, f, c, p, new, a, u, q, ofds, {})
    BY <2>1, <2>2 DEF MayTake
  <2>4. Good(u, q, ofds, {}) /\ u.pipes = s.pipes
    BY <2>3, SlotTaken
  <2> QED BY <2>4 DEF u, q, f
<1>9. Becomes(Ref(s, ofds[a].file), [table EXCEPT ![p][new] = a], ofds)
  BY <1>0 DEF s, a
<1>10. IInv' /\ fs' = Ref(s, ofds[a].file)
  BY <1>6, <1>8, <1>9, BecomesGood
<1> QED BY <1>4, <1>8, <1>10, BytesKeptStep DEF BytesKept

LEMMA RenameStep ==
  ASSUME IInv, NEW t \in Threads, Rename(t)
  PROVE  IInv' /\ BytesStep
<1>1. PICK old \in Names, new \in Names :
        /\ Named(fs, old) # None
        /\ LET f == Named(fs, old)
               taken == [fs EXCEPT !.entries[old] = Tail(@)]
           IN Becomes([taken EXCEPT !.entries[new] = Append(@, f),
                                    !.files[f].name = new], table, ofds)
  BY DEF Rename
<1>2. fs.entries[old] # <<>> /\ Named(fs, old) = Head(fs.entries[old])
  BY <1>1 DEF Named
<1>3. \E u : Renamed(fs, old, new, u) /\ Becomes(u, table, ofds)
  BY <1>1, <1>2 DEF Renamed
<1>4. PICK u : Renamed(fs, old, new, u) /\ Becomes(u, table, ofds)
  BY <1>3
<1>5. Good(u, table, ofds, {}) /\ u.pipes = fs.pipes
  BY <1>2, <1>4, RenamedGood DEF IInv
<1> QED BY <1>4, <1>5, BecomesGood, BytesKeptStep DEF BytesKept

LEMMA UnlinkStep ==
  ASSUME IInv, NEW t \in Threads, Unlink(t)
  PROVE  IInv' /\ BytesStep
<1>1. PICK n \in Names : Becomes(Unlinked(fs, n), table, ofds)
  BY DEF Unlink
<1>2. Good(Unlinked(fs, n), table, ofds, {}) /\ Unlinked(fs, n).pipes = fs.pipes
  BY UnlinkedGood DEF IInv
<1>3. IInv' /\ fs' = Unlinked(fs, n)
  BY <1>1, <1>2, BecomesGood
<1> QED BY <1>2, <1>3, BytesKeptStep DEF BytesKept

LEMMA NonblockStep ==
  ASSUME IInv, NEW t \in Threads, SetNonblock(t)
  PROVE  IInv' /\ BytesStep
<1>1. PICK fd \in Fds \ FreeFds(t), nonblock \in BOOLEAN :
        ofds' = [ofds EXCEPT ![FdsOf(t)[fd]].nonblock = nonblock]
  BY DEF SetNonblock
<1>2. FdsOf(t)[fd] \in DOMAIN ofds
  BY ProcessKnown
<1>3. Good(fs, table, [ofds EXCEPT ![FdsOf(t)[fd]].nonblock = nonblock], {})
  BY <1>2, FlagsGood DEF IInv
<1>4. fs' = fs /\ table' = table
  BY DEF SetNonblock
<1>5. DOMAIN ofds' = DOMAIN ofds
  BY <1>1
<1>6. IInv'
  BY <1>1, <1>3, <1>4, <1>5 DEF IInv, Referred
<1> QED BY <1>4, <1>6, BytesKeptStep DEF BytesKept

LEMMA ForkStep ==
  ASSUME IInv, NEW t \in Threads, Fork(t)
  PROVE  IInv' /\ BytesStep
<1> DEFINE p == ProcessOf[t]
<1>1. PICK c \in Processes \ running :
        /\ Slots(c) = {}
        /\ Becomes([fs EXCEPT !.files = RefsCopied(p)], [table EXCEPT ![c] = table[p]], ofds)
  BY DEF Fork
<1>2. p \in Processes /\ p # c
  BY ProcessKnown DEF Fork, Can
<1> HIDE DEF p
<1>3. \E u : /\ FilesSet(fs, RefsCopied(p), u)
             /\ Becomes(u, [table EXCEPT ![c] = table[p]], ofds)
  BY <1>1 DEF FilesSet
<1>4. PICK u : /\ FilesSet(fs, RefsCopied(p), u)
               /\ Becomes(u, [table EXCEPT ![c] = table[p]], ofds)
  BY <1>3
<1>5. Good(u, [table EXCEPT ![c] = table[p]], ofds, {}) /\ u.pipes = fs.pipes
  BY <1>1, <1>2, <1>4, ForkGood
<1> QED BY <1>4, <1>5, BecomesGood, BytesKeptStep DEF BytesKept

LEMMA ExitStep ==
  ASSUME IInv, NEW t \in Threads, Exit(t)
  PROVE  IInv' /\ BytesStep
<1> DEFINE p == ProcessOf[t]
<1>1. Becomes(ClosedAll(p), [table EXCEPT ![p] = [fd \in Fds |-> None]], ofds)
  BY DEF Exit
<1>2. /\ Good(ClosedAll(p), [table EXCEPT ![p] = [fd \in Fds |-> None]], ofds, {})
      /\ BytesKept(fs, ClosedAll(p))
  BY ProcessKnown, ExitGood
<1> QED BY <1>1, <1>2, BecomesGood, BytesKeptStep

LEMMA FileKnown ==
  ASSUME IInv, NEW a \in DOMAIN ofds
  PROVE  a \in Addresses /\ a # None /\ ofds[a].file \in DOMAIN fs.files
<1>1. PICK x \in Processes \X Fds : a = table[x[1]][x[2]]
  BY DEF IInv, Referred
<1>2. a \in Addresses /\ a # None
  BY PoolsAssumption DEF IInv, Good, Tables, FileIds
<1> QED BY <1>1, <1>2 DEF IInv, Good, Counted

LEMMA ReadsPipe ==
  ASSUME IInv, NEW a, a = None \/ a \in DOMAIN ofds, ReadOutcome(a) = "bytes"
  PROVE  /\ PipeOf(ofds[a].file) \in DOMAIN fs.pipes
         /\ fs.pipes[PipeOf(ofds[a].file)].bytes \in 0..MaxBytes
<1> DEFINE f == ofds[a].file
<1>1. a # None
  BY DEF ReadOutcome
<1>2. f \in DOMAIN fs.files
  BY <1>1, FileKnown
<1>3. fs.files[f].kind \in Ends
  <2>1. CASE fs.files[f].kind = "epoll"
    BY <1>1, <2>1 DEF ReadOutcome, Ends
  <2>2. CASE fs.files[f].kind \notin Ends \cup {"epoll"}
    BY <1>1, <2>2 DEF ReadOutcome
  <2> QED BY <2>1, <2>2
<1> QED BY <1>2, <1>3 DEF IInv, Good, Connected, PipeOf, Shape, Pipe

LEMMA TakingStep ==
  ASSUME IInv, NEW a, a = None \/ a \in DOMAIN ofds, ReadOutcome(a) = "bytes",
         Taking(a), UNCHANGED <<table, ofds>>
  PROVE  IInv' /\ BytesStep
<1> DEFINE i == PipeOf(ofds[a].file)
<1>1. i \in DOMAIN fs.pipes /\ fs.pipes[i].bytes \in 0..MaxBytes
  BY ReadsPipe
<1>2. PICK k \in 1..fs.pipes[i].bytes :
        fs' = [fs EXCEPT !.pipes[i].bytes = fs.pipes[i].bytes - k]
  BY DEF Taking, BytesOf
<1> HIDE DEF i
<1>3. /\ fs.pipes[i].bytes - k \in 0..MaxBytes
      /\ fs.pipes[i].bytes - k <= fs.pipes[i].bytes
  BY <1>1, BoundsAssumption
<1>4. /\ Good(fs', table, ofds, {})
      /\ DOMAIN fs'.pipes = DOMAIN fs.pipes
      /\ fs'.pipes[i].bytes = fs.pipes[i].bytes - k
      /\ \A j \in DOMAIN fs.pipes \ {i} : fs'.pipes[j] = fs.pipes[j]
  BY <1>1, <1>2, <1>3, BytesGood DEF IInv
<1>5. \A j \in DOMAIN fs.pipes : fs.pipes[j].bytes \in Nat
  BY BoundsAssumption DEF IInv, Good, Shape, Pipe
<1>6. BytesStep
  BY <1>1, <1>3, <1>4, <1>5 DEF BytesStep
<1> QED BY <1>4, <1>6 DEF IInv, Referred

LEMMA SameStep ==
  ASSUME IInv, UNCHANGED <<fs, table, ofds>>
  PROVE  IInv' /\ BytesStep
BY BytesKeptStep DEF IInv, Referred, BytesKept

LEMMA ReadStep ==
  ASSUME IInv, NEW t \in Threads, Read(t)
  PROVE  IInv' /\ BytesStep
<1>1. PICK fd \in Fds \ FreeFds(t) :
        \/ ReadOutcome(FdsOf(t)[fd]) = "bytes" /\ Taking(FdsOf(t)[fd])
        \/ UNCHANGED fs
  BY DEF Read
<1>2. UNCHANGED <<table, ofds>> /\ FdsOf(t)[fd] \in DOMAIN ofds
  BY ProcessKnown DEF Read
<1> QED BY <1>1, <1>2, TakingStep, SameStep

LEMMA TryReadStep ==
  ASSUME IInv, NEW t \in Threads, TryRead(t), blocked[t].fd \in Fds
  PROVE  IInv' /\ BytesStep
<1> DEFINE a == FdsOf(t)[blocked[t].fd]
<1>1. (ReadOutcome(a) = "bytes" /\ Taking(a)) \/ UNCHANGED fs
  BY DEF TryRead
<1>2. UNCHANGED <<table, ofds>>
  BY DEF TryRead
<1>3. a = None \/ a \in DOMAIN ofds
  BY ProcessKnown DEF FdsOf, IInv, Good, Tables
<1> HIDE DEF a
<1> QED BY <1>1, <1>2, <1>3, TakingStep, SameStep

(* A byte is written to a pipe that has the writer for an end. *)
LEMMA WriteStep ==
  ASSUME IInv, NEW t \in Threads, Write(t)
  PROVE  IInv' /\ BytesStep
<1>1. PICK fd \in Fds \ FreeFds(t) :
        LET f == ofds[FdsOf(t)[fd]].file IN
          /\ fs.files[f].kind = "writer" /\ BytesOf(f) < MaxBytes
          /\ fs' = [fs EXCEPT !.pipes[PipeOf(f)].bytes = @ + 1]
  BY DEF Write
<1> DEFINE f == ofds[FdsOf(t)[fd]].file
           i == PipeOf(f)
<1>2. f \in DOMAIN fs.files /\ fs.files[f].kind = "writer"
  BY <1>1, ProcessKnown
<1>3. /\ i \in DOMAIN fs.pipes /\ f \in fs.pipes[i].writers
      /\ fs.pipes[i].bytes \in 0..MaxBytes
  BY <1>2 DEF IInv, Good, Connected, PipeOf, Ends, Shape, Pipe
<1>4. fs.pipes[i].bytes < MaxBytes
  BY <1>1 DEF BytesOf
<1>5. fs' = [fs EXCEPT !.pipes[i].bytes = fs.pipes[i].bytes + 1]
  BY <1>1
<1> HIDE DEF f, i
<1>6. fs.pipes[i].bytes + 1 \in 0..MaxBytes
  BY <1>3, <1>4, BoundsAssumption
<1>7. /\ Good(fs', table, ofds, {})
      /\ DOMAIN fs'.pipes = DOMAIN fs.pipes
      /\ \A j \in DOMAIN fs.pipes \ {i} : fs'.pipes[j] = fs.pipes[j]
  BY <1>3, <1>5, <1>6, BytesGood DEF IInv
<1>8. \A j \in DOMAIN fs.pipes : fs.pipes[j].bytes \in Nat
  BY BoundsAssumption DEF IInv, Good, Shape, Pipe
<1>9. BytesStep
  BY <1>3, <1>7, <1>8 DEF BytesStep
<1>10. UNCHANGED <<table, ofds>>
  BY DEF Write
<1> QED BY <1>7, <1>9, <1>10 DEF IInv, Referred

LEMMA EpollCtlStep ==
  ASSUME IInv, NEW t \in Threads, EpollCtl(t)
  PROVE  IInv' /\ BytesStep
<1>1. UNCHANGED <<table, ofds>>
  BY DEF EpollCtl
<1>2. PICK epfd \in Fds \ FreeFds(t), fd \in Fds :
        LET e == ofds[FdsOf(t)[epfd]].file
            a == FdsOf(t)[fd]
        IN \/ fs' = [fs EXCEPT !.files[e].interest = @ \cup {a}]
           \/ fs' = [fs EXCEPT !.files[e].interest = @ \ {a}]
           \/ UNCHANGED fs
  BY DEF EpollCtl
<1> DEFINE e == ofds[FdsOf(t)[epfd]].file
           a == FdsOf(t)[fd]
<1>3. e \in DOMAIN fs.files /\ a \in Addresses \cup {None}
  BY ProcessKnown DEF FdsOf, IInv, Good, Tables
<1>4. fs.files[e].interest \in SUBSET (Addresses \cup {None})
  BY <1>3 DEF IInv, Good, Shape, File
<1>5. \/ fs' = [fs EXCEPT !.files[e].interest = fs.files[e].interest \cup {a}]
      \/ fs' = [fs EXCEPT !.files[e].interest = fs.files[e].interest \ {a}]
      \/ UNCHANGED fs
  BY <1>2
<1> HIDE DEF e, a
<1>6. ASSUME NEW list \in SUBSET (Addresses \cup {None}),
             fs' = [fs EXCEPT !.files[e].interest = list]
      PROVE  IInv' /\ BytesStep
  <2>1. Good(fs', table, ofds, {}) /\ fs'.pipes = fs.pipes
    BY <1>3, <1>6, InterestGood DEF IInv
  <2> QED BY <1>1, <2>1, BytesKeptStep DEF IInv, Referred, BytesKept
<1> QED BY <1>1, <1>3, <1>4, <1>5, <1>6, SameStep

-----------------------------------------------------------------------------
(* FileDescriptors::pipe2.  Between the first of its steps and the last,   *)
(* the ends are files that nobody refers to, of a pipe that is not there.  *)
EndOf(s, f, kind, i, u) == u = InOrphans(s, f, kind, None, i)

LEMMA EndAdded ==
  ASSUME NEW s, NEW tab, NEW o, NEW X, Good(s, tab, o, X),
         NEW f \in Addresses, f \notin DOMAIN s.files,
         NEW kind \in Ends, NEW i \in Addresses,
         NEW Y, X \subseteq Y, f \in Y, NEW u, EndOf(s, f, kind, i, u)
  PROVE  /\ Good(u, tab, o, Y) /\ u.pipes = s.pipes
         /\ f \in DOMAIN u.files /\ u.files[f].kind = kind /\ u.files[f].pipe = i
         /\ \A g \in DOMAIN s.files : g \in DOMAIN u.files /\ u.files[g] = s.files[g]
         /\ \A g \in DOMAIN u.files : g = f \/ g \in DOMAIN s.files
<1>1. i \in Addresses \cup {None} /\ OrphanKind(kind, None)
  BY DEF OrphanKind
<1>2. u = InOrphans(s, f, kind, None, i)
  BY DEF EndOf
<1> QED BY <1>1, <1>2, InOrphansGood

LEMMA EndsAdded ==
  ASSUME NEW s, NEW tab, NEW o, Good(s, tab, o, {}),
         NEW r \in Addresses \ DOMAIN o, NEW w \in Addresses \ DOMAIN o, r # w,
         NEW i \in Addresses,
         NEW u, EndOf(s, r, "reader", i, u), NEW v, EndOf(u, w, "writer", i, v),
         NEW X, r \in X, w \in X
  PROVE  /\ Good(v, tab, o, X) /\ v.pipes = s.pipes
         /\ r \in DOMAIN v.files /\ v.files[r].kind = "reader" /\ v.files[r].pipe = i
         /\ w \in DOMAIN v.files /\ v.files[w].kind = "writer" /\ v.files[w].pipe = i
<1> DEFINE R == {r}
           none == {}
<1>1. /\ r \notin DOMAIN s.files /\ w \notin DOMAIN s.files
      /\ "reader" \in Ends /\ "writer" \in Ends
      /\ none \subseteq R /\ r \in R /\ R \subseteq X /\ w \in X
      /\ Good(s, tab, o, none)
  BY FreshAddress DEF Ends
<1> HIDE DEF R, none
<1>2. /\ Good(u, tab, o, R) /\ u.pipes = s.pipes
      /\ r \in DOMAIN u.files /\ u.files[r].kind = "reader" /\ u.files[r].pipe = i
      /\ \A g \in DOMAIN u.files : g = r \/ g \in DOMAIN s.files
  BY <1>1, EndAdded
<1>3. w \notin DOMAIN u.files
  BY <1>1, <1>2
<1>4. /\ Good(v, tab, o, X) /\ v.pipes = u.pipes
      /\ w \in DOMAIN v.files /\ v.files[w].kind = "writer" /\ v.files[w].pipe = i
      /\ \A g \in DOMAIN u.files : g \in DOMAIN v.files /\ v.files[g] = u.files[g]
  <2>1. /\ Good(u, tab, o, R) /\ w \in Addresses /\ w \notin DOMAIN u.files
        /\ "writer" \in Ends /\ R \subseteq X /\ w \in X
    BY <1>1, <1>2, <1>3
  <2> QED BY <2>1, EndAdded
<1> QED BY <1>2, <1>4

LEMMA EndsTaken ==
  ASSUME NEW v, NEW tab, NEW o, NEW r \in DOMAIN o, NEW w \in DOMAIN o, r # w,
         NEW X, Good(v, tab, o, X), r \in DOMAIN v.files, w \in DOMAIN v.files,
         o[r].file = r, o[w].file = w,
         NEW p \in Processes, NEW in \in Fds, NEW out \in Fds, in # out,
         tab[p][in] = None, tab[p][out] = None,
         NEW x, NEW t, TakenBy(v, r, tab, p, in, r, x, t),
         NEW y, NEW q, TakenBy(x, w, t, p, out, w, y, q)
  PROVE  /\ Good(y, q, o, X) /\ y.pipes = v.pipes
         /\ y.files[r].refs > 0 /\ y.files[w].refs > 0
         /\ \A g \in DOMAIN v.files :
              g \in DOMAIN y.files /\ Alike(y.files[g], v.files[g])
<1>1. /\ Good(x, t, o, X) /\ x.pipes = v.pipes
      /\ x.files[r].refs > 0
      /\ \A g \in DOMAIN v.files :
           /\ g \in DOMAIN x.files /\ Alike(x.files[g], v.files[g])
           /\ x.files[g].refs >= v.files[g].refs
      /\ t[p][out] = None
  <2>1. MayTake(v, r, tab, p, in, r, x, t, o, X)
    BY DEF MayTake
  <2> QED BY <2>1, SlotTaken
<1>2. /\ Good(y, q, o, X) /\ y.pipes = x.pipes
      /\ y.files[w].refs > 0
      /\ \A g \in DOMAIN x.files :
           /\ g \in DOMAIN y.files /\ Alike(y.files[g], x.files[g])
           /\ y.files[g].refs >= x.files[g].refs
  <2>1. MayTake(x, w, t, p, out, w, y, q, o, X)
    BY <1>1 DEF MayTake
  <2> QED BY <2>1, SlotTaken
<1>3. x.files[r].refs \in Nat /\ y.files[r].refs \in Nat
  BY <1>1, <1>2 DEF Good, Shape, File
<1>4. y.files[r].refs > 0
  BY <1>1, <1>2, <1>3
<1>5. \A g \in DOMAIN v.files : Alike(y.files[g], v.files[g])
  BY <1>1, <1>2 DEF Alike
<1> QED BY <1>1, <1>2, <1>4, <1>5

(* Pipe::tryCreate, of which both ends are descriptors. *)
LEMMA PipeAdded ==
  ASSUME NEW y, NEW tab, NEW o, NEW r, NEW w, NEW X, X = {r, w}, Good(y, tab, o, X),
         NEW i \in Addresses \ DOMAIN y.pipes,
         r \in DOMAIN y.files, y.files[r].kind = "reader", y.files[r].pipe = i,
         w \in DOMAIN y.files, y.files[w].kind = "writer", y.files[w].pipe = i,
         y.files[r].refs > 0, y.files[w].refs > 0,
         NEW pipe \in Pipe, pipe.readers = {r}, pipe.writers = {w}
  PROVE  LET x == [y EXCEPT !.pipes = With(@, i, pipe)] IN
         /\ Good(x, tab, o, {})
         /\ \A j \in DOMAIN y.pipes : j \in DOMAIN x.pipes /\ x.pipes[j] = y.pipes[j]
<1> DEFINE P == With(y.pipes, i, pipe)
           x == [y EXCEPT !.pipes = P]
<1>1. /\ i \in DOMAIN P /\ P[i] = pipe
      /\ \A j \in DOMAIN y.pipes : j \in DOMAIN P /\ P[j] = y.pipes[j] /\ j # i
      /\ \A j \in DOMAIN P : j = i \/ j \in DOMAIN y.pipes
  BY DEF With
<1> HIDE DEF P
<1>2. DOMAIN P \subseteq Addresses /\ \A j \in DOMAIN P : P[j] \in Pipe
  BY <1>1 DEF Good, Shape
<1>3. /\ Shape(x) /\ x.pipes = P
      /\ x.files = y.files /\ x.entries = y.entries /\ x.orphans = y.orphans
  BY <1>2, PipesChanged DEF Good
<1> HIDE DEF x
<1>4. Connected(x, {})
  <2>1. ASSUME NEW g \in DOMAIN y.files, y.files[g].kind \in Ends
        PROVE  /\ y.files[g].pipe \in DOMAIN P
               /\ y.files[g].kind = "reader" => g \in P[y.files[g].pipe].readers
               /\ y.files[g].kind = "writer" => g \in P[y.files[g].pipe].writers
    <3>1. CASE g \in X
      BY <1>1, <2>1, <3>1
    <3>2. CASE g \notin X
      BY <1>1, <2>1, <3>2 DEF Good, Connected
    <3> QED BY <3>1, <3>2
  <2>2. ASSUME NEW j \in DOMAIN P
        PROVE  /\ P[j].readers \cup P[j].writers # {}
               /\ \A g \in P[j].readers :
                    g \in DOMAIN y.files /\ y.files[g].kind = "reader" /\ y.files[g].pipe = j
               /\ \A g \in P[j].writers :
                    g \in DOMAIN y.files /\ y.files[g].kind = "writer" /\ y.files[g].pipe = j
    <3>1. CASE j = i
      BY <1>1, <3>1
    <3>2. CASE j # i
      BY <1>1, <3>2 DEF Good, Connected
    <3> QED BY <3>1, <3>2
  <2> QED BY <1>3, <2>1, <2>2 DEF Connected
<1>5. /\ Counted(x, tab, o) /\ Orphaned(x, X) /\ Directory(x)
  <2>1. Counted(y, tab, o) /\ Orphaned(y, X) /\ Directory(y)
    BY DEF Good
  <2> QED BY <1>3, <2>1, SameKeeps
<1>6. Orphaned(x, {})
  BY <1>3, <1>5 DEF Orphaned
<1> QED BY <1>1, <1>3, <1>4, <1>5, <1>6 DEF Good, x, P

LEMMA Pipe2Step ==
  ASSUME IInv, NEW t \in Threads, Pipe2(t)
  PROVE  IInv' /\ BytesStep
<1> DEFINE p == ProcessOf[t]
           i == Least(Addresses \ DOMAIN fs.pipes)
           in == Least(FreeFds(t))
           out == Least(FreeFds(t) \ {in})
<1>1. i \in Addresses \ DOMAIN fs.pipes
  BY LeastExists, PoolsAssumption DEF Pipe2
<1>2. FreeFds(t) # {} /\ FreeFds(t) # {in}
  <2>1. Cardinality(FreeFds(t)) > 1
    BY DEF Pipe2
  <2>2. Cardinality({}) = 0 /\ Cardinality({in}) = 1
    BY FS_EmptySet, FS_Singleton
  <2> QED BY <2>1, <2>2
<1>3. /\ in \in Fds /\ out \in Fds /\ in # out
      /\ table[p][in] = None /\ table[p][out] = None
  <2>1. FreeFds(t) \subseteq Nat /\ FreeFds(t) \ {in} \subseteq Nat
    BY ProcessKnown
  <2>2. in \in FreeFds(t)
    BY <1>2, <2>1, LeastExists
  <2>3. FreeFds(t) \ {in} # {}
    BY <1>2, <2>2
  <2>4. out \in FreeFds(t) \ {in}
    <3> HIDE DEF in
    <3> QED BY <2>1, <2>3, LeastExists
  <2> HIDE DEF in, out
  <2> QED BY <2>2, <2>4, ProcessKnown
<1>4. PICK nonblock \in {b \in BOOLEAN : b => "nonblock" \in program.calls},
           r \in Addresses, w \in Addresses :
        LET s == InOrphans(InOrphans(fs, r, "reader", None, i), w, "writer", None, i)
            pipe == [bytes |-> 0, readers |-> {r}, writers |-> {w}]
        IN /\ NewAddress(r, FreeAddresses)
           /\ NewAddress(w, FreeAddresses \ {r})
           /\ Becomes([Ref(Ref(s, r), w) EXCEPT !.pipes = With(@, i, pipe)],
                      [table EXCEPT ![p][in] = r, ![p][out] = w],
                      With(With(ofds, r, [file |-> r, nonblock |-> nonblock]),
                           w, [file |-> w, nonblock |-> nonblock]))
  BY DEF Pipe2
<1> HIDE DEF p, i, in, out
<1> DEFINE X == {r, w}
           u == InOrphans(fs, r, "reader", None, i)
           v == InOrphans(u, w, "writer", None, i)
           y == Ref(Ref(v, r), w)
           pipe == [bytes |-> 0, readers |-> {r}, writers |-> {w}]
           o1 == With(ofds, r, [file |-> r, nonblock |-> nonblock])
           o2 == With(o1, w, [file |-> w, nonblock |-> nonblock])
           q == [table EXCEPT ![p][in] = r, ![p][out] = w]
<1>5. /\ r \in Addresses \ DOMAIN ofds /\ w \in Addresses \ DOMAIN ofds /\ r # w
      /\ Becomes([y EXCEPT !.pipes = With(@, i, pipe)], q, o2)
  BY <1>4 DEF NewAddress, FreeAddresses
<1>0. nonblock \in BOOLEAN
  OBVIOUS
<1>6. /\ Described(ofds, r, r, o1) /\ Described(o1, w, w, o2)
      /\ r \in FileIds /\ w \in FileIds
  BY <1>0 DEF Described, FileIds
<1>7. pipe \in Pipe /\ pipe.readers = {r} /\ pipe.writers = {w}
  BY BoundsAssumption DEF Pipe
<1> HIDE DEF pipe, o1, o2
<1>8. /\ Good(v, table, ofds, X) /\ v.pipes = fs.pipes
      /\ r \in DOMAIN v.files /\ v.files[r].kind = "reader" /\ v.files[r].pipe = i
      /\ w \in DOMAIN v.files /\ v.files[w].kind = "writer" /\ v.files[w].pipe = i
  <2>1. /\ i \in Addresses /\ X = {r, w} /\ u = InOrphans(fs, r, "reader", None, i)
        /\ v = InOrphans(u, w, "writer", None, i)
    BY <1>1
  <2> HIDE DEF u, v, X, y, q
  <2>2. EndOf(fs, r, "reader", i, u) /\ EndOf(u, w, "writer", i, v)
    BY <2>1 DEF EndOf
  <2>3. Good(fs, table, ofds, {})
    BY DEF IInv
  <2> QED BY <1>5, <2>1, <2>2, <2>3, EndsAdded
<1>18. X = {r, w}
  OBVIOUS
<1> HIDE DEF v, X
<1>9. /\ Good(v, table, o1, X) /\ r \in DOMAIN o1 /\ o1[r].file = r
      /\ \A b \in DOMAIN o1 : b = r \/ b \in DOMAIN ofds
  BY <1>5, <1>6, <1>8, DescribedGood
<1>10. w \in Addresses \ DOMAIN o1
  BY <1>5, <1>9
<1>11. /\ Good(v, table, o2, X) /\ w \in DOMAIN o2 /\ o2[w].file = w
       /\ r \in DOMAIN o2 /\ o2[r].file = r
  BY <1>6, <1>9, <1>10, DescribedGood
<1>12. /\ Good(y, q, o2, X)
       /\ y.pipes = v.pipes
       /\ y.files[r].refs > 0 /\ y.files[w].refs > 0
       /\ \A g \in DOMAIN v.files :
            g \in DOMAIN y.files /\ Alike(y.files[g], v.files[g])
  <2> DEFINE z == Ref(v, r)
             k == [table EXCEPT ![p][in] = r]
  <2>1. p \in Processes
    BY ProcessKnown DEF p
  <2>2. TakenBy(v, r, table, p, in, r, z, k)
    BY DEF TakenBy
  <2>3. TakenBy(z, w, k, p, out, w, y, q)
    BY DEF TakenBy
  <2> HIDE DEF u, y, q, z, k
  <2>4. /\ r \in DOMAIN o2 /\ w \in DOMAIN o2 /\ r # w /\ Good(v, table, o2, X)
        /\ r \in DOMAIN v.files /\ w \in DOMAIN v.files
        /\ o2[r].file = r /\ o2[w].file = w
        /\ in \in Fds /\ out \in Fds /\ in # out
        /\ table[p][in] = None /\ table[p][out] = None
    BY <1>3, <1>5, <1>8, <1>11
  <2> QED BY <2>1, <2>2, <2>3, <2>4, EndsTaken
<1> HIDE DEF y, q
<1>13. /\ i \in Addresses \ DOMAIN y.pipes
       /\ r \in DOMAIN y.files /\ y.files[r].kind = "reader" /\ y.files[r].pipe = i
       /\ w \in DOMAIN y.files /\ y.files[w].kind = "writer" /\ y.files[w].pipe = i
  BY <1>1, <1>8, <1>12 DEF Alike
<1> DEFINE x == [y EXCEPT !.pipes = With(@, i, pipe)]
<1>14. /\ Good(x, q, o2, {})
       /\ \A j \in DOMAIN y.pipes : j \in DOMAIN x.pipes /\ x.pipes[j] = y.pipes[j]
  BY <1>7, <1>12, <1>13, <1>18, PipeAdded
<1> HIDE DEF x
<1>15. IInv' /\ fs' = x
  BY <1>5, <1>14, BecomesGood DEF x
<1>16. \A j \in DOMAIN fs.pipes : fs.pipes[j].bytes \in Nat
  BY BoundsAssumption DEF IInv, Good, Shape, Pipe
<1>17. BytesStep
  BY <1>8, <1>12, <1>14, <1>15, <1>16 DEF BytesStep
<1> QED BY <1>15, <1>17

-----------------------------------------------------------------------------
(* The variables that are not about files. *)
RestOK ==
  /\ program \in Programs /\ running \subseteq Processes
  /\ blocked \in [Threads -> [kind : Waits, fd : Fds] \cup {None}]
  /\ panicked \in Panics \cup {None} /\ crowded \in BOOLEAN
  /\ stale \subseteq Addresses \X Addresses

LEMMA BecomesRest ==
  ASSUME RestOK, NEW s, NEW tab, NEW o, Becomes(s, tab, o)
  PROVE  program' = program /\ crowded' \in BOOLEAN /\ stale' \subseteq Addresses \X Addresses
BY DEF Becomes, RestOK, Crowded

LEMMA NobodyWaits ==
  ASSUME RestOK, NEW p
  PROVE  NobodyOf(p) \in [Threads -> [kind : Waits, fd : Fds] \cup {None}]
BY DEF RestOK, NobodyOf

LEMMA CallRest ==
  ASSUME RestOK, NEW t \in Threads, Call(t)
  PROVE  RestOK'
<1>1. ASSUME NEW s, NEW tab, NEW o, Becomes(s, tab, o),
             UNCHANGED <<running, blocked, panicked>>
      PROVE  RestOK'
  BY <1>1, BecomesRest DEF RestOK
<1>2. CASE Open(t)
  <2>1. PICK f, s, a : Opened(t, s, f, a)
    BY <1>2 DEF Open
  <2> QED BY <1>1, <1>2, <2>1 DEF Open, Opened
<1>3. CASE MemfdCreate(t)
  BY <1>1, <1>3 DEF MemfdCreate, Opened
<1>4. CASE EpollCreate(t)
  BY <1>1, <1>4 DEF EpollCreate, Opened
<1>5. CASE Pipe2(t)
  BY <1>1, <1>5 DEF Pipe2
<1>6. CASE CloseFd(t)
  BY <1>1, <1>6 DEF CloseFd
<1>7. CASE Dup(t)
  BY <1>1, <1>7 DEF Dup
<1>8. CASE Dup2(t)
  BY <1>1, <1>8 DEF Dup2
<1>9. CASE Rename(t)
  BY <1>1, <1>9 DEF Rename
<1>10. CASE Unlink(t)
  BY <1>1, <1>10 DEF Unlink
<1>11. CASE SetNonblock(t)
  BY <1>11 DEF SetNonblock, RestOK, Panics
<1>12. CASE Fork(t)
  BY <1>12, BecomesRest DEF Fork, RestOK
<1>13. CASE Exit(t)
  BY <1>13, BecomesRest, NobodyWaits DEF Exit, RestOK
<1>14. CASE Kill(t)
  BY <1>14, NobodyWaits DEF Kill, Same, RestOK
<1>15. CASE Read(t)
  BY <1>15 DEF Read, RestOK, Waits, Panics
<1>16. CASE Write(t)
  BY <1>16 DEF Write, RestOK
<1>17. CASE EpollCtl(t)
  <2>1. panicked' = panicked \/ panicked' \in Panics
    BY <1>17 DEF EpollCtl, Panics
  <2>2. stale' \subseteq stale
    BY <1>17 DEF EpollCtl
  <2>3. UNCHANGED <<program, running, blocked, crowded>>
    BY <1>17 DEF EpollCtl
  <2> QED BY <2>1, <2>2, <2>3 DEF RestOK
<1>18. CASE Wait(t)
  BY <1>18 DEF Wait, Same, RestOK, Waits
<1> QED BY <1>2, <1>3, <1>4, <1>5, <1>6, <1>7, <1>8, <1>9, <1>10, <1>11, <1>12,
          <1>13, <1>14, <1>15, <1>16, <1>17, <1>18 DEF Call

LEMMA NextRest ==
  ASSUME RestOK, [Next]_vars
  PROVE  RestOK'
<1>1. ASSUME NEW t \in Threads, TryRead(t) PROVE RestOK'
  BY <1>1 DEF TryRead, RestOK, Panics
<1>2. ASSUME NEW t \in Threads, TryWait(t) PROVE RestOK'
  BY <1>2 DEF TryWait, Same, RestOK
<1>3. CASE UNCHANGED vars
  BY <1>3 DEF vars, RestOK
<1> QED BY <1>1, <1>2, <1>3, CallRest DEF Next

LEMMA NextGood ==
  ASSUME IInv, RestOK, [Next]_vars
  PROVE  IInv' /\ BytesStep
<1>1. ASSUME NEW t \in Threads, Call(t) PROVE IInv' /\ BytesStep
  <2>1. CASE Kill(t) \/ Wait(t)
    BY <2>1, SameStep DEF Kill, Wait, Same
  <2> QED BY <1>1, <2>1, OpenStep, OrphanStep, Pipe2Step, CloseStep, DupStep,
            Dup2Step, RenameStep, UnlinkStep, NonblockStep, ForkStep, ExitStep,
            ReadStep, WriteStep, EpollCtlStep DEF Call
<1>2. ASSUME NEW t \in Threads, TryRead(t) PROVE IInv' /\ BytesStep
  <2>1. blocked[t].fd \in Fds
    BY <1>2 DEF TryRead, RestOK
  <2> QED BY <1>2, <2>1, TryReadStep
<1>3. ASSUME NEW t \in Threads, TryWait(t) PROVE IInv' /\ BytesStep
  BY <1>3, SameStep DEF TryWait, Same
<1>4. CASE UNCHANGED vars
  BY <1>4, SameStep DEF vars
<1> QED BY <1>1, <1>2, <1>3, <1>4 DEF Next

LEMMA InitGood ==
  ASSUME Init
  PROVE  IInv /\ RestOK
<1>1. DOMAIN ofds = {} /\ DOMAIN fs.files = {} /\ DOMAIN fs.pipes = {}
  BY DEF Init
<1>2. Shape(fs)
  BY <1>1 DEF Init, Shape
<1>3. Tables(table, ofds)
  BY <1>1 DEF Init, Tables
<1>4. Counted(fs, table, ofds)
  BY <1>1 DEF Init, Counted
<1>5. Orphaned(fs, {}) /\ Connected(fs, {})
  BY <1>1 DEF Init, Orphaned, Connected
<1>6. Directory(fs)
  BY <1>1 DEF Init, Directory
<1>7. RestOK
  BY ThreadsAssumption DEF Init, RestOK
<1> QED BY <1>1, <1>2, <1>3, <1>4, <1>5, <1>6, <1>7 DEF IInv, Good

(* The invariant is inductive: the counts are those of the tables, whoever *)
(* changes them, and the pipes know their ends (fs.cpp, pipe.cpp).         *)
THEOREM Invariant == Spec => [](IInv /\ RestOK)
<1>1. Init => IInv /\ RestOK
  BY InitGood
<1>2. (IInv /\ RestOK) /\ [Next]_vars => (IInv /\ RestOK)'
  BY NextGood, NextRest
<1> QED BY <1>1, <1>2, PTL DEF Spec

(* The tables, descriptions, files, pipes, entries and blockers have their *)
(* types: FS and FileDescriptors keep nothing else.                        *)
THEOREM TypeCorrect == Spec => []TypeOK
<1>1. IInv /\ RestOK => TypeOK
  BY DEF IInv, RestOK, Good, Shape, Tables, TypeOK
<1> QED BY <1>1, Invariant, PTL

(* The references that FsObject::ref and unref count are the descriptors   *)
(* of all processes, after any calls of dup, dup2, clone and closeAll: what *)
(* FS::checkFileRefCount would verify.                                     *)
THEOREM RefCountsExact == Spec => []RefCountsAreExact
<1>1. \A f : Descriptors(f) = UsedBy(table, ofds, f)
  BY DEF Descriptors, UsedBy
<1>2. IInv => RefCountsAreExact
  BY <1>1 DEF IInv, Good, Counted, RefCountsAreExact
<1> QED BY <1>2, Invariant, PTL

(* FS::close destroys no file that a description still points to, and      *)
(* removeClosedPipes no pipe that an endpoint does.                        *)
THEOREM NothingDestroyedInUse == Spec => []NothingIsDestroyedInUse
<1>1. ASSUME IInv, NEW a \in DOMAIN ofds PROVE ofds[a].file \in DOMAIN fs.files
  BY <1>1, FileKnown
<1>2. IInv => NothingIsDestroyedInUse
  BY <1>1 DEF IInv, Good, Connected, NothingIsDestroyedInUse
<1> QED BY <1>2, Invariant, PTL

(* Pipe::closedEndpoint is called when the last descriptor of an end is    *)
(* closed, and not before: the ends of a pipe are those that are open.     *)
THEOREM PipesKnow == Spec => []PipesKnowTheirEnds
<1>1. \A f : Descriptors(f) = UsedBy(table, ofds, f)
  BY DEF Descriptors, UsedBy
<1>2. ASSUME IInv, NEW f \in DOMAIN fs.files, fs.files[f].kind \in Ends
      PROVE  Descriptors(f) # {}
  <2>1. f \in fs.orphans
    BY <1>2 DEF IInv, Good, Orphaned, Ends
  <2>2. fs.files[f].refs > 0 /\ fs.files[f].refs = Cardinality(Descriptors(f))
    BY <1>1, <1>2, <2>1 DEF IInv, Good, Orphaned, Counted
  <2> QED BY <2>2, FS_EmptySet
<1>3. ASSUME IInv, NEW i \in DOMAIN fs.pipes
      PROVE  /\ fs.pipes[i].readers = OpenEnds(i, "reader")
             /\ fs.pipes[i].writers = OpenEnds(i, "writer")
  BY <1>2, <1>3 DEF IInv, Good, Connected, OpenEnds, Ends
<1>4. IInv => PipesKnowTheirEnds
  BY <1>3 DEF PipesKnowTheirEnds
<1> QED BY <1>4, Invariant, PTL

(* No byte is added to a pipe whose last writer was closed (Pipe::write is *)
(* called for a descriptor of the other end, pipe.cpp:86).                 *)
THEOREM EndFinal == Spec => EndIsFinal
<1>1. BytesStep =>
        \A i \in DOMAIN fs.pipes \cap DOMAIN fs'.pipes :
          fs.pipes[i].writers = {} /\ OpenEnds(i, "reader") # {} =>
            fs'.pipes[i].bytes <= fs.pipes[i].bytes
  BY DEF BytesStep
<1>2. IInv /\ RestOK /\ [Next]_vars =>
        [\A i \in DOMAIN fs.pipes \cap DOMAIN fs'.pipes :
           fs.pipes[i].writers = {} /\ OpenEnds(i, "reader") # {} =>
             fs'.pipes[i].bytes <= fs.pipes[i].bytes]_vars
  BY <1>1, NextGood
<1> QED BY <1>2, Invariant, PTL DEF Spec, EndIsFinal

(* An orphan is there while it is open, a pipe while it has an end, and a  *)
(* file of the directory while one entry, of its own name, leads to it     *)
(* (Directory::addFile, FS::rename, FS::unlink, FS::removeFromOrphans).    *)
THEOREM NothingLeaked == Spec => []NothingIsLeaked
<1>1. ASSUME IInv, NEW f \in fs.orphans
      PROVE  f \in DOMAIN fs.files /\ fs.files[f].refs > 0
  BY <1>1 DEF IInv, Good, Orphaned
<1>2. ASSUME IInv, NEW f \in DOMAIN fs.files \ fs.orphans
      PROVE  \E x \in EntriesOf(f) : EntriesOf(f) = {x} /\ x[1] = fs.files[f].name
  <2> DEFINE n == fs.files[f].name
  <2>1. n \in Names
    BY <1>2 DEF IInv, Good, Directory
  <2>2. PICK i \in DOMAIN fs.entries[n] : fs.entries[n][i] = f
    BY <1>2 DEF IInv, Good, Directory
  <2>3. <<n, i>> \in EntriesOf(f)
    BY <2>1, <2>2 DEF EntriesOf
  <2>4. ASSUME NEW x \in EntriesOf(f) PROVE x = <<n, i>>
    <3>1. PICK m \in Names : \E j \in DOMAIN fs.entries[m] :
            x = <<m, j>> /\ fs.entries[m][j] = f
      BY <2>4 DEF EntriesOf
    <3>2. PICK j \in DOMAIN fs.entries[m] : x = <<m, j>> /\ fs.entries[m][j] = f
      BY <3>1
    <3>3. m = n
      BY <1>2, <3>2 DEF IInv, Good, Directory
    <3>4. j = i
      <4>1. Directory(fs)
        BY <1>2 DEF IInv, Good
      <4>2. \A k, l \in DOMAIN fs.entries[n] : fs.entries[n][k] = fs.entries[n][l] => k = l
        BY <2>1, <4>1 DEF Directory
      <4> HIDE DEF n
      <4> QED BY <2>2, <3>2, <3>3, <4>2
    <3> QED BY <3>2, <3>3, <3>4
  <2> QED BY <2>3, <2>4
<1>3. ASSUME IInv, NEW n \in Names, NEW i \in DOMAIN fs.entries[n]
      PROVE  fs.entries[n][i] \in DOMAIN fs.files \ fs.orphans
  <2>0. Directory(fs)
    BY <1>3 DEF IInv, Good
  <2>1. fs.entries[n][i] \in DOMAIN fs.files
    BY <1>3, <2>0 DEF Directory
  <2>2. fs.entries[n] \in Seq(Nodes)
    BY <1>3 DEF IInv, Good, Shape
  <2>3. fs.entries[n][i] \in Nodes
    BY <2>2
  <2> QED BY <1>3, <2>1, <2>3, PoolsAssumption DEF IInv, Good, Shape
<1>4. ASSUME IInv, NEW i \in DOMAIN fs.pipes
      PROVE  fs.pipes[i].readers \cup fs.pipes[i].writers # {}
  BY <1>4 DEF IInv, Good, Connected
<1>5. IInv => NothingIsLeaked
  BY <1>1, <1>2, <1>3, <1>4 DEF NothingIsLeaked
<1> QED BY <1>5, Invariant, PTL

-----------------------------------------------------------------------------
(* Files that go.  FS::close removes by the path what FS::unlink finds     *)
(* there: as long as a path stands for one file, that is the one closed.   *)
LEMMA RangeFinite ==
  ASSUME NEW S, IsFiniteSet(S), NEW F, F \in [S -> {F[x] : x \in S}]
  PROVE  IsFiniteSet({F[x] : x \in S})
<1> DEFINE T == {F[x] : x \in S}
<1>1. F \in [S -> T] /\ \A y \in T : \E x \in S : F[x] = y
  OBVIOUS
<1> HIDE DEF T
<1>2. F \in Surjection(S, T)
  BY <1>1 DEF Surjection
<1>3. IsFiniteSet(T)
  BY <1>2, FS_Surjection
<1> QED BY <1>3 DEF T

LEMMA ReferredFinite ==
  ASSUME NEW tab
  PROVE  IsFiniteSet(Referred(tab))
<1> DEFINE S == Processes \X Fds
           F == [x \in S |-> tab[x[1]][x[2]]]
<1>1. IsFiniteSet(S)
  <2>1. IsFiniteSet(Fds)
    BY FS_Interval, BoundsAssumption DEF Fds
  <2> QED BY <2>1, FS_Product, ProcessesAssumption
<1>2. Referred(tab) = {F[x] : x \in S} /\ F \in [S -> {F[x] : x \in S}]
  BY DEF Referred
<1> HIDE DEF S, F
<1>3. IsFiniteSet({F[x] : x \in S})
  BY <1>1, <1>2, RangeFinite
<1> QED BY <1>2, <1>3

LEMMA PathsFinite ==
  ASSUME NEW s, NEW tab, NEW o, Good(s, tab, o, {}), NEW n \in Names
  PROVE  IsFiniteSet(Paths(s, n))
<1> DEFINE Q == s.entries[n]
           D == DOMAIN Q
           A == {Q[i] : i \in D}
           B == {f \in s.orphans : s.files[f].name = n}
<1>1. IsFiniteSet(A)
  <2>1. Q \in Seq(Nodes)
    BY DEF Good, Shape
  <2>2. D = 1..Len(Q) /\ Len(Q) \in Nat /\ Q \in [1..Len(Q) -> Nodes]
    BY <2>1, LenProperties
  <2>3. IsFiniteSet(D) /\ Q \in [D -> A]
    BY <2>2, FS_Interval
  <2> HIDE DEF Q, D
  <2> QED BY <2>3, RangeFinite
<1>2. s.orphans \subseteq Referred(tab)
  <2>1. SUFFICES ASSUME NEW f \in s.orphans PROVE f \in Referred(tab)
    OBVIOUS
  <2>2. f \in DOMAIN s.files /\ s.files[f].refs > 0 /\ f \in Addresses
    BY DEF Good, Orphaned, Shape
  <2>3. UsedBy(tab, o, f) # {}
    <3>1. s.files[f].refs = Cardinality(UsedBy(tab, o, f))
      BY <2>2 DEF Good, Counted
    <3>2. Cardinality({}) = 0
      BY FS_EmptySet
    <3> QED BY <2>2, <3>1, <3>2
  <2>4. PICK x \in Processes \X Fds : tab[x[1]][x[2]] # None /\ o[tab[x[1]][x[2]]].file = f
    BY <2>3 DEF UsedBy
  <2>5. tab[x[1]][x[2]] = f
    BY <2>2, <2>4 DEF Good, Tables
  <2> QED BY <2>5 DEF Referred
<1>3. IsFiniteSet(B)
  <2>1. B \subseteq Referred(tab)
    BY <1>2
  <2> QED BY <2>1, ReferredFinite, FS_Subset
<1>4. Paths(s, n) = A \cup B
  BY DEF Paths
<1> HIDE DEF A, B
<1> QED BY <1>1, <1>3, <1>4, FS_Union

(* A path stands for one file at most. *)
Sparse(s) == \A n \in Names : \A f, g \in Paths(s, n) : f = g

LEMMA NotCrowded ==
  ASSUME NEW s, NEW tab, NEW o, Good(s, tab, o, {}), ~Crowded(s)
  PROVE  Sparse(s)
<1>1. SUFFICES ASSUME NEW n \in Names, NEW f \in Paths(s, n), NEW g \in Paths(s, n), f # g
               PROVE  Cardinality(Paths(s, n)) > 1
  BY DEF Sparse, Crowded
<1> DEFINE T == {f} \cup {g}
<1>2. IsFiniteSet({f}) /\ Cardinality({f}) = 1 /\ g \notin {f}
  BY <1>1, FS_Singleton
<1>3. IsFiniteSet(T) /\ Cardinality(T) = 2
  BY <1>2, FS_AddElement
<1>4. IsFiniteSet(Paths(s, n)) /\ T \subseteq Paths(s, n)
  BY PathsFinite
<1> HIDE DEF T
<1>5. Cardinality(T) <= Cardinality(Paths(s, n)) /\ Cardinality(Paths(s, n)) \in Nat
  BY <1>4, FS_Subset, FS_CardinalityType
<1> QED BY <1>3, <1>5

(* What is to go when it is closed is open. *)
GoesLater(r) == r.doomed \/ r.kind = "host" => r.refs > 0
Goes(s) == \A f \in DOMAIN s.files \ s.orphans : GoesLater(s.files[f])

(* u has no file by another path than s. *)
Within(s, u) ==
  /\ u.orphans \subseteq s.orphans
  /\ \A f \in u.orphans : u.files[f].name = s.files[f].name
  /\ \A n \in Names : \A i \in DOMAIN u.entries[n] :
       \E j \in DOMAIN s.entries[n] : u.entries[n][i] = s.entries[n][j]

LEMMA WithinSparse ==
  ASSUME NEW s, NEW u, Sparse(s), Within(s, u)
  PROVE  Sparse(u)
<1>1. ASSUME NEW n \in Names, NEW f \in Paths(u, n) PROVE f \in Paths(s, n)
  BY DEF Within, Paths
<1> QED BY <1>1 DEF Sparse

LEMMA WithinOf ==
  ASSUME NEW s, NEW u, NEW v, Within(s, u), Within(u, v)
  PROVE  Within(s, v)
<1>1. ASSUME NEW n \in Names, NEW i \in DOMAIN v.entries[n]
      PROVE  \E j \in DOMAIN s.entries[n] : v.entries[n][i] = s.entries[n][j]
  <2>1. PICK k \in DOMAIN u.entries[n] : v.entries[n][i] = u.entries[n][k]
    BY DEF Within
  <2>2. PICK j \in DOMAIN s.entries[n] : u.entries[n][k] = s.entries[n][j]
    BY DEF Within
  <2> QED BY <2>1, <2>2
<1> QED BY <1>1 DEF Within

(* A file of the directory is the first of its name, and what has no entry *)
(* has a name that has none.                                               *)
LEMMA OwnPath ==
  ASSUME NEW s, NEW tab, NEW o, NEW X, Good(s, tab, o, X), Sparse(s),
         NEW f \in DOMAIN s.files
  PROVE  /\ f \notin s.orphans =>
              /\ s.files[f].name \in Names /\ s.files[f].name # None
              /\ s.entries[s.files[f].name] # <<>>
              /\ Head(s.entries[s.files[f].name]) = f
         /\ f \in s.orphans =>
              s.files[f].name = None \/ s.entries[s.files[f].name] = <<>>
<1> DEFINE n == s.files[f].name
<1>1. CASE f \notin s.orphans
  <2>1. PICK i \in DOMAIN s.entries[n] : n \in Names /\ s.entries[n][i] = f
    BY <1>1 DEF Good, Directory
  <2>2. n # None
    BY <2>1, PoolsAssumption
  <2>3. s.entries[n] # <<>>
    BY <2>1, LenProperties, EmptySeq DEF Good, Shape
  <2>4. 1 \in DOMAIN s.entries[n] /\ s.entries[n][1] = Head(s.entries[n])
    BY <2>1, <2>3, EntryKnown
  <2>5. s.entries[n][1] = f
    <3>1. s.entries[n][1] \in Paths(s, n) /\ s.entries[n][i] \in Paths(s, n)
      BY <2>1, <2>4 DEF Paths
    <3> QED BY <2>1, <3>1 DEF Sparse
  <2> QED BY <1>1, <2>1, <2>2, <2>3, <2>4, <2>5
<1>2. CASE f \in s.orphans
  <2>1. n \in Names \cup {None}
    BY DEF Good, Shape, File
  <2>2. ASSUME n \in Names, s.entries[n] # <<>> PROVE FALSE
    <3>1. /\ 1 \in DOMAIN s.entries[n] /\ s.entries[n][1] \notin s.orphans
      BY <2>2, EntryKnown
    <3>2. s.entries[n][1] \in Paths(s, n) /\ f \in Paths(s, n)
      BY <1>2, <3>1 DEF Paths
    <3> QED BY <1>2, <2>2, <3>1, <3>2 DEF Sparse
  <2> QED BY <1>2, <2>1, <2>2
<1> QED BY <1>1, <1>2

(* Only file f may be gone, and f is if it was to go. *)
OnlyGone(s, u, f) ==
  /\ DOMAIN u.files \subseteq DOMAIN s.files
  /\ DOMAIN s.files \ {f} \subseteq DOMAIN u.files

(* The reference that close gives back, and the end of the pipe. *)
Dropped(s, f, u) == u = [s EXCEPT !.files[f].refs = @ - 1]

DropDone(s, t, o, f, u) ==
  /\ u.entries = s.entries /\ u.orphans = s.orphans /\ u.pipes = s.pipes
  /\ DOMAIN u.files = DOMAIN s.files /\ f \in DOMAIN s.files
  /\ u.files[f].kind = s.files[f].kind /\ u.files[f].name = s.files[f].name
  /\ \A g \in DOMAIN s.files \ {f} : u.files[g] = s.files[g]
  /\ Good(u, t, o, {f}) /\ u.files[f].refs \in Nat
  /\ u.files[f].kind \in Ends => u.files[f].pipe \in DOMAIN u.pipes

LEMMA DropFields ==
  ASSUME NEW s, NEW tab, NEW o, Good(s, tab, o, {}),
         NEW p \in Processes, NEW fd \in Fds, tab[p][fd] # None,
         NEW f, f = o[tab[p][fd]].file, NEW u, Dropped(s, f, u)
  PROVE  DropDone(s, Cleared(tab, p, fd), o, f, u)
<1> DEFINE F == [s.files EXCEPT ![f].refs = @ - 1]
<1>1. /\ f \in DOMAIN s.files /\ u.files[f].refs \in Nat
      /\ Alike(u.files[f], s.files[f])
      /\ Good(u, Cleared(tab, p, fd), o, {f})
  <2>1. LET g == o[tab[p][fd]].file
            w == [s EXCEPT !.files[g].refs = @ - 1]
        IN  /\ g \in DOMAIN s.files /\ w.files[g].refs \in Nat
            /\ DOMAIN w.files = DOMAIN s.files /\ Alike(w.files[g], s.files[g])
            /\ Good(w, Cleared(tab, p, fd), o, {g})
            /\ w.files[g].refs > 0 => Good(w, Cleared(tab, p, fd), o, {})
    BY DropGood
  <2> QED BY <2>1 DEF Dropped
<1>2. s = [files |-> s.files, entries |-> s.entries, orphans |-> s.orphans,
           pipes |-> s.pipes]
  BY DEF Good, Shape
<1>3. u = [files |-> F, entries |-> s.entries, orphans |-> s.orphans, pipes |-> s.pipes]
  BY <1>2 DEF Dropped
<1>4. DOMAIN F = DOMAIN s.files /\ \A g \in DOMAIN s.files \ {f} : F[g] = s.files[g]
  OBVIOUS
<1> HIDE DEF F
<1>5. u.pipes = s.pipes /\ u.files = F /\ u.entries = s.entries /\ u.orphans = s.orphans
  BY <1>3
<1>6. u.files[f].kind \in Ends => u.files[f].pipe \in DOMAIN u.pipes
  BY <1>1, <1>5 DEF Alike, Good, Connected
<1> QED BY <1>1, <1>4, <1>5, <1>6 DEF Alike, DropDone

EndDone(u, t, o, f, c) ==
  /\ Good(c, t, o, {f}) /\ NoEnd(c, f)
  /\ c.files = u.files /\ c.orphans = u.orphans /\ c.entries = u.entries

LEMMA EndIsDone ==
  ASSUME NEW s, NEW t, NEW o, NEW f, NEW u, DropDone(s, t, o, f, u)
  PROVE  EndDone(u, t, o, f, ClosedEndpoint(u, f))
<1>1. f \in DOMAIN u.files /\ Good(u, t, o, {f})
      /\ (u.files[f].kind \in Ends => u.files[f].pipe \in DOMAIN u.pipes)
  BY DEF DropDone
<1> QED BY <1>1, EndpointClosed DEF EndDone

GoneFrom(s, f, u) ==
  /\ DOMAIN u.files = DOMAIN s.files \ {f}
  /\ \A g \in DOMAIN u.files : u.files[g] = s.files[g]
  /\ u.entries = s.entries /\ u.orphans = s.orphans \ {f}

LEMMA OrphanGone ==
  ASSUME NEW s, Shape(s), NEW f \in s.orphans, NEW u, u = RemovedFromOrphans(s, f)
  PROVE  GoneFrom(s, f, u)
<1> DEFINE F == Without(s.files, f)
<1>1. s = [files |-> s.files, entries |-> s.entries, orphans |-> s.orphans,
           pipes |-> s.pipes]
  BY DEF Shape
<1>2. u = [s EXCEPT !.files = F, !.orphans = s.orphans \ {f}]
  BY DEF RemovedFromOrphans
<1>3. DOMAIN F = DOMAIN s.files \ {f} /\ \A g \in DOMAIN F : F[g] = s.files[g]
  BY WithoutFields
<1> HIDE DEF F
<1>4. u = [files |-> F, entries |-> s.entries, orphans |-> s.orphans \ {f},
           pipes |-> s.pipes]
  BY <1>1, <1>2
<1> QED BY <1>3, <1>4 DEF GoneFrom

(* FS::close: what remains is to go later, and is where it was. *)
LEMMA ClosedGoes ==
  ASSUME NEW s, NEW tab, NEW o, Good(s, tab, o, {}), Sparse(s), Goes(s),
         NEW p \in Processes, NEW fd \in Fds, tab[p][fd] # None,
         NEW f, f = o[tab[p][fd]].file, NEW v, v = Closed(s, f)
  PROVE  Within(s, v) /\ Goes(v) /\ OnlyGone(s, v, f)
<1> DEFINE t == Cleared(tab, p, fd)
           u == [s EXCEPT !.files[f].refs = @ - 1]
           c == ClosedEndpoint(u, f)
           n == c.files[f].name
           x == Unlinked(c, n)
<1>9. DropDone(s, t, o, f, u)
  <2>1. Dropped(s, f, u)
    BY DEF Dropped
  <2> HIDE DEF u
  <2> QED BY <2>1, DropFields
<1>1. /\ u.entries = s.entries /\ u.orphans = s.orphans /\ u.pipes = s.pipes
      /\ DOMAIN u.files = DOMAIN s.files /\ f \in DOMAIN s.files
      /\ u.files[f].kind = s.files[f].kind /\ u.files[f].name = s.files[f].name
      /\ \A g \in DOMAIN s.files \ {f} : u.files[g] = s.files[g]
      /\ Good(u, t, o, {f}) /\ u.files[f].refs \in Nat
  <2> HIDE DEF t, u
  <2> QED BY <1>9 DEF DropDone
<1>2. v = IF u.files[f].refs > 0 THEN u
          ELSE IF KeptAfterClose(c, f) /\ ~c.files[f].doomed THEN c
          ELSE RemovedFromOrphans(x, f)
  BY DEF Closed
<1> HIDE DEF t, u
<1>3. /\ Good(c, t, o, {f}) /\ NoEnd(c, f)
      /\ c.files = u.files /\ c.orphans = u.orphans /\ c.entries = u.entries
  <2>1. EndDone(u, t, o, f, c)
    BY <1>9, EndIsDone
  <2> HIDE DEF c
  <2> QED BY <2>1 DEF EndDone
<1> HIDE DEF c
<1>8. /\ c.orphans = s.orphans /\ c.entries = s.entries
      /\ \A g \in DOMAIN s.files : g \in DOMAIN c.files
      /\ \A g \in DOMAIN c.files : g \in DOMAIN s.files
      /\ \A g \in DOMAIN s.files : g # f => c.files[g] = s.files[g]
      /\ \A g \in DOMAIN s.files : c.files[g].name = s.files[g].name
      /\ \A g \in s.orphans : g \in DOMAIN s.files
  <2>1. \A g \in s.orphans : g \in DOMAIN s.files
    BY DEF Good, Orphaned
  <2> QED BY <1>1, <1>3, <2>1
(* What is true of any file system with these files. *)
<1>4. ASSUME NEW w, w.entries = s.entries, w.orphans = s.orphans, w.files = u.files,
             f \notin s.orphans => GoesLater(u.files[f])
      PROVE  Within(s, w) /\ Goes(w) /\ OnlyGone(s, w, f)
  <2>1. Within(s, w)
    <3>1. \A g \in s.orphans : u.files[g].name = s.files[g].name
      BY <1>1 DEF Good, Orphaned
    <3> QED BY <1>4, <3>1 DEF Within
  <2>2. Goes(w)
    <3>1. ASSUME NEW g \in DOMAIN w.files \ w.orphans PROVE GoesLater(w.files[g])
      <4>1. g \in DOMAIN s.files \ s.orphans
        BY <1>1, <1>4
      <4>2. CASE g = f
        BY <1>4, <4>1, <4>2
      <4>3. CASE g # f
        <5>1. w.files[g] = s.files[g]
          BY <1>1, <1>4, <4>1, <4>3
        <5> QED BY <4>1, <5>1 DEF Goes
      <4> QED BY <4>2, <4>3
    <3> QED BY <3>1 DEF Goes
  <2> QED BY <1>1, <1>4, <2>1, <2>2 DEF OnlyGone
<1>5. CASE u.files[f].refs > 0
  BY <1>1, <1>2, <1>4, <1>5 DEF GoesLater
<1>6. CASE ~(u.files[f].refs > 0) /\ KeptAfterClose(c, f) /\ ~c.files[f].doomed
  <2>1. u.files[f].kind # "host" /\ ~u.files[f].doomed
    BY <1>3, <1>6 DEF KeptAfterClose
  <2> QED BY <1>1, <1>2, <1>3, <1>4, <1>6, <2>1 DEF GoesLater
<1>7. CASE ~(u.files[f].refs > 0) /\ ~(KeptAfterClose(c, f) /\ ~c.files[f].doomed)
  <2>0. v = RemovedFromOrphans(x, f) /\ c.files[f].refs = 0
    <3> HIDE DEF x, n
    <3>1. c.files[f].refs = u.files[f].refs /\ u.files[f].refs \in Nat
      BY <1>1, <1>3
    <3>2. c.files[f].refs = 0
      <4>1. ~(u.files[f].refs > 0)
        BY <1>7
      <4>2. \A k \in Nat : ~(k > 0) => k = 0
        OBVIOUS
      <4>3. u.files[f].refs = 0
        BY <3>1, <4>1, <4>2, Zenon
      <4> QED BY <3>1, <4>3, Zenon
    <3>3. v = RemovedFromOrphans(x, f)
      BY <1>2, <1>7
    <3> QED BY <3>2, <3>3
  <2>1. Sparse(c) /\ f \in DOMAIN c.files
    <3>1. Within(s, c)
      <4>1. \A g \in s.orphans : u.files[g].name = s.files[g].name
        BY <1>1 DEF Good, Orphaned
      <4> QED BY <1>1, <1>3, <4>1 DEF Within
    <3> QED BY <1>1, <1>3, <3>1, WithinSparse
  <2>2. /\ f \notin c.orphans =>
             /\ n \in Names /\ n # None
             /\ c.entries[n] # <<>> /\ Head(c.entries[n]) = f
        /\ f \in c.orphans => n = None \/ c.entries[n] = <<>>
    BY <1>3, <2>1, OwnPath
  <2>3. CASE f \in c.orphans
    <3>1. x = c
      <4> HIDE DEF n
      <4> QED BY <2>2, <2>3 DEF Unlinked, Named
    <3>2. v = RemovedFromOrphans(c, f)
      BY <2>0, <3>1
    <3> HIDE DEF x, n
    <3>3. /\ DOMAIN v.files = DOMAIN c.files \ {f}
          /\ \A g \in DOMAIN v.files : v.files[g] = c.files[g]
          /\ v.entries = c.entries /\ v.orphans = c.orphans \ {f}
      <4>1. Shape(c)
        BY <1>3 DEF Good
      <4>2. GoneFrom(c, f, v)
        BY <2>3, <3>2, <4>1, OrphanGone
      <4> QED BY <4>2 DEF GoneFrom
    <3>4. Within(s, v)
      <4>1. \A g \in v.orphans : g \in s.orphans /\ g \in DOMAIN v.files
        BY <1>8, <3>3
      <4>2. \A g \in v.orphans : v.files[g].name = s.files[g].name
        BY <1>8, <3>3, <4>1
      <4> QED BY <1>8, <3>3, <4>1, <4>2 DEF Within
    <3>5. Goes(v)
      <4>1. \A g \in DOMAIN v.files \ v.orphans :
              g \in DOMAIN s.files \ s.orphans /\ v.files[g] = s.files[g]
        BY <1>8, <2>3, <3>3
      <4> QED BY <4>1 DEF Goes
    <3> QED BY <1>8, <3>3, <3>4, <3>5 DEF OnlyGone
  <2>4. CASE f \notin c.orphans
    <3>1. n \in Names /\ Named(c, n) = f /\ f # None /\ c.entries[n] # <<>>
            /\ Head(c.entries[n]) = f
      <4>1. None # f
        BY <2>1, <1>3, PoolsAssumption DEF Good, Shape
      <4> QED BY <2>2, <2>4, <4>1 DEF Named
    <3>2. HeadTaken(c, n, x)
      <4> HIDE DEF n
      <4>1. ~(c.files[f].refs > 0)
        BY <2>0
      <4>2. x = [c EXCEPT !.files = Without(@, f), !.entries[n] = Tail(@)]
        BY <3>1, <4>1 DEF Unlinked
      <4> QED BY <3>1, <4>2 DEF HeadTaken
    <3> HIDE DEF x, n
    <3>3. /\ x.orphans = c.orphans
          /\ DOMAIN x.files = DOMAIN c.files \ {f}
          /\ \A g \in DOMAIN x.files : x.files[g] = c.files[g]
          /\ \A m \in Names \ {n} : x.entries[m] = c.entries[m]
          /\ \A i \in DOMAIN x.entries[n] :
               /\ i + 1 \in DOMAIN c.entries[n] /\ i \in Nat \ {0}
               /\ x.entries[n][i] = c.entries[n][i + 1]
      <4>1. Good(c, t, o, {f})
        BY <1>3
      <4> QED BY <3>1, <3>2, <4>1, EntryRemoved
    <3>4. v = x
      BY <2>0, <2>4, <3>3 DEF RemovedFromOrphans
    <3>5. Within(s, v)
      <4>1. \A g \in v.orphans : g \in s.orphans /\ g \in DOMAIN v.files
        BY <1>8, <2>4, <3>3, <3>4
      <4>2. \A g \in v.orphans : v.files[g].name = s.files[g].name
        BY <1>8, <3>3, <3>4, <4>1
      <4>3. ASSUME NEW m \in Names, NEW i \in DOMAIN v.entries[m]
            PROVE  \E j \in DOMAIN s.entries[m] : v.entries[m][i] = s.entries[m][j]
        BY <1>8, <3>3, <3>4
      <4> QED BY <1>8, <3>3, <3>4, <4>1, <4>2, <4>3 DEF Within
    <3>6. Goes(v)
      <4>1. \A g \in DOMAIN v.files \ v.orphans :
              g \in DOMAIN s.files \ s.orphans /\ v.files[g] = s.files[g]
        BY <1>8, <3>3, <3>4
      <4> QED BY <4>1 DEF Goes
    <3> QED BY <1>8, <3>3, <3>4, <3>5, <3>6 DEF OnlyGone
  <2> QED BY <2>3, <2>4
<1> QED BY <1>5, <1>6, <1>7

(* closeAll, slot by slot. *)
GoesUpTo(p, k) ==
  /\ Within(fs, ClosedBefore(p)[k]) /\ Goes(ClosedBefore(p)[k])
  /\ \A f \in DOMAIN fs.files :
       f \in DOMAIN ClosedBefore(p)[k].files \/ UsedBy(table, ofds, f) # {}

LEMMA SlotGoes ==
  ASSUME IInv, Sparse(fs), NEW p \in Processes, NEW k \in 0..MaxFd,
         ClosedUpTo(p, k), GoesUpTo(p, k)
  PROVE  GoesUpTo(p, k + 1)
<1> DEFINE s == ClosedBefore(p)[k]
           v == ClosedBefore(p)[k + 1]
           t == Erased(p, k)
<1>1. v = ClosedSlot(s, p, k)
  BY ClosedBeforeSteps
<1>2. k \in Fds /\ t[p][k] = table[p][k]
  BY BoundsAssumption DEF Fds, Erased, IInv, Good, Tables
<1>3. Good(s, t, ofds, {})
  BY DEF ClosedUpTo
<1>4. /\ Within(fs, s) /\ Goes(s)
      /\ \A f \in DOMAIN fs.files : f \in DOMAIN s.files \/ UsedBy(table, ofds, f) # {}
  BY DEF GoesUpTo
<1>5. SUFFICES /\ Within(fs, v) /\ Goes(v)
               /\ \A f \in DOMAIN fs.files :
                    f \in DOMAIN v.files \/ UsedBy(table, ofds, f) # {}
  BY DEF GoesUpTo
<1> HIDE DEF s, v, t
<1>6. CASE table[p][k] = None
  BY <1>1, <1>4, <1>6 DEF ClosedSlot
<1>7. CASE table[p][k] # None
  <2>1. v = Closed(s, ofds[t[p][k]].file) /\ Sparse(s)
    BY <1>1, <1>2, <1>4, <1>7, WithinSparse DEF ClosedSlot
  <2>2. PICK f : f = ofds[t[p][k]].file
    OBVIOUS
  <2>3. Within(s, v) /\ Goes(v) /\ OnlyGone(s, v, f)
    BY <1>2, <1>3, <1>4, <1>7, <2>1, <2>2, ClosedGoes
  <2>4. <<p, k>> \in UsedBy(table, ofds, f)
    BY <1>2, <1>7, <2>2 DEF UsedBy
  <2>5. Within(fs, v)
    BY <1>4, <2>3, WithinOf
  <2>6. \A g \in DOMAIN fs.files : g \in DOMAIN v.files \/ UsedBy(table, ofds, g) # {}
    BY <1>4, <2>3, <2>4 DEF OnlyGone
  <2> QED BY <2>3, <2>5, <2>6
<1> QED BY <1>6, <1>7

LEMMA WithinItself ==
  ASSUME NEW s
  PROVE  Within(s, s)
BY DEF Within

LEMMA ExitGoes ==
  ASSUME IInv, Sparse(fs), Goes(fs), NEW p \in Processes
  PROVE  GoesUpTo(p, MaxFd + 1)
<1>1. MaxFd \in Nat
  BY BoundsAssumption
<1>2. GoesUpTo(p, 0)
  BY ClosedBeforeSteps, WithinItself DEF GoesUpTo
<1> DEFINE S == {k \in 0..MaxFd + 1 : ~GoesUpTo(p, k)}
<1>3. SUFFICES ASSUME S # {} PROVE FALSE
  BY <1>1
<1>4. S \subseteq Nat
  BY <1>1
<1>5. Least(S) \in S /\ \A k \in S : Least(S) <= k
  BY <1>3, <1>4, LeastExists
<1> DEFINE m == Least(S)
<1> HIDE DEF m
<1>6. m \in 0..MaxFd + 1 /\ m # 0 /\ ~GoesUpTo(p, m)
  BY <1>2, <1>5 DEF m
<1>7. m - 1 \in 0..MaxFd /\ (m - 1) + 1 = m /\ ~(m <= m - 1) /\ m - 1 \in 0..MaxFd + 1
  BY <1>1, <1>6
<1>8. GoesUpTo(p, m - 1)
  BY <1>5, <1>7 DEF m
<1>9. ClosedUpTo(p, m - 1)
  BY <1>7, SlotsClosed
<1>10. GoesUpTo(p, (m - 1) + 1)
  BY <1>7, <1>8, <1>9, SlotGoes
<1> QED BY <1>6, <1>7, <1>10

-----------------------------------------------------------------------------
(* A call that removes no file, and keeps all as they were except for      *)
(* those of X.                                                             *)
AddedTo(s, u, X) ==
  /\ s.orphans \subseteq u.orphans
  /\ \A g \in DOMAIN s.files :
       g \in DOMAIN u.files /\ (g \notin X => u.files[g] = s.files[g])
  /\ \A g \in DOMAIN u.files : g \in X \/ g \in DOMAIN s.files

(* No file is gone, and what is to go is open or was as well. *)
Grown(s, u) ==
  /\ \A f \in DOMAIN s.files : f \in DOMAIN u.files
  /\ \A f \in DOMAIN u.files \ u.orphans :
       \/ GoesLater(u.files[f])
       \/ f \in DOMAIN s.files \ s.orphans
          /\ (GoesLater(s.files[f]) => GoesLater(u.files[f]))

LEMMA AddedGrown ==
  ASSUME NEW s, NEW u, NEW X, AddedTo(s, u, X),
         \A f \in X : f \in DOMAIN u.files \ u.orphans => GoesLater(u.files[f])
  PROVE  Grown(s, u)
BY DEF AddedTo, Grown

SameFiles(s, u) == (\A g : g \in DOMAIN u.files <=> g \in DOMAIN s.files)
                     /\ (\A g : g \in s.orphans => g \in u.orphans)

LEMMA RefAdded ==
  ASSUME NEW s, NEW v, Shape(v), NEW X, AddedTo(s, v, X), NEW f \in X,
         f \in DOMAIN v.files, NEW u, u = Ref(v, f)
  PROVE  /\ AddedTo(s, u, X) /\ Shape(u) /\ SameFiles(v, u)
         /\ u.files[f].refs > 0
         /\ \A g \in DOMAIN v.files : v.files[g].refs > 0 => u.files[g].refs > 0
<1>1. /\ Shape(u) /\ u.orphans = v.orphans
      /\ DOMAIN u.files = DOMAIN v.files
      /\ u.files[f].refs = v.files[f].refs + 1
      /\ \A g \in DOMAIN v.files \ {f} : u.files[g] = v.files[g]
  BY RefFields
<1>2. v.files[f].refs \in Nat
  BY DEF Shape, File
<1>3. AddedTo(s, u, X)
  BY <1>1 DEF AddedTo
<1>4. SameFiles(v, u)
  BY <1>1 DEF SameFiles
<1>5. \A g \in DOMAIN v.files : v.files[g].refs > 0 => u.files[g].refs > 0
  BY <1>1, <1>2
<1> QED BY <1>1, <1>2, <1>3, <1>4, <1>5

LEMMA RefGrown ==
  ASSUME NEW s, NEW v, Shape(v), NEW f \in DOMAIN v.files, AddedTo(s, v, {f}),
         NEW u, u = Ref(v, f)
  PROVE  Grown(s, u) /\ SameFiles(v, u)
<1> DEFINE X == {f}
<1>1. /\ f \in X /\ AddedTo(s, v, X) /\ Shape(v) /\ f \in DOMAIN v.files
      /\ u = Ref(v, f)
  OBVIOUS
<1>3. \A g \in X : g = f
  OBVIOUS
<1> HIDE DEF X
<1>2. AddedTo(s, u, X) /\ u.files[f].refs > 0 /\ SameFiles(v, u)
  BY <1>1, RefAdded
<1>4. \A g \in X : g \in DOMAIN u.files \ u.orphans => GoesLater(u.files[g])
  BY <1>2, <1>3 DEF GoesLater
<1> QED BY <1>2, <1>4, AddedGrown

(* addToOrphans, addToDirectory *)
LEMMA OrphanAdds ==
  ASSUME NEW s, Shape(s), NEW f \in Addresses, f \notin DOMAIN s.files,
         NEW kind \in Kinds, NEW n \in Names \cup {None}, NEW i \in Addresses \cup {None},
         NEW u, u = InOrphans(s, f, kind, n, i), NEW X, f \in X
  PROVE  Shape(u) /\ AddedTo(s, u, X) /\ f \in u.orphans /\ f \in DOMAIN u.files
<1> DEFINE r == NewFile(kind, n, i)
<1>1. r \in File
  BY NewFileFields
<1>2. OrphanAdded(s, f, r, u)
  BY DEF InOrphans, OrphanAdded
<1> HIDE DEF r
<1>3. /\ Shape(u) /\ u.orphans = s.orphans \cup {f}
      /\ DOMAIN u.files = DOMAIN s.files \cup {f}
      /\ \A g \in DOMAIN s.files : u.files[g] = s.files[g]
  BY <1>1, <1>2, OrphanAddedFields
<1> QED BY <1>3 DEF AddedTo

LEMMA DirectoryAdds ==
  ASSUME NEW s, Shape(s), NEW f, f \notin DOMAIN s.files, NEW kind, NEW n,
         NEW u, u = InDirectory(s, f, kind, n)
  PROVE  AddedTo(s, u, {f})
<1> DEFINE F == With(s.files, f, NewFile(kind, n, None))
           E == [s.entries EXCEPT ![n] = Append(@, f)]
<1>1. EntriesMoved(s, F, E, u)
  BY DEF InDirectory, EntriesMoved
<1>2. \A g \in DOMAIN s.files : g \in DOMAIN F /\ F[g] = s.files[g]
  BY DEF With
<1>3. \A g \in DOMAIN F : g = f \/ g \in DOMAIN s.files
  BY DEF With
<1> HIDE DEF F, E
<1>4. u = [files |-> F, entries |-> E, orphans |-> s.orphans, pipes |-> s.pipes]
  BY <1>1, MovedRecord
<1> QED BY <1>2, <1>3, <1>4 DEF AddedTo

-----------------------------------------------------------------------------
(* What a step does to the files: those that are to go are open, and those *)
(* that are gone were closed, or unlinked by their path.                   *)
UnlinkedAt(f) == \E n \in Names : Named(fs, n) = f /\ Named(fs', n) = None
                                    /\ table' = table
GoneStep ==
  \A f \in DOMAIN fs.files :
    f \in DOMAIN fs'.files \/ UsedBy(table, ofds, f) # {} \/ UnlinkedAt(f)
TidyStep == Goes(fs)' /\ GoneStep

LEMMA TidyOf ==
  ASSUME NEW s, fs' = s, Goes(s),
         \A f \in DOMAIN fs.files : f \in DOMAIN s.files \/ UsedBy(table, ofds, f) # {}
  PROVE  TidyStep
BY DEF TidyStep, GoneStep, Goes

LEMMA GrownKeeps ==
  ASSUME NEW s, NEW u, Grown(s, u), Goes(s)
  PROVE  Goes(u)
BY DEF Grown, Goes

LEMMA GrownStep ==
  ASSUME NEW s, fs' = s, Grown(fs, s), Goes(fs)
  PROVE  TidyStep
<1>1. Goes(s)
  BY GrownKeeps
<1> QED BY <1>1, TidyOf DEF Grown

LEMMA OpenTidy ==
  ASSUME IInv, Goes(fs), NEW t \in Threads, Open(t)
  PROVE  TidyStep
<1>1. PICK n \in Names, writing \in BOOLEAN, create \in BOOLEAN, a \in Addresses :
        LET known == Named(fs, n)
            kind == IF writing \/ create THEN "shadow" ELSE "host"
        IN IF known # None THEN Opened(t, fs, known, a)
           ELSE /\ n \in OnHost \/ create
                /\ FreeNodes(fs) # {}
                /\ LET f == Least(FreeNodes(fs)) IN
                     Opened(t, InDirectory(fs, f, kind, n), f, a)
  BY DEF Open
<1>2. \E s, f : /\ Opened(t, s, f, a) /\ Shape(s)
                /\ f \in DOMAIN s.files /\ AddedTo(fs, s, {f})
  <2>1. CASE Named(fs, n) # None
    <3>1. fs.entries[n] # <<>> /\ Named(fs, n) = Head(fs.entries[n])
      BY <2>1 DEF Named
    <3>2. Named(fs, n) \in DOMAIN fs.files
      BY <3>1, EntryKnown DEF IInv
    <3>3. AddedTo(fs, fs, {Named(fs, n)})
      BY DEF AddedTo
    <3> QED BY <1>1, <2>1, <3>2, <3>3 DEF IInv, Good
  <2>2. CASE Named(fs, n) = None
    <3> DEFINE kind == IF writing \/ create THEN "shadow" ELSE "host"
               f == Least(FreeNodes(fs))
               s == InDirectory(fs, f, kind, n)
    <3>1. Opened(t, s, f, a) /\ FreeNodes(fs) # {}
      BY <1>1, <2>2
    <3>2. f \in Nodes /\ f \notin DOMAIN fs.files
      BY <3>1, LeastExists, PoolsAssumption DEF FreeNodes
    <3>3. kind \in {"shadow", "host"}
      OBVIOUS
    <3> HIDE DEF kind, f
    <3>4. s = InDirectory(fs, f, kind, n)
      OBVIOUS
    <3> HIDE DEF s
    <3>5. Good(s, table, ofds, {}) /\ f \in DOMAIN s.files
      BY <3>2, <3>3, <3>4, InDirectoryGood DEF IInv
    <3>6. AddedTo(fs, s, {f})
      BY <3>2, <3>4, DirectoryAdds DEF IInv, Good
    <3> QED BY <3>1, <3>5, <3>6 DEF Good
  <2> QED BY <2>1, <2>2
<1>3. PICK s, f : /\ Opened(t, s, f, a) /\ Shape(s)
                  /\ f \in DOMAIN s.files /\ AddedTo(fs, s, {f})
  BY <1>2
<1>4. PICK u : u = Ref(s, f)
  OBVIOUS
<1>5. fs' = u
  BY <1>3, <1>4 DEF Opened, Becomes
<1>6. Grown(fs, u)
  BY <1>3, <1>4, RefGrown
<1> QED BY <1>5, <1>6, GrownStep

LEMMA OrphanTidy ==
  ASSUME IInv, Goes(fs), NEW t \in Threads, MemfdCreate(t) \/ EpollCreate(t)
  PROVE  TidyStep
<1>1. PICK v, a : a \in Addresses /\ Inserted(fs, a, v) /\ Opened(t, v, a, a)
  <2>1. CASE MemfdCreate(t)
    BY <2>1 DEF MemfdCreate, Inserted
  <2>2. CASE EpollCreate(t)
    BY <2>2 DEF EpollCreate, Inserted
  <2> QED BY <2>1, <2>2
<1>2. a \in Addresses \ DOMAIN ofds
  BY <1>1 DEF Opened, NewAddress, FreeAddresses
<1>3. a \notin DOMAIN fs.files
  BY <1>2, FreshAddress DEF IInv
<1>4. PICK kind \in {"epoll", "memfd"}, n \in Names \cup {None} :
        v = InOrphans(fs, a, kind, n, None)
  BY <1>1 DEF Inserted
<1> DEFINE X == {a}
<1>5. kind \in Kinds /\ None \in Addresses \cup {None} /\ a \in X /\ Shape(fs)
  BY DEF Kinds, IInv, Good
<1> HIDE DEF X
<1>6. Shape(v) /\ AddedTo(fs, v, X) /\ a \in DOMAIN v.files
  BY <1>2, <1>3, <1>4, <1>5, OrphanAdds
<1>7. PICK u : u = Ref(v, a)
  OBVIOUS
<1>8. Grown(fs, u)
  <2>1. AddedTo(fs, v, {a})
    BY <1>6 DEF X
  <2> QED BY <1>6, <1>7, <2>1, RefGrown
<1>9. fs' = u
  BY <1>1, <1>7 DEF Opened, Becomes
<1> QED BY <1>8, <1>9, GrownStep

LEMMA CloseTidy ==
  ASSUME IInv, Sparse(fs), Goes(fs), NEW t \in Threads, CloseFd(t)
  PROVE  TidyStep
<1> DEFINE p == ProcessOf[t]
<1>1. PICK fd \in Fds \ FreeFds(t) :
        Becomes(Closed(fs, ofds[table[p][fd]].file), [table EXCEPT ![p][fd] = None], ofds)
  BY DEF CloseFd, FdsOf
<1>2. p \in Processes /\ fd \in Fds /\ table[p][fd] # None
  BY ProcessKnown
<1> HIDE DEF p
<1>3. PICK f, v : f = ofds[table[p][fd]].file /\ v = Closed(fs, f)
  OBVIOUS
<1>4. fs' = v
  BY <1>1, <1>3 DEF Becomes
<1>5. Goes(v) /\ OnlyGone(fs, v, f)
  BY <1>2, <1>3, ClosedGoes DEF IInv
<1>6. <<p, fd>> \in UsedBy(table, ofds, f)
  BY <1>2, <1>3 DEF UsedBy
<1>7. \A g \in DOMAIN fs.files : g \in DOMAIN v.files \/ UsedBy(table, ofds, g) # {}
  BY <1>5, <1>6 DEF OnlyGone
<1> QED BY <1>4, <1>5, <1>7, TidyOf

LEMMA DupTidy ==
  ASSUME IInv, Goes(fs), NEW t \in Threads, Dup(t)
  PROVE  TidyStep
<1>1. PICK fd \in Fds \ FreeFds(t) : fs' = Ref(fs, ofds[FdsOf(t)[fd]].file)
  BY DEF Dup, Becomes
<1>2. PICK f, u : f = ofds[FdsOf(t)[fd]].file /\ u = Ref(fs, f)
  OBVIOUS
<1>3. f \in DOMAIN fs.files /\ Shape(fs) /\ AddedTo(fs, fs, {f})
  BY <1>2, ProcessKnown DEF IInv, Good, AddedTo
<1>4. Grown(fs, u)
  BY <1>2, <1>3, RefGrown
<1> QED BY <1>1, <1>2, <1>4, GrownStep

LEMMA Dup2Tidy ==
  ASSUME IInv, Sparse(fs), Goes(fs), NEW t \in Threads, Dup2(t)
  PROVE  TidyStep
<1> DEFINE p == ProcessOf[t]
<1>1. PICK old \in Fds \ FreeFds(t) : \E new \in Fds \ {old} :
        LET s == IF new \in FreeFds(t) THEN fs
                 ELSE Closed(fs, ofds[table[p][new]].file)
        IN fs' = Ref(s, ofds[table[p][old]].file)
  BY DEF Dup2, FdsOf, Becomes
<1>2. PICK new \in Fds \ {old} :
        LET s == IF new \in FreeFds(t) THEN fs
                 ELSE Closed(fs, ofds[table[p][new]].file)
        IN fs' = Ref(s, ofds[table[p][old]].file)
  BY <1>1
<1>3. PICK s, f, u :
        /\ s = IF new \in FreeFds(t) THEN fs ELSE Closed(fs, ofds[table[p][new]].file)
        /\ f = ofds[table[p][old]].file /\ u = Ref(s, f) /\ fs' = u
  BY <1>2
<1>4. /\ p \in Processes /\ table[p][old] \in DOMAIN ofds /\ table[p][old] # None
      /\ new \in FreeFds(t) <=> table[p][new] = None
      /\ f \in DOMAIN fs.files
  BY <1>3, ProcessKnown DEF FdsOf
<1> HIDE DEF p
<1>5. /\ Shape(s) /\ f \in DOMAIN s.files /\ Goes(s)
      /\ \A g \in DOMAIN fs.files : g \in DOMAIN s.files \/ UsedBy(table, ofds, g) # {}
  <2>1. CASE table[p][new] = None
    BY <1>3, <1>4, <2>1 DEF IInv, Good
  <2>2. CASE table[p][new] # None
    <3>1. PICK g : g = ofds[table[p][new]].file
      OBVIOUS
    <3>2. s = Closed(fs, g)
      BY <1>3, <1>4, <2>2, <3>1
    <3>3. Goes(s) /\ OnlyGone(fs, s, g)
      BY <1>4, <2>2, <3>1, <3>2, ClosedGoes DEF IInv
    <3>4. Good(s, Cleared(table, p, new), ofds, {})
      BY <1>4, <2>2, <3>1, <3>2, ClosedGood DEF IInv
    <3>5. Cleared(table, p, new)[p][old] = table[p][old]
      BY <1>4 DEF Cleared, IInv, Good, Tables
    <3>6. f \in DOMAIN s.files
      BY <1>3, <1>4, <3>4, <3>5 DEF Good, Counted
    <3>7. <<p, new>> \in UsedBy(table, ofds, g)
      BY <1>4, <2>2, <3>1 DEF UsedBy
    <3> QED BY <3>3, <3>4, <3>6, <3>7 DEF OnlyGone, Good
  <2> QED BY <2>1, <2>2
<1>6. AddedTo(s, s, {f}) /\ u = Ref(s, f)
  BY <1>3 DEF AddedTo
<1>7. Grown(s, u) /\ SameFiles(s, u)
  BY <1>5, <1>6, RefGrown
<1>8. Goes(u)
  BY <1>5, <1>7, GrownKeeps
<1>9. \A g \in DOMAIN fs.files : g \in DOMAIN u.files \/ UsedBy(table, ofds, g) # {}
  BY <1>5, <1>7 DEF SameFiles
<1> QED BY <1>3, <1>8, <1>9, TidyOf

LEMMA LastingGrown ==
  ASSUME NEW s, NEW u, Lasting(s, u)
  PROVE  Grown(s, u)
BY DEF Lasting, Grown, GoesLater

LEMMA BecomesFiles ==
  ASSUME NEW s, NEW tab, NEW o, Becomes(s, tab, o)
  PROVE  fs' = s
BY DEF Becomes

LEMMA RenameTidy ==
  ASSUME IInv, Goes(fs), NEW t \in Threads, Rename(t)
  PROVE  TidyStep
<1>1. PICK old \in Names, new \in Names :
        /\ Named(fs, old) # None
        /\ LET f == Named(fs, old)
               taken == [fs EXCEPT !.entries[old] = Tail(@)]
           IN fs' = [taken EXCEPT !.entries[new] = Append(@, f), !.files[f].name = new]
  <2>1. PICK old \in Names, new \in Names :
          /\ Named(fs, old) # None
          /\ Becomes([[fs EXCEPT !.entries[old] = Tail(@)] EXCEPT
                        !.entries[new] = Append(@, Named(fs, old)),
                        !.files[Named(fs, old)].name = new], table, ofds)
    BY Zenon DEF Rename
  <2>2. fs' = [[fs EXCEPT !.entries[old] = Tail(@)] EXCEPT
                 !.entries[new] = Append(@, Named(fs, old)),
                 !.files[Named(fs, old)].name = new]
    BY <2>1, BecomesFiles, Zenon
  <2> QED BY <2>1, <2>2, Zenon
<1>2. fs.entries[old] # <<>> /\ Named(fs, old) = Head(fs.entries[old])
  BY <1>1 DEF Named
<1>3. \E u : Renamed(fs, old, new, u) /\ fs' = u
  BY <1>1, <1>2 DEF Renamed
<1>4. PICK u : Renamed(fs, old, new, u) /\ fs' = u
  BY <1>3
<1>5. Lasting(fs, u)
  BY <1>2, <1>4, RenamedGood DEF IInv
<1> QED BY <1>4, <1>5, LastingGrown, GrownStep

LEMMA ForkTidy ==
  ASSUME IInv, Goes(fs), NEW t \in Threads, Fork(t)
  PROVE  TidyStep
<1> DEFINE p == ProcessOf[t]
<1>1. PICK c \in Processes \ running :
        Slots(c) = {} /\ fs' = [fs EXCEPT !.files = RefsCopied(p)]
  BY DEF Fork, Becomes
<1>2. p \in Processes /\ p # c
  BY ProcessKnown DEF Fork, Can
<1> HIDE DEF p
<1>3. \E u : FilesSet(fs, RefsCopied(p), u) /\ fs' = u
  BY <1>1 DEF FilesSet
<1>4. PICK u : FilesSet(fs, RefsCopied(p), u) /\ fs' = u
  BY <1>3
<1>5. Lasting(fs, u)
  BY <1>1, <1>2, <1>4, ForkGood
<1> QED BY <1>4, <1>5, LastingGrown, GrownStep

LEMMA ExitTidy ==
  ASSUME IInv, Sparse(fs), Goes(fs), NEW t \in Threads, Exit(t)
  PROVE  TidyStep
<1> DEFINE p == ProcessOf[t]
<1>1. fs' = ClosedAll(p) /\ p \in Processes
  BY ProcessKnown DEF Exit, Becomes
<1> HIDE DEF p
<1>2. GoesUpTo(p, MaxFd + 1)
  BY <1>1, ExitGoes
<1>3. PICK s : s = ClosedBefore(p)[MaxFd + 1]
  OBVIOUS
<1>4. fs' = s
  BY <1>1, <1>3 DEF ClosedAll
<1>5. Goes(s) /\ \A f \in DOMAIN fs.files :
                   f \in DOMAIN s.files \/ UsedBy(table, ofds, f) # {}
  BY <1>2, <1>3 DEF GoesUpTo
<1> QED BY <1>4, <1>5, TidyOf

(* The name is free again, or the file is open. *)
LEMMA UnlinkTidy ==
  ASSUME IInv, Sparse(fs), Goes(fs), NEW t \in Threads, Unlink(t)
  PROVE  TidyStep
<1>1. PICK n \in Names : /\ Named(fs, n) # None
                         /\ fs' = Unlinked(fs, n) /\ table' = table
  BY DEF Unlink, Becomes
<1>2. PICK f : f = Head(fs.entries[n])
  OBVIOUS
<1>3. fs.entries[n] # <<>> /\ Named(fs, n) = f /\ f # None
  BY <1>1, <1>2 DEF Named
<1>4. f \in DOMAIN fs.files /\ fs.files[f] \in File
  <2>1. Good(fs, table, ofds, {}) /\ Shape(fs)
    BY DEF IInv, Good
  <2>2. f \in DOMAIN fs.files
    BY <1>2, <1>3, <2>1, EntryKnown
  <2> QED BY <2>1, <2>2 DEF Shape
<1>5. CASE fs.files[f].refs > 0
  <2> DEFINE r == [fs.files[f] EXCEPT !.doomed = TRUE]
  <2>1. fs' = [fs EXCEPT !.files[f] = r]
    BY <1>1, <1>3, <1>5 DEF Unlinked
  <2>2. r \in File /\ r.refs = fs.files[f].refs
    BY <1>4 DEF File
  <2> HIDE DEF r
  <2>3. PICK u : u = [fs EXCEPT !.files[f] = r]
    OBVIOUS
  <2>4. /\ u.orphans = fs.orphans
        /\ DOMAIN u.files = DOMAIN fs.files
        /\ u.files[f] = r
        /\ \A g \in DOMAIN fs.files \ {f} : u.files[g] = fs.files[g]
    BY <1>4, <2>2, <2>3, Changed DEF IInv, Good
  <2>5. Grown(fs, u)
    BY <1>5, <2>2, <2>4 DEF Grown, GoesLater
  <2> QED BY <2>1, <2>3, <2>5, GrownStep
<1>6. CASE ~(fs.files[f].refs > 0)
  <2>1. PICK u : fs' = u /\ HeadTaken(fs, n, u)
    BY <1>1, <1>2, <1>3, <1>6 DEF Unlinked, HeadTaken
  <2>2. /\ u.orphans = fs.orphans
        /\ DOMAIN u.files = DOMAIN fs.files \ {f}
        /\ \A g \in DOMAIN u.files : u.files[g] = fs.files[g]
        /\ \A i \in DOMAIN u.entries[n] :
             /\ i + 1 \in DOMAIN fs.entries[n] /\ i \in Nat \ {0}
             /\ u.entries[n][i] = fs.entries[n][i + 1]
        /\ u.entries[n] \in Seq(Nodes)
    BY <1>2, <1>3, <2>1, EntryRemoved DEF IInv, Shape
(* Another entry would be of another file, and the path would stand for   *)
(* both.                                                                  *)
  <2>3. u.entries[n] = <<>>
    <3>1. SUFFICES ASSUME u.entries[n] # <<>> PROVE FALSE
      OBVIOUS
    <3>2. 1 \in DOMAIN u.entries[n]
      BY <2>2, <3>1, LenProperties, EmptySeq
    <3>3. 1 + 1 \in DOMAIN fs.entries[n] /\ 1 \in DOMAIN fs.entries[n] /\ 1 # 1 + 1
      BY <1>3, <2>2, <3>2, EntryKnown DEF IInv
    <3>4. fs.entries[n][1] # fs.entries[n][1 + 1]
      BY <3>3 DEF IInv, Good, Directory
    <3>5. fs.entries[n][1] \in Paths(fs, n) /\ fs.entries[n][1 + 1] \in Paths(fs, n)
      BY <3>3 DEF Paths
    <3> QED BY <3>4, <3>5 DEF Sparse
  <2>4. UnlinkedAt(f)
    <3>1. Named(u, n) = None
      BY <2>3 DEF Named
    <3>2. Named(fs', n) = None
      BY <2>1, <3>1
    <3> QED BY <1>1, <1>3, <3>2 DEF UnlinkedAt
  <2>5. Goes(u)
    BY <2>2 DEF Goes
  <2> QED BY <2>1, <2>2, <2>4, <2>5 DEF TidyStep, GoneStep, Goes
<1> QED BY <1>5, <1>6

LEMMA AddedWider ==
  ASSUME NEW s, NEW u, NEW X, NEW Y, AddedTo(s, u, X), X \subseteq Y
  PROVE  AddedTo(s, u, Y)
BY DEF AddedTo

LEMMA AddedTwice ==
  ASSUME NEW s, NEW u, NEW v, NEW X, AddedTo(s, u, X), AddedTo(u, v, X)
  PROVE  AddedTo(s, v, X)
BY DEF AddedTo

(* Both ends are orphans: neither has a path to go by. *)
LEMMA EndsGrown ==
  ASSUME NEW s, Shape(s), NEW r \in Addresses, r \notin DOMAIN s.files,
         NEW w \in Addresses, w \notin DOMAIN s.files, r # w, NEW i \in Addresses,
         NEW u, EndOf(s, r, "reader", i, u), NEW v, EndOf(u, w, "writer", i, v),
         NEW x, x = Ref(v, r), NEW y, y = Ref(x, w)
  PROVE  Grown(s, y) /\ Shape(y)
<1> DEFINE R == {r}
           W == {w}
           X == {r, w}
<1>1. /\ r \in R /\ R \subseteq X /\ w \in W /\ W \subseteq X /\ r \in X /\ w \in X
      /\ \A g : g \in R => g = r
      /\ \A g : g \in X => g = r \/ g = w
      /\ "reader" \in Kinds /\ "writer" \in Kinds
      /\ None \in Names \cup {None} /\ i \in Addresses \cup {None}
      /\ u = InOrphans(s, r, "reader", None, i) /\ v = InOrphans(u, w, "writer", None, i)
  BY DEF Kinds, Ends, EndOf
<1> HIDE DEF R, W, X
<1>2. Shape(u) /\ AddedTo(s, u, R) /\ r \in u.orphans /\ r \in DOMAIN u.files
  BY <1>1, OrphanAdds
<1>3. w \notin DOMAIN u.files
  BY <1>1, <1>2 DEF AddedTo
<1>4. Shape(v) /\ AddedTo(u, v, W) /\ w \in v.orphans /\ w \in DOMAIN v.files
  BY <1>1, <1>2, <1>3, OrphanAdds
<1>5. r \in v.orphans /\ r \in DOMAIN v.files
  BY <1>2, <1>4 DEF AddedTo
<1>6. AddedTo(s, v, X)
  <2>1. AddedTo(s, u, X) /\ AddedTo(u, v, X)
    BY <1>1, <1>2, <1>4, AddedWider
  <2> QED BY <2>1, AddedTwice
<1>7. AddedTo(s, x, X) /\ Shape(x) /\ SameFiles(v, x)
  BY <1>1, <1>4, <1>5, <1>6, RefAdded
<1>8. w \in DOMAIN x.files
  BY <1>4, <1>7 DEF SameFiles
<1>9. AddedTo(s, y, X) /\ Shape(y) /\ SameFiles(x, y)
  BY <1>1, <1>7, <1>8, RefAdded
<1>10. \A g \in X : g \in y.orphans
  BY <1>1, <1>4, <1>5, <1>7, <1>9 DEF SameFiles
<1>11. \A g \in X : g \in DOMAIN y.files \ y.orphans => GoesLater(y.files[g])
  BY <1>10
<1> QED BY <1>9, <1>11, AddedGrown

PipesSet(s, P, u) == u = [s EXCEPT !.pipes = P]

LEMMA PipesOnly ==
  ASSUME NEW s, Shape(s), NEW P, NEW u, PipesSet(s, P, u)
  PROVE  u.files = s.files /\ u.entries = s.entries /\ u.orphans = s.orphans
<1>1. s = [files |-> s.files, entries |-> s.entries, orphans |-> s.orphans,
           pipes |-> s.pipes]
  BY DEF Shape
<1>2. u = [files |-> s.files, entries |-> s.entries, orphans |-> s.orphans, pipes |-> P]
  BY <1>1 DEF PipesSet
<1> QED BY <1>2

LEMMA Pipe2Tidy ==
  ASSUME IInv, Goes(fs), NEW t \in Threads, Pipe2(t)
  PROVE  TidyStep
<1> DEFINE i == Least(Addresses \ DOMAIN fs.pipes)
<1>1. i \in Addresses
  BY LeastExists, PoolsAssumption DEF Pipe2
<1>2. PICK r \in Addresses, w \in Addresses :
        LET s == InOrphans(InOrphans(fs, r, "reader", None, i), w, "writer", None, i)
            pipe == [bytes |-> 0, readers |-> {r}, writers |-> {w}]
        IN /\ NewAddress(r, FreeAddresses)
           /\ NewAddress(w, FreeAddresses \ {r})
           /\ fs' = [Ref(Ref(s, r), w) EXCEPT !.pipes = With(@, i, pipe)]
  BY BecomesFiles, Zenon DEF Pipe2
<1> HIDE DEF i
<1>3. PICK u, v, x, y :
        /\ u = InOrphans(fs, r, "reader", None, i)
        /\ v = InOrphans(u, w, "writer", None, i)
        /\ x = Ref(v, r) /\ y = Ref(x, w)
  OBVIOUS
<1>4. PICK pipe : fs' = [y EXCEPT !.pipes = With(@, i, pipe)]
  BY <1>2, <1>3
<1>5. r \in Addresses \ DOMAIN ofds /\ w \in Addresses \ DOMAIN ofds /\ r # w
  BY <1>2 DEF NewAddress, FreeAddresses
<1>6. r \notin DOMAIN fs.files /\ w \notin DOMAIN fs.files /\ Shape(fs)
  BY <1>5, FreshAddress DEF IInv, Good
<1>7. EndOf(fs, r, "reader", i, u) /\ EndOf(u, w, "writer", i, v)
  BY <1>3 DEF EndOf
<1>8. Grown(fs, y) /\ Shape(y)
  BY <1>1, <1>3, <1>5, <1>6, <1>7, EndsGrown
<1>9. PICK P, z : PipesSet(y, P, z) /\ fs' = z
  <2> DEFINE P == With(y.pipes, i, pipe)
             z == [y EXCEPT !.pipes = P]
  <2>1. PipesSet(y, P, z) /\ fs' = z
    BY <1>4 DEF PipesSet
  <2> HIDE DEF P, z
  <2> QED BY <2>1
<1>10. z.files = y.files /\ z.orphans = y.orphans
  BY <1>8, <1>9, PipesOnly
<1>11. Grown(fs, z)
  BY <1>8, <1>10 DEF Grown
<1> QED BY <1>9, <1>11, GrownStep

-----------------------------------------------------------------------------
(* The steps that leave the directory, the orphans and their names alone.  *)
SamePaths(s, u) ==
  /\ u.entries = s.entries /\ Lasting(s, u)
  /\ \A f \in DOMAIN s.files : u.files[f].name = s.files[f].name

LEMMA SamePathsSparse ==
  ASSUME NEW s, NEW tab, NEW o, NEW X, Good(s, tab, o, X), NEW u, SamePaths(s, u),
         Sparse(s)
  PROVE  Sparse(u)
<1>1. s.orphans \subseteq DOMAIN s.files
  BY DEF Good, Orphaned
<1>2. Within(s, u)
  BY <1>1 DEF SamePaths, Lasting, Within
<1> QED BY <1>2, WithinSparse

LEMMA FilesKept ==
  ASSUME NEW s, NEW u, u.files = s.files, u.entries = s.entries, u.orphans = s.orphans
  PROVE  SamePaths(s, u)
BY DEF SamePaths, Lasting

LEMMA TakingPaths ==
  ASSUME IInv, NEW a, Taking(a)
  PROVE  SamePaths(fs, fs')
<1>1. PICK i, k : fs' = [fs EXCEPT !.pipes[i].bytes = @ - k]
  BY DEF Taking
<1>2. PICK P, z : PipesSet(fs, P, z) /\ fs' = z
  <2> DEFINE q == [fs.pipes[i] EXCEPT !.bytes = @ - k]
             P == [fs.pipes EXCEPT ![i] = q]
             z == [fs EXCEPT !.pipes = P]
  <2>1. PipesSet(fs, P, z)
    BY DEF PipesSet
  <2>2. fs' = z
    BY <1>1
  <2> HIDE DEF P, z
  <2> QED BY <2>1, <2>2
<1>3. z.files = fs.files /\ z.entries = fs.entries /\ z.orphans = fs.orphans
  BY <1>2, PipesOnly DEF IInv, Good
<1>4. SamePaths(fs, z)
  BY <1>3, FilesKept
<1> QED BY <1>2, <1>4

LEMMA WritePaths ==
  ASSUME IInv, NEW t \in Threads, Write(t)
  PROVE  SamePaths(fs, fs')
<1>1. PICK i : fs' = [fs EXCEPT !.pipes[i].bytes = @ + 1]
  BY DEF Write
<1>2. PICK P, z : PipesSet(fs, P, z) /\ fs' = z
  <2> DEFINE q == [fs.pipes[i] EXCEPT !.bytes = @ + 1]
             P == [fs.pipes EXCEPT ![i] = q]
             z == [fs EXCEPT !.pipes = P]
  <2>1. PipesSet(fs, P, z)
    BY DEF PipesSet
  <2>2. fs' = z
    BY <1>1
  <2> HIDE DEF P, z
  <2> QED BY <2>1, <2>2
<1>3. z.files = fs.files /\ z.entries = fs.entries /\ z.orphans = fs.orphans
  BY <1>2, PipesOnly DEF IInv, Good
<1>4. SamePaths(fs, z)
  BY <1>3, FilesKept
<1> QED BY <1>2, <1>4

LEMMA EpollCtlPaths ==
  ASSUME IInv, NEW t \in Threads, EpollCtl(t)
  PROVE  SamePaths(fs, fs')
<1>1. PICK epfd \in Fds \ FreeFds(t), fd \in Fds :
        LET e == ofds[FdsOf(t)[epfd]].file
            a == FdsOf(t)[fd]
        IN \/ fs' = [fs EXCEPT !.files[e].interest = @ \cup {a}]
           \/ fs' = [fs EXCEPT !.files[e].interest = @ \ {a}]
           \/ UNCHANGED fs
  BY DEF EpollCtl
<1>2. PICK e, a : /\ e = ofds[FdsOf(t)[epfd]].file /\ a = FdsOf(t)[fd]
  OBVIOUS
<1>3. e \in DOMAIN fs.files /\ a \in Addresses \cup {None}
  BY <1>2, ProcessKnown DEF FdsOf, IInv, Good, Tables
<1>4. fs.files[e] \in File
  BY <1>3 DEF IInv, Good, Shape
<1>5. ASSUME NEW list \in SUBSET (Addresses \cup {None}),
             fs' = [fs EXCEPT !.files[e].interest = list]
      PROVE  SamePaths(fs, fs')
  <2> DEFINE r == [fs.files[e] EXCEPT !.interest = list]
  <2>1. /\ r \in File /\ r.kind = fs.files[e].kind /\ r.name = fs.files[e].name
        /\ r.refs = fs.files[e].refs /\ r.doomed = fs.files[e].doomed
    BY <1>4 DEF File
  <2>2. fs' = [fs EXCEPT !.files[e] = r]
    BY <1>5
  <2> HIDE DEF r
  <2>3. PICK u : u = [fs EXCEPT !.files[e] = r]
    OBVIOUS
  <2>4. /\ u.entries = fs.entries /\ u.orphans = fs.orphans
        /\ DOMAIN u.files = DOMAIN fs.files
        /\ u.files[e] = r
        /\ \A g \in DOMAIN fs.files \ {e} : u.files[g] = fs.files[g]
    BY <1>3, <2>1, <2>3, Changed DEF IInv, Good
  <2>5. SamePaths(fs, u)
    BY <2>1, <2>4 DEF SamePaths, Lasting
  <2> QED BY <2>2, <2>3, <2>5
<1>6. fs.files[e].interest \in SUBSET (Addresses \cup {None})
  BY <1>4 DEF File
<1>7. \/ fs' = [fs EXCEPT !.files[e].interest = fs.files[e].interest \cup {a}]
      \/ fs' = [fs EXCEPT !.files[e].interest = fs.files[e].interest \ {a}]
      \/ UNCHANGED fs
  BY <1>1, <1>2
<1>8. CASE UNCHANGED fs
  BY <1>8, FilesKept
<1> QED BY <1>3, <1>5, <1>6, <1>7, <1>8

-----------------------------------------------------------------------------
(* As long as no two files have had one path. *)
Tidy == ~crowded => Sparse(fs) /\ Goes(fs)
TidyAfter == ~crowded' => Sparse(fs)' /\ Goes(fs)' /\ GoneStep

LEMMA BecomesTidy ==
  ASSUME IInv', RestOK, Tidy, NEW s, NEW tab, NEW o, Becomes(s, tab, o),
         Sparse(fs) /\ Goes(fs) => TidyStep
  PROVE  TidyAfter
<1>1. SUFFICES ASSUME ~crowded' PROVE Sparse(fs)' /\ Goes(fs)' /\ GoneStep
  BY DEF TidyAfter
<1>2. crowded' = (crowded \/ Crowded(s)) /\ fs' = s
  BY DEF Becomes
<1>3. ~crowded /\ ~Crowded(s)
  BY <1>1, <1>2 DEF RestOK
<1>4. Good(s, table', ofds', {})
  BY <1>2 DEF IInv
<1>5. Sparse(s)
  BY <1>3, <1>4, NotCrowded
<1>6. Sparse(fs)'
  BY <1>2, <1>5 DEF Sparse, Paths
<1> QED BY <1>3, <1>6 DEF Tidy, TidyStep

LEMMA PathsTidy ==
  ASSUME IInv, Tidy, SamePaths(fs, fs'), crowded' = crowded
  PROVE  TidyAfter
<1>1. SUFFICES ASSUME ~crowded' PROVE Sparse(fs)' /\ Goes(fs)' /\ GoneStep
  BY DEF TidyAfter
<1>2. Sparse(fs) /\ Goes(fs)
  BY <1>1 DEF Tidy
<1>3. PICK u : fs' = u
  OBVIOUS
<1>4. SamePaths(fs, u)
  BY <1>3
<1>5. Sparse(u)
  BY <1>2, <1>4, SamePathsSparse DEF IInv
<1>6. Sparse(fs)'
  BY <1>3, <1>5 DEF Sparse, Paths
<1>7. TidyStep
  BY <1>2, <1>3, <1>4, LastingGrown, GrownStep DEF SamePaths
<1> QED BY <1>6, <1>7 DEF TidyStep

LEMMA CallTidy ==
  ASSUME IInv, IInv', RestOK, Tidy, NEW t \in Threads, Call(t)
  PROVE  TidyAfter
<1>1. CASE Open(t)
  <2>1. PICK s, f, a : Opened(t, s, f, a)
    BY <1>1 DEF Open
  <2>2. \E u, tab, o : Becomes(u, tab, o)
    BY <2>1 DEF Opened
  <2> QED BY <1>1, <2>2, OpenTidy, BecomesTidy
<1>2. CASE MemfdCreate(t) \/ EpollCreate(t)
  <2>1. \E s, tab, o : Becomes(s, tab, o)
    BY <1>2 DEF MemfdCreate, EpollCreate, Opened
  <2> QED BY <1>2, <2>1, OrphanTidy, BecomesTidy
<1>3. CASE Pipe2(t)
  <2>1. \E s, tab, o : Becomes(s, tab, o)
    BY <1>3 DEF Pipe2
  <2> QED BY <1>3, <2>1, Pipe2Tidy, BecomesTidy
<1>4. CASE CloseFd(t)
  <2>1. \E s, tab, o : Becomes(s, tab, o)
    BY <1>4 DEF CloseFd
  <2> QED BY <1>4, <2>1, CloseTidy, BecomesTidy
<1>5. CASE Dup(t)
  <2>1. \E s, tab, o : Becomes(s, tab, o)
    BY <1>5 DEF Dup
  <2> QED BY <1>5, <2>1, DupTidy, BecomesTidy
<1>6. CASE Dup2(t)
  <2>1. \E s, tab, o : Becomes(s, tab, o)
    BY <1>6 DEF Dup2
  <2> QED BY <1>6, <2>1, Dup2Tidy, BecomesTidy
<1>7. CASE Rename(t)
  <2>1. \E s, tab, o : Becomes(s, tab, o)
    BY <1>7 DEF Rename
  <2> QED BY <1>7, <2>1, RenameTidy, BecomesTidy
<1>8. CASE Unlink(t)
  <2>1. \E s, tab, o : Becomes(s, tab, o)
    BY <1>8 DEF Unlink
  <2> QED BY <1>8, <2>1, UnlinkTidy, BecomesTidy
<1>9. CASE Fork(t)
  <2>1. \E s, tab, o : Becomes(s, tab, o)
    BY <1>9 DEF Fork
  <2> QED BY <1>9, <2>1, ForkTidy, BecomesTidy
<1>10. CASE Exit(t)
  <2>1. \E s, tab, o : Becomes(s, tab, o)
    BY <1>10 DEF Exit
  <2> QED BY <1>10, <2>1, ExitTidy, BecomesTidy
<1>11. CASE Kill(t) \/ Wait(t) \/ SetNonblock(t)
  <2>1. fs' = fs /\ crowded' = crowded
    BY <1>11 DEF Kill, Wait, SetNonblock, Same
  <2> QED BY <2>1, FilesKept, PathsTidy
<1>12. CASE Read(t)
  <2>1. crowded' = crowded /\ (fs' = fs \/ \E a : Taking(a))
    BY <1>12 DEF Read
  <2> QED BY <2>1, FilesKept, TakingPaths, PathsTidy
<1>13. CASE Write(t)
  <2>1. crowded' = crowded
    BY <1>13 DEF Write
  <2> QED BY <1>13, <2>1, WritePaths, PathsTidy
<1>14. CASE EpollCtl(t)
  <2>1. crowded' = crowded
    BY <1>14 DEF EpollCtl
  <2> QED BY <1>14, <2>1, EpollCtlPaths, PathsTidy
<1> QED BY <1>1, <1>2, <1>3, <1>4, <1>5, <1>6, <1>7, <1>8, <1>9, <1>10, <1>11,
          <1>12, <1>13, <1>14 DEF Call

LEMMA NextTidy ==
  ASSUME IInv, IInv', RestOK, Tidy, [Next]_vars
  PROVE  TidyAfter
<1>1. ASSUME NEW t \in Threads, TryRead(t) PROVE TidyAfter
  <2>1. crowded' = crowded /\ (fs' = fs \/ \E a : Taking(a))
    BY <1>1 DEF TryRead
  <2> QED BY <2>1, FilesKept, TakingPaths, PathsTidy
<1>2. ASSUME NEW t \in Threads, TryWait(t) PROVE TidyAfter
  <2>1. fs' = fs /\ crowded' = crowded
    BY <1>2 DEF TryWait, Same
  <2> QED BY <2>1, FilesKept, PathsTidy
<1>3. CASE UNCHANGED vars
  <2>1. fs' = fs /\ crowded' = crowded
    BY <1>3 DEF vars
  <2> QED BY <2>1, FilesKept, PathsTidy
<1> QED BY <1>1, <1>2, <1>3, CallTidy DEF Next

(* Until two files have had one path, a path stands for one file at most,  *)
(* and a file that is to go with its last descriptor has one.              *)
THEOREM StaysTidy == Spec => [](IInv /\ RestOK /\ Tidy)
<1>1. Init => Tidy
  <2>1. Init => DOMAIN fs.files = {} /\ fs.orphans = {} /\ \A n \in Names : fs.entries[n] = <<>>
    BY DEF Init
  <2>2. Init => Sparse(fs)
    BY <2>1 DEF Sparse, Paths
  <2>3. Init => Goes(fs)
    BY <2>1 DEF Goes
  <2> QED BY <2>2, <2>3 DEF Tidy
<1>2. (IInv /\ RestOK /\ Tidy) /\ [Next]_vars => (IInv /\ RestOK /\ Tidy)'
  BY NextGood, NextRest, NextTidy DEF TidyAfter, Tidy
<1> QED BY <1>1, <1>2, InitGood, PTL DEF Spec

(* A file that FS::unlink left because it was open, and a file of the      *)
(* host, are removed by the FS::close of their last descriptor, through    *)
(* dup2, closeAll and rename; so nothing stays that cannot be reached.     *)
THEOREM NothingStaysForGood == Spec => []NothingStays
<1>1. Tidy => UnlinkedFilesGo
  BY DEF Tidy, Goes, GoesLater, UnlinkedFilesGo
<1> QED BY <1>1, StaysTidy, NothingLeaked, PTL DEF NothingStays

(* FS::close removes the file that its path leads to, and that is the one  *)
(* it closes; FS::unlink leaves its path free.                             *)
THEOREM ClosesOnlyItsOwn == Spec => ClosesItsOwn
<1>1. \A f : Descriptors(f) = UsedBy(table, ofds, f)
  BY DEF Descriptors, UsedBy
<1>2. ASSUME IInv, RestOK, Tidy, [Next]_vars, ~crowded',
             NEW f \in DOMAIN fs.files \ DOMAIN fs'.files
      PROVE  \/ Descriptors(f) # {}
             \/ \E n \in Names : Named(fs, n) = f /\ Named(fs', n) = None
                  /\ table' = table
  <2>1. GoneStep
    BY <1>2, NextGood, NextTidy DEF TidyAfter
  <2> QED BY <1>1, <1>2, <2>1 DEF GoneStep, UnlinkedAt
<1>3. (IInv /\ RestOK /\ Tidy) /\ [Next]_vars =>
        [~crowded' =>
           \A f \in DOMAIN fs.files \ DOMAIN fs'.files :
             \/ Descriptors(f) # {}
             \/ \E n \in Names : Named(fs, n) = f /\ Named(fs', n) = None
                  /\ table' = table]_vars
  BY <1>2
<1> QED BY <1>3, StaysTidy, PTL DEF Spec, ClosesItsOwn
=============================================================================
