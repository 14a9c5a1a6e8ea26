------------------------------ MODULE PageTable ------------------------------
(* What the address space promises a program: a table that says of each    *)
(* page whether it is mapped, with which protection, and what it holds.    *)
(* A new mapping reads as zeroes but for what a file fills, and a call     *)
(* changes a contiguous range of pages and nothing outside of it.          *)
EXTENDS Integers

CONSTANTS
  NPages,     \* the number of pages
  Unmapped,   \* the entry of a page that is not mapped
  Program     \* the table of a program that has just been loaded

VARIABLE table

Pages == 0..NPages - 1
Protections == SUBSET {"r", "w", "x"}
Contents == {"zero", "file", "stored"}
Entries == [prot : Protections, data : Contents]
Tables == [Pages -> Entries \cup {Unmapped}]

(* mmap and a growing brk: the pages below mid are filled from a file *)
Map(t, R, prot, mid) ==
  [p \in Pages |->
     IF p \in R
     THEN [prot |-> prot, data |-> IF p < mid THEN "file" ELSE "zero"]
     ELSE t[p]]

(* munmap and a shrinking brk *)
Unmap(t, R) == [p \in Pages |-> IF p \in R THEN Unmapped ELSE t[p]]

(* mprotect: the data stays *)
Protect(t, R, prot) ==
  [p \in Pages |->
     IF p \in R /\ t[p] # Unmapped THEN [t[p] EXCEPT !.prot = prot] ELSE t[p]]

(* a store of the program *)
Writable(t) == {p \in Pages : t[p] # Unmapped /\ "w" \in t[p].prot}
Store(t, p) == [t EXCEPT ![p].data = "stored"]

(* fork, from the point of view of the child: pages that cannot be read    *)
(* are not copied, and a mapping that is writable and executable loses the *)
(* right to be executed                                                    *)
InheritedEntry(e) ==
  [prot |-> IF {"w", "x"} \subseteq e.prot THEN {"r", "w"} ELSE e.prot,
   data |-> IF "r" \in e.prot THEN e.data ELSE "zero"]
Inherit(t) ==
  [p \in Pages |-> IF t[p] = Unmapped THEN Unmapped ELSE InheritedEntry(t[p])]

(* The null page is put back when no page of it is mapped.  It cannot be   *)
(* accessed, so it is not cleared: what it holds is not promised.          *)
Guard(t, u, R) ==
  /\ 0 \in R
  /\ \A p \in Pages :
       IF p \in R THEN t[p] = Unmapped /\ u[p] \in [prot : {{}}, data : Contents]
                  ELSE u[p] = t[p]

(* A call changes the pages of a range.  Those at its ends that it leaves  *)
(* as they were can be left out of it.                                     *)
Affected(t, u) ==
  {p \in Pages : \E lo, hi \in {q \in Pages : t[q] # u[q]} : lo <= p /\ p <= hi}

Steps(t, u) ==
  \/ \E R \in {Affected(t, u)} :
       \/ u = Unmap(t, R)
       \/ Guard(t, u, R)
       \/ \E prot \in Protections :
            \/ u = Protect(t, R, prot)
            \/ \E mid \in 0..NPages : u = Map(t, R, prot, mid)
  \/ \E p \in Writable(t) : u = Store(t, p)
  \/ u = Inherit(t)
  \/ u = Program

Init == table = Program
Next == \E t \in {table}, u \in {table'} : u \in Tables /\ Steps(t, u)
Spec == Init /\ [][Next]_table
=============================================================================
