------------------------------ MODULE GuestCode ------------------------------
(***************************************************************************)
(* What the code of an emulated program does, block by block: the promise  *)
(* that the caches of translated blocks have to keep (module CodeSegments). *)
(* A block is named by its first address.  How it ends decides where its   *)
(* thread goes next and what happens to the return addresses on its stack. *)
(***************************************************************************)
EXTENDS Naturals, Sequences

CONSTANTS
  Threads,
  Addrs,      \* the first addresses of the blocks
  Ends,       \* how each block ends
  Dests,      \* the addresses its last instruction may name or read
  After,      \* the address that follows it
  Starts,     \* where threads start
  MaxDepth,   \* bounds the nesting of calls
  Absent      \* the place of a thread that has not been created

EndsWith == {"jmp", "jcc", "call", "icall", "ijmp", "ret", "syscall", "longjmp"}

ASSUME ProgramAssumption ==
  /\ Ends \in [Addrs -> EndsWith] /\ Dests \in [Addrs -> SUBSET Addrs]
  /\ After \in [Addrs -> Addrs] /\ Starts \subseteq Addrs
  /\ Absent \notin Addrs /\ MaxDepth \in Nat

VARIABLES
  rip,      \* the block each thread is about to run
  frames    \* the return addresses on its stack

(* where the block at a goes with the stack s, and the stack then *)
Outcomes(a, s) ==
  CASE Ends[a] \in {"jmp", "ijmp"} -> {<<d, s>> : d \in Dests[a]}
    [] Ends[a] = "jcc" -> {<<d, s>> : d \in Dests[a] \cup {After[a]}}
    [] Ends[a] \in {"call", "icall"} ->
         IF Len(s) = MaxDepth THEN {}
         ELSE {<<d, Append(s, After[a])>> : d \in Dests[a]}
    [] Ends[a] = "syscall" -> {<<After[a], s>>}
    [] Ends[a] = "ret" ->
         IF s = <<>> THEN {} ELSE {<<s[Len(s)], SubSeq(s, 1, Len(s) - 1)>>}
    [] Ends[a] = "longjmp" ->
         {<<s[k], SubSeq(s, 1, k - 1)>> : k \in 1..Len(s)}

GuestInit ==
  /\ rip \in [Threads -> Starts \cup {Absent}]
  /\ frames = [t \in Threads |-> <<>>]

Runs(t) == \E o \in Outcomes(rip[t], frames[t]) :
  /\ rip' = [rip EXCEPT ![t] = o[1]]
  /\ frames' = [frames EXCEPT ![t] = o[2]]

Appears(t) == \E a \in Starts :
  /\ rip[t] = Absent
  /\ rip' = [rip EXCEPT ![t] = a]
  /\ UNCHANGED frames

GuestNext == \E t \in Threads : (rip[t] # Absent /\ Runs(t)) \/ Appears(t)
GuestSpec == GuestInit /\ [][GuestNext]_<<rip, frames>>
=============================================================================
