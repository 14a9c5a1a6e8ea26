---------------------------- MODULE JobExclusion ----------------------------
(* What the scheduler promises about concurrent jobs: a reader-writer      *)
(* discipline.  Userspace jobs share the emulated machine; an atomic slice *)
(* or a system call has it alone.                                          *)
CONSTANT Workers

Shared == {"user"}
Exclusive == {"atomic", "kernel"}

VARIABLE active   \* active[w]: the kind of job worker w is in, or "idle"

Init == active = [w \in Workers |-> "idle"]

EnterShared(w) ==
  /\ active[w] = "idle"
  /\ \A v \in Workers : active[v] \notin Exclusive
  /\ \E m \in Shared : active' = [active EXCEPT ![w] = m]

EnterExclusive(w) ==
  /\ \A v \in Workers : active[v] = "idle"
  /\ \E m \in Exclusive : active' = [active EXCEPT ![w] = m]

Leave(w) ==
  /\ active[w] # "idle"
  /\ active' = [active EXCEPT ![w] = "idle"]

Next == \E w \in Workers : EnterShared(w) \/ EnterExclusive(w) \/ Leave(w)

Spec == Init /\ [][Next]_active
=============================================================================
