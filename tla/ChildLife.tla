------------------------------ MODULE ChildLife ------------------------------
(* What the process table promises a parent: a child runs, becomes a       *)
(* zombie when it exits, and is reported to the parent once, after which   *)
(* it is gone for good.  A parent that executes another program forgets    *)
(* all its children at once, and none ever changes its parent.             *)
CONSTANTS Ids, Root, NoParent

VARIABLES
  life,    \* life[p]: "unborn", "running", "zombie" or "gone"
  parent   \* parent[p], NoParent while unborn and for the root

Init ==
  /\ life = [p \in Ids |-> IF p = Root THEN "running" ELSE "unborn"]
  /\ parent = [p \in Ids |-> NoParent]

Birth(c) ==
  /\ life[c] = "unborn"
  /\ life' = [life EXCEPT ![c] = "running"]
  /\ \E p \in Ids : life[p] # "unborn" /\ parent' = [parent EXCEPT ![c] = p]

Death(c) ==
  /\ life[c] = "running" /\ parent[c] # NoParent
  /\ life' = [life EXCEPT ![c] = "zombie"]
  /\ UNCHANGED parent

Report(c) ==
  /\ life[c] = "zombie"
  /\ life' = [life EXCEPT ![c] = "gone"]
  /\ UNCHANGED parent

Disown(p) ==
  /\ life' = [c \in Ids |-> IF parent[c] = p THEN "gone" ELSE life[c]]
  /\ UNCHANGED parent

Next == \/ \E c \in Ids : Birth(c) \/ Death(c) \/ Report(c)
        \/ \E p \in Ids : Disown(p)

Spec == Init /\ [][Next]_<<life, parent>>
=============================================================================
